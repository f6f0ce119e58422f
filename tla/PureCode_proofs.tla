--------------------------- MODULE PureCode_proofs ---------------------------
(***************************************************************************)
(* Proofs about the code that computes and does not wait: that the loop of *)
(* StartupReconcile is right for every enumeration and every sequence of   *)
(* staged changes, and that PureCode's reports, messages, identities,      *)
(* strings, iterators and descriptors are right whatever their length.     *)
(*                                                                         *)
(* What a loop computes is proved without induction on operators: a number *)
(* of rounds for which a claim fails would have a least one (Least).       *)
(***************************************************************************)
EXTENDS StartupReconcile, PureCode, SequenceTheorems, FiniteSetTheorems, TLAPS

-----------------------------------------------------------------------------
(* Startup reconciliation                                                  *)

\* Event m of the input has been handled and connects the device of key k.
Connect(k, m) ==
  m \in 1..pos /\ input[m][1] = "connected" /\ input[m][2] # NoPath /\ Key(input[m][2]) = k

About(k, m) == input[m][2] # NoPath /\ Key(input[m][2]) = k

First(k, m) == Connect(k, m) /\ \A l \in 1..(m - 1) : ~Connect(k, l)

(***************************************************************************)
(* state holds, for a key, the connection handled last unless something    *)
(* about the key was handled after it.                                     *)
(***************************************************************************)
StateInv ==
  /\ \A k \in Keys : state[k] # None =>
       Connect(k, state[k]) /\ \A j \in (state[k] + 1)..pos : ~About(k, j)
  /\ \A k \in Keys, m \in 1..pos :
       Connect(k, m) /\ (\A j \in (m + 1)..pos : ~About(k, j)) => state[k] = m

\* order lists the keys that were connected, by their first connection.
OrderInv ==
  /\ \A k \in Keys, i \in 1..Len(order) : order[i] = k => \E m \in 1..pos : First(k, m)
  /\ \A k, l \in Keys, i, j \in 1..Len(order) : order[i] = k /\ order[j] = l /\ i < j =>
       \A m, n \in 1..pos : First(k, m) /\ First(l, n) => m < n
  /\ \A k \in Keys, m \in 1..pos : Connect(k, m) => \E i \in 1..Len(order) : order[i] = k

\* What is collected are the events kept for the first keys of order, in order.
ResultInv ==
  /\ pos < Len(input) => collected = 0 /\ result = <<>>
  /\ \A i \in 1..collected : state[order[i]] # None =>
       \E r \in 1..Len(result) : result[r] = state[order[i]]
  /\ \A r \in 1..Len(result) :
       result[r] # None /\ \E i \in 1..collected : result[r] = state[order[i]]
  /\ \A r, s \in 1..Len(result), i, j \in 1..Len(order) :
       r < s /\ state[order[i]] = result[r] /\ state[order[j]] = result[s] => i < j

IInv == TypeOK /\ StateInv /\ OrderInv /\ ResultInv

-----------------------------------------------------------------------------
(* The input                                                               *)

\* The events of the input, and the key of what an event is about.
LEMMA InputType ==
  ASSUME TypeOK
  PROVE  /\ input \in Seq(Changes) /\ Len(input) \in Nat /\ DOMAIN input = 1..Len(input)
         /\ \A m \in 1..Len(input) : input[m][2] # NoPath => Key(input[m][2]) \in Keys
  <1>1. Connects \subseteq Changes
    BY DEF Connects, Changes
  <1>2. snapshot \in Seq(Changes) /\ changes \in Seq(Changes)
    BY <1>1 DEF TypeOK
  <1>3. input \in Seq(Changes)
    BY <1>2, ConcatProperties DEF input
  <1>4. Len(input) \in Nat /\ DOMAIN input = 1..Len(input)
    BY <1>3, LenProperties
  <1>5. \A m \in 1..Len(input) : input[m] \in Changes
    BY <1>3, ElementOfSeq
  <1>6. \A p \in Paths : Key(p) \in Keys
    BY DEF Paths, Keys, Key, TypeOK
  <1> QED
    BY <1>3, <1>4, <1>5, <1>6 DEF Changes

\* No path is the missing one.
LEMMA NotAPath == NoPath \notin Paths
  BY DEF NoPath, Paths

\* Paths are of one device if they have the same key.
LEMMA SameKey ==
  ASSUME NEW p \in Paths, NEW q \in Paths, foldCase \in BOOLEAN
  PROVE  SameDevice(p, q) <=> Key(p) = Key(q)
  <1>1. p # NoPath /\ q # NoPath
    BY DEF Paths, NoPath
  <1>2. p = <<p[1], p[2]>> /\ q = <<q[1], q[2]>>
    BY DEF Paths
  <1>3. CASE foldCase
    BY <1>1, <1>2, <1>3 DEF SameDevice, Key
  <1>4. CASE ~foldCase
    BY <1>1, <1>4 DEF SameDevice, Key
  <1> QED
    BY <1>3, <1>4

\* Handling one more event changes nothing about those handled before.
LEMMA Advance ==
  ASSUME TypeOK, pos < Len(input), pos' = pos + 1, UNCHANGED <<foldCase, snapshot, changes>>
  PROVE  /\ pos \in Nat /\ pos + 1 \in 1..Len(input) /\ input' = input
         /\ \A k, m : About(k, m)' <=> About(k, m)
         /\ \A k, m : m # pos + 1 => (Connect(k, m)' <=> Connect(k, m))
         /\ \A k, m : m = pos + 1 =>
              (Connect(k, m)' <=> Current[1] = "connected" /\ About(k, m))
         /\ \A k : ~Connect(k, pos + 1)
  <1>1. pos \in Nat /\ pos + 1 \in 1..Len(input) /\ pos + 1 \in 1..pos' /\ pos + 1 \notin 1..pos
    BY InputType DEF TypeOK
  <1>2. input' = input /\ \A p : Key(p)' = Key(p)
    BY DEF input, Key
  <1>3. \A m : m # pos + 1 => (m \in 1..pos' <=> m \in 1..pos)
    BY <1>1
  <1>4. \A k, m : m # pos + 1 => (Connect(k, m)' <=> Connect(k, m))
    BY <1>2, <1>3 DEF Connect
  <1>5. \A k, m : About(k, m)' <=> About(k, m)
    BY <1>2 DEF About
  <1>6. \A k, m : m = pos + 1 =>
          (Connect(k, m)' <=> Current[1] = "connected" /\ About(k, m))
    BY <1>1, <1>2 DEF Connect, About, Current
  <1>7. \A k : ~Connect(k, pos + 1)
    BY <1>1 DEF Connect
  <1> QED
    BY <1>1, <1>2, <1>4, <1>5, <1>6, <1>7

\* A key that was connected keeps its first connection.
LEMMA FirstKept ==
  ASSUME TypeOK, pos < Len(input), pos' = pos + 1, UNCHANGED <<foldCase, snapshot, changes>>,
         NEW k, NEW f \in 1..pos, First(k, f)
  PROVE  \A m \in 1..(pos + 1) : First(k, m)' <=> First(k, m)
  <1>1. \A m : m # pos + 1 => (Connect(k, m)' <=> Connect(k, m))
    BY Advance
  <1>2. pos \in Nat /\ \A m \in 1..(pos + 1) : \A l \in 1..(m - 1) : l # pos + 1
    BY DEF TypeOK
  <1>3. \A m \in 1..pos : First(k, m)' <=> First(k, m)
    BY <1>1, <1>2 DEF First
  <1>4. /\ \A m : m = pos + 1 => f \in 1..(m - 1)
        /\ Connect(k, f)' /\ Connect(k, f)
    BY <1>1, <1>2 DEF First
  <1>5. \A m : m = pos + 1 => ~First(k, m)' /\ ~First(k, m)
    BY <1>4 DEF First
  <1> QED
    BY <1>2, <1>3, <1>5

\* A key the next event is not about keeps what is known of it.
LEMMA KeyKept ==
  ASSUME TypeOK, StateInv, pos < Len(input), pos' = pos + 1,
         UNCHANGED <<foldCase, snapshot, changes>>,
         NEW k \in Keys, state'[k] = state[k], ~About(k, pos + 1)
  PROVE  /\ state'[k] # None =>
              Connect(k, state[k])' /\ \A j \in (state'[k] + 1)..pos' : ~About(k, j)'
         /\ \A m \in 1..pos' : Connect(k, m)' /\ (\A j \in (m + 1)..pos' : ~About(k, j)') =>
              state'[k] = m
  <1>1. /\ pos \in Nat /\ pos + 1 \in 1..Len(input) /\ input' = input
        /\ \A m : About(k, m)' <=> About(k, m)
        /\ \A m : m # pos + 1 => (Connect(k, m)' <=> Connect(k, m))
        /\ \A m : m = pos + 1 => ~Connect(k, m)'
    BY Advance
  <1>2. ASSUME state[k] # None
        PROVE  Connect(k, state[k])' /\ \A j \in (state'[k] + 1)..pos' : ~About(k, j)'
    <2>1. state[k] \in 0..pos /\ state[k] # pos + 1
      BY <1>1 DEF TypeOK
    <2>2. Connect(k, state[k]) /\ \A j \in (state[k] + 1)..pos : ~About(k, j)
      BY <1>2 DEF StateInv
    <2>3. \A m : m = state[k] => Connect(k, m)'
      BY <1>1, <2>1, <2>2
    <2>4. \A j \in (state[k] + 1)..(pos + 1) : j \in (state[k] + 1)..pos \/ j = pos + 1
      BY <1>1, <2>1
    <2> QED
      BY <1>1, <2>2, <2>3, <2>4 DEF Connect
  <1>3. ASSUME NEW m \in 1..pos', Connect(k, m)', \A j \in (m + 1)..pos' : ~About(k, j)'
        PROVE  state'[k] = m
    <2>1. m # pos + 1 /\ m \in 1..pos
      BY <1>1, <1>3
    <2>2. \A j \in (m + 1)..pos : j \in (m + 1)..pos'
      BY <1>1
    <2> QED
      BY <1>1, <1>3, <2>1, <2>2 DEF StateInv
  <1> QED
    BY <1>2, <1>3

\* An event that connects nothing leaves the order as it is.
LEMMA OrderKept ==
  ASSUME TypeOK, OrderInv, pos < Len(input), pos' = pos + 1,
         UNCHANGED <<foldCase, snapshot, changes, order>>,
         Current[1] # "connected" \/ Current[2] = NoPath
  PROVE  OrderInv'
  <1>1. /\ pos \in Nat
        /\ \A k, m : m # pos + 1 => (Connect(k, m)' <=> Connect(k, m))
        /\ \A k, m : m = pos + 1 => ~Connect(k, m)'
    BY Advance DEF About, Current
  <1>2. \A k, m : Connect(k, m)' => m \in 1..pos /\ Connect(k, m)
    <2>1. \A k, m : Connect(k, m) => m \in 1..pos
      BY DEF Connect
    <2> QED
      BY <1>1, <2>1
  <1>3. /\ \A m \in 1..pos : m \in 1..pos' /\ m # pos + 1
        /\ \A m \in 1..pos : \A l \in 1..(m - 1) : l # pos + 1
    BY <1>1
  <1>4. \A k, m : First(k, m)' <=> First(k, m)
    <2>1. \A k, m : Connect(k, m) => m \in 1..pos
      BY DEF Connect
    <2> QED
      BY <1>1, <1>2, <1>3, <2>1 DEF First
  <1>5. \A k, m : First(k, m) => m \in 1..pos
    BY DEF First, Connect
  <1> QED
    BY <1>2, <1>3, <1>4, <1>5 DEF OrderInv

-----------------------------------------------------------------------------
(* The first loops                                                         *)

\* Before the last loop nothing has been collected.
LEMMA NothingCollected ==
  ASSUME TypeOK, ResultInv, pos < Len(input), UNCHANGED <<collected, result>>
  PROVE  ResultInv' /\ result' = <<>> /\ collected' = 0
  <1>1. result = <<>> /\ collected = 0 /\ Len(result) = 0
    BY EmptySeq DEF ResultInv
  <1> QED
    BY <1>1 DEF ResultInv

\* Appending a key that is not listed keeps the keys apart.
LEMMA AppendKey ==
  ASSUME TypeOK, NEW key \in Keys
  PROVE  /\ Len(order) \in Nat /\ DOMAIN order = 1..Len(order)
         /\ Append(order, key) \in Seq(Keys) /\ Len(Append(order, key)) = Len(order) + 1
         /\ DOMAIN Append(order, key) = 1..(Len(order) + 1)
         /\ \A i \in 1..Len(order) : Append(order, key)[i] = order[i]
         /\ Append(order, key)[Len(order) + 1] = key
  <1>1. Len(order) \in Nat /\ DOMAIN order = 1..Len(order)
    BY LenProperties DEF TypeOK
  <1>2. Append(order, key) \in Seq(Keys) /\ Len(Append(order, key)) = Len(order) + 1
    BY AppendProperties DEF TypeOK
  <1>3. DOMAIN Append(order, key) = 1..(Len(order) + 1)
    BY <1>2, LenProperties
  <1>4. \A i \in 1..Len(order) : Append(order, key)[i] = order[i]
    BY AppendProperties DEF TypeOK
  <1>5. Append(order, key)[Len(order) + 1] = key
    BY AppendProperties DEF TypeOK
  <1> QED
    BY <1>1, <1>2, <1>3, <1>4, <1>5

\* The body of put.
LEMMA PutStep == IInv /\ Put => IInv'
  <1> SUFFICES ASSUME TypeOK, StateInv, OrderInv, ResultInv, Put PROVE IInv'
    BY DEF IInv
  <1>0. PICK key : key = Key(Current[2])
    OBVIOUS
  <1>1. /\ pos < Len(input) /\ pos' = pos + 1 /\ Current[1] = "connected" /\ Current[2] # NoPath
        /\ order' = IF Listed(key) THEN order ELSE Append(order, key)
        /\ state' = [state EXCEPT ![key] = pos + 1]
        /\ UNCHANGED <<foldCase, snapshot, changes, collected, result>>
    BY <1>0 DEF Put
  <1>2. /\ pos \in Nat /\ pos + 1 \in 1..Len(input) /\ input' = input
        /\ \A k, m : About(k, m)' <=> About(k, m)
        /\ \A k, m : m # pos + 1 => (Connect(k, m)' <=> Connect(k, m))
        /\ \A k, m : m = pos + 1 => (Connect(k, m)' <=> About(k, m))
    BY <1>1, Advance
  <1>3. key \in Keys /\ \A k : About(k, pos + 1) <=> k = key
    BY <1>0, <1>1, <1>2, InputType DEF About, Current
  <1>4. ResultInv' /\ result' = <<>> /\ collected' = 0
    BY <1>1, NothingCollected
  <1>5. Listed(key) <=> \E i \in 1..Len(order) : order[i] = key
    BY <1>3, AppendKey DEF Listed
  <1>6. TypeOK'
    <2>1. state' \in [Keys -> 0..pos']
      BY <1>1, <1>2, <1>3 DEF TypeOK
    <2>2. order' \in Seq(Keys) /\ \A i, j \in DOMAIN order' : order'[i] = order'[j] => i = j
      <3>1. CASE Listed(key)
        BY <1>1, <3>1 DEF TypeOK
      <3>2. CASE ~Listed(key)
        <4>1. \A i \in 1..(Len(order) + 1) : i \in 1..Len(order) \/ i = Len(order) + 1
          BY <1>3, AppendKey
        <4> QED
          BY <1>1, <1>3, <1>5, <3>2, <4>1, AppendKey DEF TypeOK
      <3> QED
        BY <3>1, <3>2
    <2>3. collected' \in 0..Len(order') /\ pos' \in 0..Len(input')
      <3>1. Len(order') \in Nat
        BY <2>2, LenProperties
      <3> QED
        BY <1>1, <1>2, <1>4, <3>1
    <2>4. result' \in Seq(1..Len(input'))
      BY <1>4, EmptySeq
    <2> QED
      BY <1>1, <2>1, <2>2, <2>3, <2>4 DEF TypeOK
  <1>7. StateInv'
    <2>1. ASSUME NEW k \in Keys, state'[k] # None
          PROVE  Connect(k, state[k])' /\ \A j \in (state'[k] + 1)..pos' : ~About(k, j)'
      <3>1. CASE k = key
        <4>1. state'[k] = pos + 1
          BY <1>1, <1>3, <3>1 DEF TypeOK
        <4>2. \A m : m = pos + 1 => Connect(k, m)'
          BY <1>2, <1>3, <3>1
        <4> QED
          BY <1>1, <1>2, <4>1, <4>2 DEF Connect
      <3>2. CASE k # key
        BY <1>1, <1>3, <2>1, <3>2, KeyKept DEF TypeOK
      <3> QED
        BY <3>1, <3>2
    <2>2. ASSUME NEW k \in Keys, NEW m \in 1..pos', Connect(k, m)',
                 \A j \in (m + 1)..pos' : ~About(k, j)'
          PROVE  state'[k] = m
      <3>1. CASE k = key
        <4>1. m = pos + 1 \/ pos + 1 \in (m + 1)..(pos + 1)
          BY <1>1, <1>2
        <4>2. \A j : j = pos + 1 => About(k, j)'
          BY <1>2, <1>3, <3>1
        <4>3. state'[k] = pos + 1
          BY <1>1, <1>3, <3>1 DEF TypeOK
        <4> QED
          BY <1>1, <2>2, <4>1, <4>2, <4>3
      <3>2. CASE k # key
        BY <1>1, <1>3, <2>2, <3>2, KeyKept DEF TypeOK
      <3> QED
        BY <3>1, <3>2
    <2> QED
      BY <2>1, <2>2 DEF StateInv
  <1>8. OrderInv'
    <2>1. \A m \in 1..pos : m \in 1..pos' /\ m # pos + 1
      BY <1>1, <1>2
    <2>2. \A m \in 1..pos' : m \in 1..pos \/ m = pos + 1
      BY <1>1, <1>2
    <2>3. ASSUME NEW k \in Keys, NEW i \in 1..Len(order), order[i] = k
          PROVE  /\ \E m \in 1..pos : First(k, m)'
                 /\ \A m \in 1..pos' : First(k, m)' => First(k, m) /\ m \in 1..pos
      <3>1. PICK f \in 1..pos : First(k, f)
        BY <2>3 DEF OrderInv
      <3>2. \A m \in 1..(pos + 1) : First(k, m)' <=> First(k, m)
        BY <1>1, <3>1, FirstKept
      <3>3. \A m : First(k, m) => m \in 1..pos
        BY DEF First, Connect
      <3> QED
        BY <1>1, <2>1, <3>1, <3>2, <3>3
    <2>4. \A k \in Keys, m \in 1..pos' : Connect(k, m)' => \E i \in 1..Len(order') : order'[i] = k
      <3>1. \A i \in 1..Len(order) : i \in 1..Len(order') /\ order'[i] = order[i]
        BY <1>1, <1>3, AppendKey
      <3>2. \E i \in 1..Len(order') : order'[i] = key
        <4>1. CASE Listed(key)
          BY <1>1, <1>5, <4>1
        <4>2. CASE ~Listed(key)
          BY <1>1, <1>3, <4>2, AppendKey
        <4> QED
          BY <4>1, <4>2
      <3>3. ASSUME NEW k \in Keys, NEW m \in 1..pos', Connect(k, m)'
            PROVE  \E i \in 1..Len(order') : order'[i] = k
        <4>1. CASE m = pos + 1
          BY <1>2, <1>3, <3>2, <3>3, <4>1
        <4>2. CASE m # pos + 1
          <5>1. m \in 1..pos /\ Connect(k, m)
            BY <1>2, <2>2, <3>3, <4>2
          <5>2. PICK i \in 1..Len(order) : order[i] = k
            BY <5>1 DEF OrderInv
          <5> QED
            BY <3>1, <5>2
        <4> QED
          BY <4>1, <4>2
      <3> QED
        BY <3>3
    <2>5. CASE Listed(key)
      <3>1. order' = order
        BY <1>1, <2>5
      <3>2. ASSUME NEW k \in Keys, NEW l \in Keys, NEW i \in 1..Len(order),
                   NEW j \in 1..Len(order), order[i] = k, order[j] = l, i < j,
                   NEW m \in 1..pos', NEW n \in 1..pos', First(k, m)', First(l, n)'
            PROVE  m < n
        BY <2>3, <3>2 DEF OrderInv
      <3> QED
        BY <2>1, <2>3, <2>4, <3>1, <3>2 DEF OrderInv
    <2>6. CASE ~Listed(key)
      <3>1. /\ Len(order) \in Nat /\ Len(order') = Len(order) + 1
            /\ \A i \in 1..Len(order) : order'[i] = order[i]
            /\ order'[Len(order) + 1] = key
        BY <1>1, <1>3, <2>6, AppendKey
      <3>2. /\ \A i \in 1..Len(order') : i \in 1..Len(order) \/ i = Len(order) + 1
            /\ \A i, j \in 1..Len(order') : i < j => i \in 1..Len(order)
        BY <3>1
      <3>3. \A m \in 1..pos : ~Connect(key, m)
        BY <1>3, <1>5, <2>6 DEF OrderInv
      <3>4. \A m : m = pos + 1 => First(key, m)'
        <4>1. \A l \in 1..pos : ~Connect(key, l)'
          BY <1>2, <2>1, <3>3
        <4>2. \A m : m = pos + 1 => Connect(key, m)' /\ \A l \in 1..(m - 1) : l \in 1..pos
          BY <1>2, <1>3
        <4> QED
          BY <4>1, <4>2 DEF First
      <3>5. \A n \in 1..pos' : First(key, n)' => n = pos + 1
        <4>1. \A n \in 1..pos : ~Connect(key, n)'
          BY <1>2, <2>1, <3>3
        <4> QED
          BY <2>2, <4>1 DEF First
      <3>6. ASSUME NEW k \in Keys, NEW i \in 1..Len(order'), order'[i] = k
            PROVE  \E m \in 1..pos' : First(k, m)'
        <4>1. CASE i = Len(order) + 1
          <5>1. pos + 1 \in 1..pos'
            BY <1>1, <1>2
          <5> QED
            BY <3>1, <3>4, <3>6, <4>1, <5>1
        <4>2. CASE i \in 1..Len(order)
          BY <2>1, <2>3, <3>1, <3>6, <4>2
        <4> QED
          BY <3>2, <4>1, <4>2
      <3>7. ASSUME NEW k \in Keys, NEW l \in Keys, NEW i \in 1..Len(order'),
                   NEW j \in 1..Len(order'), order'[i] = k, order'[j] = l, i < j,
                   NEW m \in 1..pos', NEW n \in 1..pos', First(k, m)', First(l, n)'
            PROVE  m < n
        <4>1. i \in 1..Len(order) /\ order[i] = k
          BY <3>1, <3>2, <3>7
        <4>2. m \in 1..pos /\ First(k, m)
          BY <2>3, <3>7, <4>1
        <4>3. CASE j = Len(order) + 1
          <5>1. n = pos + 1
            BY <3>1, <3>5, <3>7, <4>3
          <5> QED
            BY <1>2, <4>2, <5>1
        <4>4. CASE j \in 1..Len(order)
          BY <2>3, <3>1, <3>7, <4>1, <4>2, <4>4 DEF OrderInv
        <4> QED
          BY <3>2, <4>3, <4>4
      <3> QED
        BY <2>4, <3>6, <3>7 DEF OrderInv
    <2> QED
      BY <2>5, <2>6
  <1> QED
    BY <1>4, <1>6, <1>7, <1>8 DEF IInv

\* A removal: the key gives up what it holds, and keeps its place.
LEMMA DeleteStep == IInv /\ Delete => IInv'
  <1> SUFFICES ASSUME TypeOK, StateInv, OrderInv, ResultInv, Delete PROVE IInv'
    BY DEF IInv
  <1>0. PICK key : key = Key(Current[2])
    OBVIOUS
  <1>1. /\ pos < Len(input) /\ pos' = pos + 1
        /\ Current[1] = "disconnected" /\ Current[2] # NoPath
        /\ state' = [state EXCEPT ![key] = None]
        /\ UNCHANGED <<foldCase, snapshot, changes, order, collected, result>>
    BY <1>0 DEF Delete
  <1>2. /\ pos \in Nat /\ pos + 1 \in 1..Len(input) /\ input' = input
        /\ \A k, m : About(k, m)' <=> About(k, m)
        /\ \A k, m : m = pos + 1 => ~Connect(k, m)'
    BY <1>1, Advance
  <1>3. key \in Keys /\ \A k : About(k, pos + 1) <=> k = key
    BY <1>0, <1>1, <1>2, InputType DEF About, Current
  <1>4. ResultInv' /\ result' = <<>> /\ collected' = 0
    BY <1>1, NothingCollected
  <1>5. TypeOK'
    <2>1. state' \in [Keys -> 0..pos']
      BY <1>1, <1>2, <1>3 DEF TypeOK, None
    <2>2. pos' \in 0..Len(input') /\ result' \in Seq(1..Len(input'))
      BY <1>1, <1>2, <1>4, EmptySeq
    <2> QED
      BY <1>1, <2>1, <2>2 DEF TypeOK
  <1>6. StateInv'
    <2>1. state'[key] = None
      BY <1>1, <1>3 DEF TypeOK
    <2>2. ASSUME NEW m \in 1..pos', Connect(key, m)'
          PROVE  \E j \in (m + 1)..pos' : About(key, j)'
      <3>1. m # pos + 1
        BY <1>2, <2>2
      <3>2. pos + 1 \in (m + 1)..pos'
        BY <1>1, <1>2, <3>1
      <3>3. \A j : j = pos + 1 => About(key, j)'
        BY <1>2, <1>3
      <3> QED
        BY <3>2, <3>3
    <2>3. ASSUME NEW k \in Keys, k # key
          PROVE  /\ state'[k] # None =>
                      /\ Connect(k, state[k])'
                      /\ \A j \in (state'[k] + 1)..pos' : ~About(k, j)'
                 /\ \A m \in 1..pos' :
                      Connect(k, m)' /\ (\A j \in (m + 1)..pos' : ~About(k, j)') => state'[k] = m
      BY <1>1, <1>3, <2>3, KeyKept DEF TypeOK
    <2> QED
      BY <2>1, <2>2, <2>3 DEF StateInv
  <1>7. OrderInv'
    BY <1>1, OrderKept
  <1> QED
    BY <1>4, <1>5, <1>6, <1>7 DEF IInv

\* An event without a path is passed over.
LEMMA SkipStep == IInv /\ Skip => IInv'
  <1> SUFFICES ASSUME TypeOK, StateInv, OrderInv, ResultInv, Skip PROVE IInv'
    BY DEF IInv
  <1>1. /\ pos < Len(input) /\ pos' = pos + 1 /\ Current[2] = NoPath
        /\ UNCHANGED <<foldCase, snapshot, changes, state, order, collected, result>>
    BY DEF Skip
  <1>2. pos \in Nat /\ pos + 1 \in 1..Len(input) /\ input' = input
    BY <1>1, Advance
  <1>3. \A k : ~About(k, pos + 1)
    BY <1>1 DEF About, Current
  <1>4. ResultInv' /\ result' = <<>> /\ collected' = 0
    BY <1>1, NothingCollected
  <1>5. TypeOK'
    <2>1. state' \in [Keys -> 0..pos']
      BY <1>1, <1>2 DEF TypeOK
    <2>2. pos' \in 0..Len(input') /\ result' \in Seq(1..Len(input'))
      BY <1>1, <1>2, <1>4, EmptySeq
    <2> QED
      BY <1>1, <2>1, <2>2 DEF TypeOK
  <1>6. StateInv'
    BY <1>1, <1>3, KeyKept DEF StateInv
  <1>7. OrderInv'
    BY <1>1, OrderKept
  <1> QED
    BY <1>4, <1>5, <1>6, <1>7 DEF IInv

-----------------------------------------------------------------------------
(* The last loop                                                           *)

\* Different keys keep different events.
LEMMA KeptApart ==
  ASSUME TypeOK, StateInv, NEW k \in Keys, NEW l \in Keys, state[k] # None, state[l] = state[k]
  PROVE  k = l
  BY DEF StateInv, Connect

\* The keys in the order are keys, and each is in one place.
LEMMA OrderType ==
  ASSUME TypeOK
  PROVE  /\ Len(order) \in Nat /\ DOMAIN order = 1..Len(order)
         /\ \A i \in 1..Len(order) : order[i] \in Keys /\ state[order[i]] \in 0..Len(input)
         /\ \A i, j \in 1..Len(order) : order[i] = order[j] => i = j
  <1>1. Len(order) \in Nat /\ DOMAIN order = 1..Len(order)
    BY LenProperties DEF TypeOK
  <1>2. \A i \in 1..Len(order) : order[i] \in Keys
    BY ElementOfSeq DEF TypeOK
  <1>3. \A k \in Keys : state[k] \in 0..Len(input)
    BY InputType DEF TypeOK
  <1> QED
    BY <1>1, <1>2, <1>3 DEF TypeOK

\* One round of the last loop.
LEMMA CollectStep == IInv /\ Collect => IInv'
  <1> SUFFICES ASSUME TypeOK, StateInv, OrderInv, ResultInv, Collect PROVE IInv'
    BY DEF IInv
  <1>0. PICK n, kept : n = collected + 1 /\ kept = state[order[n]]
    OBVIOUS
  <1>1. /\ pos = Len(input) /\ collected < Len(order) /\ collected' = n
        /\ result' = IF kept = None THEN result ELSE Append(result, kept)
        /\ UNCHANGED <<foldCase, snapshot, changes, pos, state, order>>
    BY <1>0 DEF Collect
  <1>2. /\ collected \in Nat /\ n \in 1..Len(order) /\ input' = input
        /\ \A i \in 1..n : i \in 1..collected \/ i = n
        /\ \A i \in 1..collected : i \in 1..n /\ i \in 1..Len(order) /\ i < n
    BY <1>0, <1>1, OrderType DEF TypeOK, input
  <1>3. kept \in 0..Len(input) /\ order[n] \in Keys
    BY <1>0, <1>2, OrderType
  <1>4. Len(result) \in Nat /\ DOMAIN result = 1..Len(result)
    BY LenProperties DEF TypeOK
  <1>5. kept # None =>
          /\ kept \in 1..Len(input) /\ result' \in Seq(1..Len(input))
          /\ Len(result') = Len(result) + 1
          /\ \A r \in 1..Len(result) : result'[r] = result[r]
          /\ result'[Len(result) + 1] = kept
    <2> SUFFICES ASSUME kept # None
                 PROVE  /\ kept \in 1..Len(input) /\ result' \in Seq(1..Len(input))
                        /\ Len(result') = Len(result) + 1
                        /\ \A r \in 1..Len(result) : result'[r] = result[r]
                        /\ result'[Len(result) + 1] = kept
      OBVIOUS
    <2>1. kept \in 1..Len(input)
      BY <1>3, InputType DEF None
    <2>2. result' = Append(result, kept)
      BY <1>1
    <2>3. Append(result, kept) \in Seq(1..Len(input))
      BY <2>1, AppendProperties DEF TypeOK
    <2>4. Len(Append(result, kept)) = Len(result) + 1
      BY <2>1, AppendProperties DEF TypeOK
    <2>5. \A r \in 1..Len(result) : Append(result, kept)[r] = result[r]
      BY <2>1, AppendProperties DEF TypeOK
    <2>6. Append(result, kept)[Len(result) + 1] = kept
      BY <2>1, AppendProperties DEF TypeOK
    <2> QED
      BY <2>1, <2>2, <2>3, <2>4, <2>5, <2>6
  <1>6. TypeOK'
    <2>1. result' \in Seq(1..Len(input))
      BY <1>1, <1>5 DEF TypeOK
    <2>2. collected' \in 0..Len(order')
      BY <1>1, <1>2
    <2> QED
      BY <1>1, <1>2, <2>1, <2>2 DEF TypeOK
  <1>7. StateInv' /\ OrderInv'
    <2>1. \A k, m : (Connect(k, m)' <=> Connect(k, m)) /\ (About(k, m)' <=> About(k, m))
      BY <1>1, <1>2 DEF Connect, About, Key
    <2>2. \A k, m : First(k, m)' <=> First(k, m)
      BY <2>1 DEF First
    <2>3. \A k : Connect(k, state[k])' <=> Connect(k, state[k])
      BY <1>1, <1>2 DEF Connect, Key
    <2>4. StateInv'
      BY <1>1, <2>1, <2>3 DEF StateInv
    <2>5. OrderInv'
      BY <1>1, <2>1, <2>2 DEF OrderInv
    <2> QED
      BY <2>4, <2>5
  <1>8. ResultInv'
    <2>1. /\ state' = state /\ order' = order /\ pos' = pos /\ collected' = n
          /\ ~(pos' < Len(input'))
      BY <1>1, <1>2, InputType
    <2>2. \A r \in 1..Len(result) :
            r \in 1..Len(result') /\ result'[r] = result[r] /\ r # Len(result) + 1
      BY <1>1, <1>4, <1>5
    <2>3. \A r \in 1..Len(result') : r \in 1..Len(result) \/ (kept # None /\ r = Len(result) + 1)
      BY <1>1, <1>4, <1>5
    <2>4. ASSUME NEW i \in 1..n, state[order[i]] # None
          PROVE  \E r \in 1..Len(result') : result'[r] = state[order[i]]
      <3>1. CASE i \in 1..collected
        <4>1. PICK r \in 1..Len(result) : result[r] = state[order[i]]
          BY <2>4, <3>1 DEF ResultInv
        <4> QED
          BY <2>2, <4>1
      <3>2. CASE i = n
        <4>1. kept # None /\ kept = state[order[i]]
          BY <1>0, <2>4, <3>2
        <4>2. Len(result) + 1 \in 1..Len(result')
          BY <1>4, <1>5, <4>1
        <4> QED
          BY <1>5, <4>1, <4>2
      <3> QED
        BY <1>2, <3>1, <3>2
    <2>5. ASSUME NEW r \in 1..Len(result')
          PROVE  result'[r] # None /\ \E i \in 1..n : result'[r] = state[order[i]]
      <3>1. CASE r \in 1..Len(result)
        <4>1. PICK i \in 1..collected : result[r] # None /\ result[r] = state[order[i]]
          BY <3>1 DEF ResultInv
        <4> QED
          BY <1>2, <2>2, <3>1, <4>1
      <3>2. CASE kept # None /\ r = Len(result) + 1
        <4>1. n \in 1..n
          BY <1>0, <1>2
        <4> QED
          BY <1>0, <1>5, <3>2, <4>1
      <3> QED
        BY <2>3, <3>1, <3>2
    <2>6. ASSUME NEW r \in 1..Len(result'), NEW s \in 1..Len(result'),
                 NEW i \in 1..Len(order), NEW j \in 1..Len(order),
                 r < s, state[order[i]] = result'[r], state[order[j]] = result'[s]
          PROVE  i < j
      <3>1. r \in 1..Len(result) /\ result'[r] = result[r]
        <4>1. CASE kept = None
          BY <1>1, <4>1
        <4>2. CASE kept # None
          <5>1. Len(result') = Len(result) + 1
            BY <1>5, <4>2
          <5>2. r # Len(result) + 1
            BY <1>4, <2>6, <5>1
          <5> QED
            BY <2>2, <2>3, <5>2
        <4> QED
          BY <4>1, <4>2
      <3>2. CASE s \in 1..Len(result)
        <4>1. state[order[i]] = result[r] /\ state[order[j]] = result[s]
          BY <2>2, <2>6, <3>1, <3>2
        <4> QED
          BY <2>6, <3>1, <3>2, <4>1 DEF ResultInv
      <3>3. CASE kept # None /\ s = Len(result) + 1
        <4>1. PICK h \in 1..collected : result[r] # None /\ result[r] = state[order[h]]
          BY <3>1 DEF ResultInv
        <4>2. /\ order[i] \in Keys /\ order[j] \in Keys /\ order[h] \in Keys
              /\ h \in 1..Len(order) /\ h < n
          BY <1>2, <4>1, OrderType
        <4>3. order[i] = order[h]
          BY <2>6, <3>1, <4>1, <4>2, KeptApart
        <4>4. state[order[j]] = kept
          BY <1>5, <2>6, <3>3
        <4>5. order[j] = order[n]
          BY <1>0, <1>3, <3>3, <4>2, <4>4, KeptApart
        <4>6. i = h /\ j = n
          BY <1>2, <4>2, <4>3, <4>5, OrderType
        <4> QED
          BY <4>2, <4>6
      <3> QED
        BY <2>3, <3>2, <3>3
    <2> QED
      BY <2>1, <2>4, <2>5, <2>6 DEF ResultInv
  <1> QED
    BY <1>6, <1>7, <1>8 DEF IInv

-----------------------------------------------------------------------------
(* The result                                                              *)

\* The invariant holds before the first event.
LEMMA InitInv == Init => IInv
  <1> SUFFICES ASSUME Init PROVE IInv
    OBVIOUS
  <1>1. /\ snapshot \in Seq(Connects) /\ changes \in Seq(Changes)
    <2>1. PICK m \in 0..MaxSnapshot : snapshot \in [1..m -> Connects]
      BY DEF Init, UpTo
    <2>2. PICK n \in 0..MaxChanges : changes \in [1..n -> Changes]
      BY DEF Init, UpTo
    <2>3. m \in Nat /\ n \in Nat
      BY ReconcileAssumption
    <2> QED
      BY <2>1, <2>2, <2>3
  <1>2. /\ order = <<>> /\ result = <<>> /\ <<>> \in Seq(Keys)
        /\ Len(order) = 0 /\ Len(result) = 0
        /\ <<>> \in Seq(1..Len(input)) /\ DOMAIN order = 1..0
    <2>1. order \in Seq(Keys)
      BY EmptySeq DEF Init
    <2> QED
      BY <2>1, EmptySeq, LenProperties DEF Init
  <1>3. Len(input) \in Nat
    <2>1. snapshot \in Seq(Changes)
      BY <1>1 DEF Connects, Changes
    <2>2. input \in Seq(Changes)
      BY <1>1, <2>1, ConcatProperties DEF input
    <2> QED
      BY <2>2, LenProperties
  <1>4. TypeOK
    BY <1>1, <1>2, <1>3 DEF Init, TypeOK, None
  <1>5. StateInv /\ OrderInv
    BY <1>2 DEF Init, StateInv, OrderInv
  <1>6. ResultInv
    BY <1>2 DEF Init, ResultInv
  <1> QED
    BY <1>4, <1>5, <1>6 DEF IInv

\* The invariant is inductive.
LEMMA InvStep == IInv /\ [Next]_vars => IInv'
  <1> SUFFICES ASSUME IInv, [Next]_vars PROVE IInv'
    OBVIOUS
  <1>1. CASE UNCHANGED vars
    <2>1. UNCHANGED <<foldCase, snapshot, changes, pos, state, order, collected, result, input>>
      BY <1>1 DEF vars, input
    <2> QED
      BY <2>1 DEF IInv, TypeOK, StateInv, OrderInv, ResultInv, First, Connect, About, Key
  <1> QED
    BY <1>1, PutStep, DeleteStep, SkipStep, CollectStep DEF Next

\* What the result holds is what state keeps of the keys in order.
LEMMA ResultForm ==
  ASSUME IInv, NEW r \in DOMAIN result
  PROVE  \E i \in 1..Len(order) :
           /\ r \in 1..Len(result) /\ result[r] = state[order[i]] /\ order[i] \in Keys
           /\ result[r] \in 1..pos /\ Connect(order[i], result[r])
           /\ \A j \in (result[r] + 1)..pos : ~About(order[i], j)
  <1>1. r \in 1..Len(result)
    BY LenProperties DEF IInv, TypeOK
  <1>2. PICK i \in 1..collected : result[r] # None /\ result[r] = state[order[i]]
    BY <1>1 DEF IInv, ResultInv
  <1>3. i \in 1..Len(order)
    BY OrderType DEF IInv, TypeOK
  <1>4. order[i] \in Keys
    BY <1>3, OrderType DEF IInv
  <1>5. /\ Connect(order[i], result[r])
        /\ \A j \in (result[r] + 1)..pos : ~About(order[i], j)
    BY <1>2, <1>4 DEF IInv, StateInv
  <1> QED
    BY <1>1, <1>2, <1>3, <1>4, <1>5 DEF Connect

\* A key's first connection is the first of the device of any of its connections.
LEMMA FirstConnectionForm ==
  ASSUME IInv, pos = Len(input), NEW k \in Keys, NEW m \in 1..pos, Connect(k, m),
         NEW f \in 1..pos, First(k, f)
  PROVE  First(k, FirstConnection(m)) /\ FirstConnection(m) \in 1..pos
  <1> DEFINE P(l) == /\ input[l][1] = "connected" /\ SameDevice(input[l][2], input[m][2])
                     /\ \A h \in 1..(l - 1) : input[h][1] = "connected" =>
                          ~SameDevice(input[h][2], input[m][2])
  <1>1. pos \in Nat /\ \A l \in 1..pos : input[l] \in Changes
    BY InputType, ElementOfSeq DEF IInv, TypeOK
  <1>2. \A l \in 1..pos : input[l][1] = "connected" /\ SameDevice(input[l][2], input[m][2])
                           <=> Connect(k, l)
    <2>1. /\ input[m][2] \in Paths /\ Key(input[m][2]) = k
          /\ \A l \in 1..pos : input[l][2] \in Paths \/ input[l][2] = NoPath
      BY <1>1 DEF Connect, Changes
    <2>2. ASSUME NEW l \in 1..pos, input[l][2] \in Paths
          PROVE  /\ input[l][2] # NoPath
                 /\ SameDevice(input[l][2], input[m][2]) <=> Key(input[l][2]) = k
      <3>1. foldCase \in BOOLEAN
        BY DEF IInv, TypeOK
      <3>2. SameDevice(input[l][2], input[m][2]) <=> Key(input[l][2]) = Key(input[m][2])
        BY <2>1, <2>2, <3>1, SameKey
      <3> QED
        BY <2>1, <2>2, <3>2, NotAPath
    <2>3. \A l \in 1..pos : input[l][2] = NoPath => ~SameDevice(input[l][2], input[m][2])
      BY DEF SameDevice
    <2> QED
      BY <2>1, <2>2, <2>3 DEF Connect
  <1>3. f \in 1..m
    BY <1>1 DEF First
  <1>4. \A l \in 1..m : l \in 1..pos /\ \A h \in 1..(l - 1) : h \in 1..pos
    BY <1>1
  <1>5. \A l \in 1..m : P(l) <=> First(k, l)
    BY <1>2, <1>4 DEF First
  <1>6. FirstConnection(m) = CHOOSE l \in 1..m : P(l)
    BY DEF FirstConnection
  <1> HIDE DEF P
  <1>7. FirstConnection(m) \in 1..m /\ P(FirstConnection(m))
    BY <1>3, <1>5, <1>6
  <1> QED
    BY <1>4, <1>5, <1>7

(***************************************************************************)
(* For every enumeration and every sequence of staged changes: the last    *)
(* word on a device decides, it is listed once, and in the order of first  *)
(* connections (reconcileLinuxStartupEvents, reconcileCMStartupEvents).    *)
(***************************************************************************)
THEOREM ReconcileCorrect == Spec => []ReconcilesRight
  <1>1. IInv => LastWriterWins
    <2> SUFFICES ASSUME IInv, Done PROVE LastWriterWins
      BY DEF LastWriterWins
    <2>0. /\ pos = Len(input) /\ collected = Len(order) /\ DOMAIN input = 1..pos /\ pos \in Nat
          /\ \A l \in 1..pos : input[l] \in Changes
      BY InputType, ElementOfSeq DEF Done, IInv, TypeOK
    <2>a. ASSUME NEW m \in 1..pos, NEW k \in Keys, Connect(k, m)
          PROVE  Later(m) = {} <=> \A j \in (m + 1)..pos : ~About(k, j)
      <3>1. /\ input[m][2] \in Paths /\ Key(input[m][2]) = k
            /\ \A j \in (m + 1)..pos : input[j][2] \in Paths \/ input[j][2] = NoPath
        BY <2>0, <2>a DEF Connect, Changes
      <3>2. \A j \in (m + 1)..pos : SameDevice(input[m][2], input[j][2]) <=> About(k, j)
        <4>1. ASSUME NEW j \in (m + 1)..pos, input[j][2] \in Paths
              PROVE  SameDevice(input[m][2], input[j][2]) <=> About(k, j)
          <5>1. foldCase \in BOOLEAN
            BY DEF IInv, TypeOK
          <5>2. SameDevice(input[m][2], input[j][2]) <=> Key(input[m][2]) = Key(input[j][2])
            BY <3>1, <4>1, <5>1, SameKey
          <5>3. input[j][2] # NoPath
            BY <4>1, NotAPath
          <5> QED
            BY <3>1, <5>2, <5>3 DEF About
        <4> QED
          BY <3>1, <4>1 DEF SameDevice, About
      <3> QED
        BY <2>0, <3>2 DEF Later
    <2>1. ASSUME NEW r \in DOMAIN result PROVE result[r] \in Expected
      <3>1. PICK i \in 1..Len(order) :
                 /\ order[i] \in Keys /\ result[r] \in 1..pos /\ Connect(order[i], result[r])
                 /\ \A j \in (result[r] + 1)..pos : ~About(order[i], j)
        BY ResultForm
      <3> QED
        BY <2>0, <2>a, <3>1 DEF Expected, Connect
    <2>2. ASSUME NEW m \in Expected PROVE \E r \in DOMAIN result : result[r] = m
      <3>1. /\ m \in 1..pos /\ input[m][1] = "connected" /\ input[m][2] # NoPath
            /\ Later(m) = {}
        BY <2>0 DEF Expected
      <3>2. PICK k \in Keys : Connect(k, m)
        BY <2>0, <3>1, InputType DEF Connect, IInv
      <3>3. state[k] = m /\ m # None
        BY <2>a, <3>1, <3>2 DEF IInv, StateInv, None
      <3>4. PICK i \in 1..Len(order) : order[i] = k
        BY <3>1, <3>2 DEF IInv, OrderInv
      <3>5. \E r \in 1..Len(result) : result[r] = m
        BY <2>0, <3>3, <3>4 DEF IInv, ResultInv
      <3> QED
        BY <3>5, LenProperties DEF IInv, TypeOK
    <2>3. ASSUME NEW r \in DOMAIN result, NEW s \in DOMAIN result, result[r] = result[s]
          PROVE  r = s
      <3>1. PICK i \in 1..Len(order) : r \in 1..Len(result) /\ result[r] = state[order[i]]
        BY ResultForm
      <3>2. s \in 1..Len(result)
        BY ResultForm
      <3>3. ~(r < s) /\ ~(s < r)
        <4>1. i \in Nat
          BY <3>1, OrderType DEF IInv
        <4>2. \A t, u \in 1..Len(result) :
                t < u /\ state[order[i]] = result[t] /\ state[order[i]] = result[u] => i < i
          BY DEF IInv, ResultInv
        <4> QED
          <5>1. ~(i < i)
            BY <4>1
          <5>2. state[order[i]] = result[r] /\ state[order[i]] = result[s]
            BY <2>3, <3>1
          <5> QED
            BY <3>1, <3>2, <4>2, <5>1, <5>2
      <3>4. r \in Nat /\ s \in Nat
        BY <3>1, <3>2, LenProperties DEF IInv, TypeOK
      <3> QED
        BY <3>3, <3>4
    <2> QED
      BY <2>1, <2>2, <2>3 DEF LastWriterWins
  <1>2. IInv => OrderOfFirstConnection
    <2> SUFFICES ASSUME IInv, Done, NEW r \in DOMAIN result, NEW s \in DOMAIN result, r < s
                 PROVE  FirstConnection(result[r]) < FirstConnection(result[s])
      BY DEF OrderOfFirstConnection
    <2>0. pos = Len(input)
      BY DEF Done
    <2>1. PICK i \in 1..Len(order) :
               /\ r \in 1..Len(result) /\ result[r] = state[order[i]] /\ order[i] \in Keys
               /\ result[r] \in 1..pos /\ Connect(order[i], result[r])
      BY ResultForm
    <2>2. PICK j \in 1..Len(order) :
               /\ s \in 1..Len(result) /\ result[s] = state[order[j]] /\ order[j] \in Keys
               /\ result[s] \in 1..pos /\ Connect(order[j], result[s])
      BY ResultForm
    <2>3. i < j
      BY <2>1, <2>2 DEF IInv, ResultInv
    <2>4. /\ \E f \in 1..pos : First(order[i], f)
          /\ \E f \in 1..pos : First(order[j], f)
      BY <2>1, <2>2 DEF IInv, OrderInv
    <2>5. /\ First(order[i], FirstConnection(result[r])) /\ FirstConnection(result[r]) \in 1..pos
          /\ First(order[j], FirstConnection(result[s])) /\ FirstConnection(result[s]) \in 1..pos
      BY <2>0, <2>1, <2>2, <2>4, FirstConnectionForm
    <2> QED
      BY <2>1, <2>2, <2>3, <2>5 DEF IInv, OrderInv
  <1>3. IInv => ReconcilesRight
    BY <1>1, <1>2 DEF ReconcilesRight, IInv
  <1>4. Spec => []IInv
    BY InitInv, InvStep, PTL DEF Spec
  <1> QED
    BY <1>3, <1>4, PTL

-----------------------------------------------------------------------------
(* Least numbers and sequences                                             *)

\* A set of natural numbers has a least one: what replaces induction here.
LEMMA Least ==
  ASSUME NEW T, T \subseteq Nat, T # {}
  PROVE  \E n \in T : n \in Nat /\ \A m \in T : n <= m
  <1> DEFINE R == OpToRel(<, Nat)
  <1>1. IsWellFoundedOn(R, Nat)
    BY NatLessThanWellFounded
  <1>2. \A x, y \in Nat : x < y <=> <<x, y>> \in R
    BY DEF OpToRel
  <1> HIDE DEF R
  <1>3. \E x \in T : \A y \in T : ~(<<y, x>> \in R)
    BY <1>1, WFMin, Zenon
  <1>4. PICK n \in T : \A y \in T : ~(<<y, n>> \in R)
    BY <1>3
  <1>5. \A m \in T : ~(m < n)
    BY <1>2, <1>4
  <1>6. \A m \in T : m \in Nat /\ n \in Nat
    OBVIOUS
  <1> QED
    BY <1>5, <1>6

\* A function on 1..n is a sequence of length n.
LEMMA FunctionIsSeq ==
  ASSUME NEW S, NEW n \in Nat, NEW s \in [1..n -> S]
  PROVE  s \in Seq(S) /\ Len(s) = n /\ DOMAIN s = 1..n
  <1>1. s \in Seq(S)
    OBVIOUS
  <1> QED
    BY <1>1, LenProperties

\* The first elements of a sequence.
LEMMA PrefixForm ==
  ASSUME NEW S, NEW s \in Seq(S), NEW n \in 0..Len(s)
  PROVE  /\ SubSeq(s, 1, n) \in Seq(S) /\ Len(SubSeq(s, 1, n)) = n
         /\ \A i \in 1..n : SubSeq(s, 1, n)[i] = s[i]
  <1>1. Len(s) \in Nat /\ \A i \in 1..Len(s) : s[i] \in S
    BY LenProperties, ElementOfSeq
  <1>2. n \in Nat /\ \A i \in 1..n : s[i] \in S
    BY <1>1
  <1>3. /\ SubSeq(s, 1, n) \in Seq(S)
        /\ Len(SubSeq(s, 1, n)) = IF 1 <= n THEN n - 1 + 1 ELSE 0
        /\ \A i \in 1..(n - 1 + 1) : SubSeq(s, 1, n)[i] = s[1 + i - 1]
    BY <1>2, SubSeqProperties
  <1>4. n - 1 + 1 = n /\ (~(1 <= n) => n = 0) /\ \A i \in 1..n : 1 + i - 1 = i
    BY <1>2
  <1> QED
    BY <1>3, <1>4

\* A number in front of a sequence.
LEMMA ConsForm ==
  ASSUME NEW x \in Nat, NEW s \in Seq(Nat)
  PROVE  /\ <<x>> \o s \in Seq(Nat) /\ Len(<<x>> \o s) = Len(s) + 1 /\ Len(s) \in Nat
         /\ (<<x>> \o s)[1] = x
         /\ \A i \in 2..(Len(s) + 1) : (<<x>> \o s)[i] = s[i - 1]
  <1>1. <<x>> \in Seq(Nat) /\ Len(<<x>>) = 1 /\ <<x>>[1] = x /\ Len(s) \in Nat
    BY LenProperties
  <1>2. /\ <<x>> \o s \in Seq(Nat) /\ Len(<<x>> \o s) = 1 + Len(s)
        /\ \A i \in 1..(1 + Len(s)) :
             (<<x>> \o s)[i] = IF i <= 1 THEN <<x>>[i] ELSE s[i - 1]
    BY <1>1, ConcatProperties
  <1> QED
    BY <1>1, <1>2

\* The head and the tail of a report.
LEMMA TailForm ==
  ASSUME NEW s \in Seq(Nat), s # <<>>
  PROVE  /\ Head(s) = s[1] /\ s[1] \in Nat /\ Tail(s) \in Seq(Nat)
         /\ Len(s) \in Nat \ {0} /\ Len(Tail(s)) = Len(s) - 1
         /\ \A i \in 1..(Len(s) - 1) : Tail(s)[i] = s[i + 1]
  <1>1. Len(s) \in Nat \ {0}
    BY EmptySeq
  <1>2. Head(s) = s[1] /\ s[1] \in Nat
    BY <1>1, ElementOfSeq
  <1> QED
    BY <1>1, <1>2, HeadTailProperties

\* A buffer that is filled up with zeros, or cut.
LEMMA PaddedForm ==
  ASSUME NEW s \in Seq(Nat), NEW n \in Nat
  PROVE  /\ Padded(s, n) \in Seq(Nat) /\ Len(Padded(s, n)) = n
         /\ \A i \in 1..n : Padded(s, n)[i] = IF i <= Len(s) THEN s[i] ELSE 0
  <1>1. Len(s) \in Nat /\ \A i \in 1..Len(s) : s[i] \in Nat
    BY LenProperties, ElementOfSeq
  <1>2. Padded(s, n) \in [1..n -> Nat]
    BY <1>1 DEF Padded
  <1> QED
    BY <1>2, FunctionIsSeq DEF Padded

\* copy: as long as the target, and its own bytes where the source has none.
LEMMA CopiedForm ==
  ASSUME NEW dst \in Seq(Nat), NEW src \in Seq(Nat)
  PROVE  /\ Copied(dst, src) \in Seq(Nat) /\ Len(Copied(dst, src)) = Len(dst)
         /\ \A i \in 1..Len(dst) : Copied(dst, src)[i] = IF i <= Len(src) THEN src[i] ELSE dst[i]
  <1>1. /\ Len(src) \in Nat /\ Len(dst) \in Nat /\ DOMAIN dst = 1..Len(dst)
        /\ \A i \in 1..Len(src) : src[i] \in Nat
        /\ \A i \in 1..Len(dst) : dst[i] \in Nat
    BY LenProperties, ElementOfSeq
  <1>2. Copied(dst, src) \in [1..Len(dst) -> Nat]
    BY <1>1 DEF Copied
  <1> QED
    BY <1>1, <1>2, FunctionIsSeq DEF Copied

-----------------------------------------------------------------------------
(* Zeros at the end                                                        *)

\* The zeros at the end of s begin after n.
ZerosAfter(s, n) == (\A i \in (n + 1)..Len(s) : s[i] = 0) /\ (n > 0 => s[n] # 0)

\* There is a place where they begin.
LEMMA ZerosBegin ==
  ASSUME NEW s \in Seq(Nat)
  PROVE  \E n \in 0..Len(s) : ZerosAfter(s, n)
  <1> DEFINE T == {n \in 0..Len(s) : \A i \in (n + 1)..Len(s) : s[i] = 0}
  <1>1. Len(s) \in Nat
    BY LenProperties
  <1>2. Len(s) \in T /\ T \subseteq Nat
    BY <1>1
  <1>3. PICK n \in T : \A m \in T : n <= m
    BY <1>2, Least
  <1>4. ASSUME n > 0 PROVE s[n] # 0
    <2>1. n \in 1..Len(s) /\ n - 1 \in 0..Len(s) /\ ~(n <= n - 1)
      BY <1>1, <1>4
    <2>2. n - 1 \notin T
      BY <1>3, <2>1
    <2>3. PICK i \in n..Len(s) : s[i] # 0
      BY <2>1, <2>2
    <2>4. i = n \/ i \in (n + 1)..Len(s)
      BY <1>1, <2>1
    <2> QED
      BY <2>3, <2>4
  <1> QED
    BY <1>3, <1>4 DEF ZerosAfter

\* They begin in one place.
LEMMA ZerosBeginOnce ==
  ASSUME NEW s \in Seq(Nat), NEW n \in 0..Len(s), NEW m \in 0..Len(s),
         ZerosAfter(s, n), ZerosAfter(s, m)
  PROVE  n = m
  <1>1. Len(s) \in Nat
    BY LenProperties
  <1>2. ~(n < m)
    <2> SUFFICES ASSUME n < m PROVE FALSE
      OBVIOUS
    <2>1. m \in (n + 1)..Len(s) /\ m > 0
      BY <1>1
    <2> QED
      BY <2>1 DEF ZerosAfter
  <1>3. ~(m < n)
    <2> SUFFICES ASSUME m < n PROVE FALSE
      OBVIOUS
    <2>1. n \in (m + 1)..Len(s) /\ n > 0
      BY <1>1
    <2> QED
      BY <2>1 DEF ZerosAfter
  <1> QED
    BY <1>1, <1>2, <1>3

\* Trim cuts there, and nowhere else.
LEMMA TrimForm ==
  ASSUME NEW s \in Seq(Nat), NEW n \in 0..Len(s), ZerosAfter(s, n)
  PROVE  Trim(s) = SubSeq(s, 1, n)
  <1> DEFINE c == CHOOSE k \in 0..Len(s) : ZerosAfter(s, k)
  <1>1. c \in 0..Len(s) /\ ZerosAfter(s, c)
    OBVIOUS
  <1>2. c = n
    <2> HIDE DEF c
    <2> QED
      BY <1>1, ZerosBeginOnce
  <1>3. Trim(s) = SubSeq(s, 1, c)
    BY DEF Trim, ZerosAfter
  <1> QED
    BY <1>2, <1>3

\* The number at place i, and zero behind the end.
Digit(s, i) == IF i <= Len(s) THEN s[i] ELSE 0

\* Sequences are the same without their zeros if they agree in all places.
LEMMA TrimSame ==
  ASSUME NEW s \in Seq(Nat), NEW t \in Seq(Nat), \A i \in Nat \ {0} : Digit(s, i) = Digit(t, i)
  PROVE  Trim(s) = Trim(t)
  <1>1. /\ Len(s) \in Nat /\ Len(t) \in Nat
        /\ \A i \in 1..Len(s) : s[i] \in Nat
        /\ \A i \in 1..Len(t) : t[i] \in Nat
    BY LenProperties, ElementOfSeq
  <1>2. PICK n \in 0..Len(s) : ZerosAfter(s, n)
    BY ZerosBegin
  <1>3. n \in Nat /\ n <= Len(t)
    <2>1. CASE n = 0
      BY <1>1, <2>1
    <2>2. CASE n > 0
      <3>1. n \in Nat \ {0} /\ Digit(s, n) # 0
        BY <1>1, <1>2, <2>2 DEF ZerosAfter, Digit
      <3> QED
        BY <3>1 DEF Digit
    <2> QED
      BY <1>1, <2>1, <2>2
  <1>4. \A i \in 1..n : s[i] = t[i]
    <2> SUFFICES ASSUME NEW i \in 1..n PROVE s[i] = t[i]
      OBVIOUS
    <2>1. i \in Nat \ {0} /\ i <= Len(s) /\ i <= Len(t)
      BY <1>1, <1>3
    <2> QED
      BY <2>1 DEF Digit
  <1>5. ZerosAfter(t, n)
    <2>1. ASSUME NEW i \in (n + 1)..Len(t) PROVE t[i] = 0
      <3>1. i \in Nat \ {0} /\ i <= Len(t) /\ (i <= Len(s) => i \in (n + 1)..Len(s))
        BY <1>1, <1>3
      <3>2. Digit(s, i) = 0
        BY <1>2, <3>1 DEF ZerosAfter, Digit
      <3> QED
        BY <3>1, <3>2 DEF Digit
    <2>2. ASSUME n > 0 PROVE t[n] # 0
      <3>1. n \in 1..n
        BY <1>3, <2>2
      <3> QED
        BY <1>2, <1>4, <2>2, <3>1 DEF ZerosAfter
    <2> QED
      BY <2>1, <2>2 DEF ZerosAfter
  <1>6. Trim(s) = SubSeq(s, 1, n) /\ Trim(t) = SubSeq(t, 1, n)
    BY <1>1, <1>2, <1>3, <1>5, TrimForm
  <1>7. SubSeq(s, 1, n) = SubSeq(t, 1, n)
    <2>1. /\ \A i \in 1..n : s[i] \in Nat
          /\ \A i \in 1..n : t[i] \in Nat
      BY <1>1, <1>3
    <2>2. /\ SubSeq(s, 1, n) \in Seq(Nat) /\ Len(SubSeq(s, 1, n)) = n
          /\ \A i \in 1..n : SubSeq(s, 1, n)[i] = s[i]
      BY <1>3, <2>1, SubSeqProperties
    <2>3. /\ SubSeq(t, 1, n) \in Seq(Nat) /\ Len(SubSeq(t, 1, n)) = n
          /\ \A i \in 1..n : SubSeq(t, 1, n)[i] = t[i]
      BY <1>3, <2>1, SubSeqProperties
    <2> QED
      BY <1>4, <2>2, <2>3, SeqEqual
  <1> QED
    BY <1>6, <1>7

-----------------------------------------------------------------------------
(* Loops over sequences                                                    *)

\* A sequence with an element more.
LEMMA LongerForm ==
  ASSUME NEW S, NEW s \in Seq(S), NEW x \in S
  PROVE  /\ Append(s, x) \in Seq(S) /\ Len(s) \in Nat /\ Len(Append(s, x)) = Len(s) + 1
         /\ Append(s, x)[Len(s) + 1] = x
         /\ \A i \in 1..Len(s) : Append(s, x)[i] = s[i]
  BY LenProperties, AppendProperties

\* A sequence that is not empty is its front and its last element.
LEMMA FrontAndLast ==
  ASSUME NEW S, NEW s \in Seq(S), s # <<>>
  PROVE  \E front \in Seq(S) : \E x \in S : Append(front, x) = s /\ Len(s) = Len(front) + 1
  <1>1. PICK n \in Nat : n = Len(s) /\ n # 0
    BY EmptySeq
  <1>2. n - 1 \in 0..Len(s) /\ n \in 1..Len(s) /\ n - 1 \in Nat
    BY <1>1
  <1> DEFINE front == SubSeq(s, 1, n - 1)
             x == s[n]
  <1>3. front \in Seq(S) /\ Len(front) = n - 1 /\ \A i \in 1..(n - 1) : front[i] = s[i]
    BY <1>2, PrefixForm
  <1>4. x \in S
    BY <1>2, ElementOfSeq
  <1> HIDE DEF front
  <1>5. /\ Append(front, x) \in Seq(S) /\ Len(Append(front, x)) = n
        /\ Append(front, x)[n] = x /\ \A i \in 1..(n - 1) : Append(front, x)[i] = front[i]
    <2>1. (n - 1) + 1 = n
      BY <1>1
    <2> QED
      BY <1>3, <1>4, <2>1, LongerForm
  <1>6. \A i \in 1..Len(s) : Append(front, x)[i] = s[i]
    <2>1. \A i \in 1..Len(s) : i \in 1..(n - 1) \/ i = n
      BY <1>1
    <2> QED
      BY <1>3, <1>5, <2>1
  <1>7. Append(front, x) = s
    <2>1. Len(Append(front, x)) = Len(s)
      BY <1>1, <1>5
    <2>2. \A i \in 1..Len(Append(front, x)) : Append(front, x)[i] = s[i]
      BY <1>6, <2>1
    <2> QED
      BY <1>5, <2>1, <2>2, SeqEqual
  <1> QED
    BY <1>1, <1>3, <1>4, <1>7

\* A set of sequences that holds the empty one and, with a sequence, each
\* longer by one element holds all: induction without an operator.
LEMMA AppendInduction ==
  ASSUME NEW S, NEW C \in SUBSET Seq(S), <<>> \in C,
         \A s \in C : \A x \in S : Append(s, x) \in C
  PROVE  C = Seq(S)
  <1> DEFINE T == {n \in Nat : \E s \in Seq(S) : Len(s) = n /\ s \notin C}
  <1>1. SUFFICES ASSUME T # {} PROVE FALSE
    <2>1. \A s \in Seq(S) : Len(s) \in Nat
      BY LenProperties
    <2> QED
      BY <1>1, <2>1, Zenon
  <1>2. PICK n \in T : \A m \in T : n <= m
    <2>1. T \subseteq Nat
      OBVIOUS
    <2> QED
      BY <1>1, <2>1, Least, Zenon
  <1>3. PICK s \in Seq(S) : Len(s) = n /\ s \notin C
    BY <1>2, Zenon
  <1>4. PICK front \in Seq(S), x \in S : Append(front, x) = s /\ Len(s) = Len(front) + 1
    <2>1. s # <<>>
      BY <1>3, Zenon
    <2> QED
      BY <2>1, FrontAndLast, Zenon
  <1>5. front \in C
    <2>1. \A m, k \in Nat : k = m + 1 => ~(k <= m)
      OBVIOUS
    <2>2. Len(front) \in Nat /\ Len(s) \in Nat
      BY LenProperties, Zenon
    <2> QED
      BY <1>2, <1>3, <1>4, <2>1, <2>2, Zenon
  <1> QED
    BY <1>3, <1>4, <1>5, Zenon

\* The numbers up to n: what holds for 0 and is handed on holds for all.
LEMMA CountInduction ==
  ASSUME NEW n \in Nat, NEW C, 0 \in C,
         \A i \in 1..n : i - 1 \in C => i \in C
  PROVE  \A i \in 0..n : i \in C
  <1> DEFINE T == {i \in 0..n : i \notin C}
  <1>1. SUFFICES ASSUME T # {} PROVE FALSE
    OBVIOUS
  <1>2. PICK i \in T : \A m \in T : i <= m
    <2>1. T \subseteq Nat
      OBVIOUS
    <2> QED
      BY <1>1, <2>1, Least, Zenon
  <1>3. i \in 1..n /\ i - 1 \in 0..n /\ ~(i <= i - 1)
    <2>1. i \in 0..n /\ i # 0
      BY <1>2
    <2> QED
      BY <2>1
  <1> QED
    BY <1>2, <1>3, Zenon

-----------------------------------------------------------------------------
(* Reports                                                                 *)

\* Zeros at the end of a buffer do not count.
LEMMA PaddedTrim ==
  ASSUME NEW s \in Seq(Nat), NEW n \in Nat, Len(s) <= n
  PROVE  Trim(Padded(s, n)) = Trim(s)
  <1>1. Len(s) \in Nat
    BY LenProperties
  <1>2. ASSUME NEW i \in Nat \ {0} PROVE Digit(Padded(s, n), i) = Digit(s, i)
    <2>1. i <= n => i \in 1..n
      OBVIOUS
    <2>2. i <= Len(s) => i <= n
      BY <1>1
    <2> QED
      BY <2>1, <2>2, PaddedForm DEF Digit
  <1> QED
    BY <1>2, PaddedForm, TrimSame

\* Nor do they when the first number is taken off.
LEMMA PaddedTailTrim ==
  ASSUME NEW s \in Seq(Nat), NEW n \in Nat, s # <<>>, Len(s) <= n
  PROVE  /\ Padded(s, n) # <<>> /\ Head(Padded(s, n)) = s[1]
         /\ Trim(Tail(Padded(s, n))) = Trim(Tail(s))
  <1> DEFINE b == Padded(s, n)
  <1>1. Len(s) \in Nat \ {0} /\ Len(Tail(s)) = Len(s) - 1 /\ n \in Nat \ {0}
    BY TailForm
  <1>2. b \in Seq(Nat) /\ Len(b) = n /\ \A i \in 1..n : b[i] = IF i <= Len(s) THEN s[i] ELSE 0
    BY PaddedForm
  <1> HIDE DEF b
  <1>3. b # <<>>
    BY <1>1, <1>2, EmptySeq
  <1>4. /\ Head(b) = b[1] /\ Tail(b) \in Seq(Nat) /\ Len(Tail(b)) = n - 1
        /\ \A i \in 1..(n - 1) : Tail(b)[i] = b[i + 1]
    BY <1>2, <1>3, TailForm
  <1>5. 1 \in 1..n /\ 1 <= Len(s)
    BY <1>1
  <1>6. ASSUME NEW i \in Nat \ {0} PROVE Digit(Tail(b), i) = Digit(Tail(s), i)
    <2>1. CASE i <= Len(s) - 1
      <3>1. i \in 1..(n - 1) /\ i \in 1..(Len(s) - 1) /\ i + 1 \in 1..n /\ i + 1 <= Len(s)
            /\ i <= n - 1
        BY <1>1, <2>1
      <3> QED
        BY <1>1, <1>2, <1>4, <3>1, TailForm DEF Digit
    <2>2. CASE ~(i <= Len(s) - 1)
      <3>1. i <= n - 1 => i \in 1..(n - 1) /\ i + 1 \in 1..n /\ ~(i + 1 <= Len(s))
        BY <1>1, <2>2
      <3> QED
        BY <1>1, <1>2, <1>4, <2>2, <3>1 DEF Digit
    <2> QED
      BY <2>1, <2>2
  <1>7. Trim(Tail(b)) = Trim(Tail(s))
    BY <1>4, <1>6, TailForm, TrimSame
  <1>8. Head(b) = s[1]
    BY <1>2, <1>4, <1>5
  <1> QED
    BY <1>3, <1>7, <1>8 DEF b

\* IOKit is given the message of the buffer.
LEMMA PreparedForm ==
  ASSUME NEW p \in Seq(Nat), p # <<>>
  PROVE  /\ PrepareIOHIDReport(p).id = p[1]
         /\ PrepareIOHIDReport(p).data = IF p[1] = 0 THEN Tail(p) ELSE p
         /\ PrepareIOHIDReport(p).data \in Seq(Nat)
         /\ MessageIOKit(PrepareIOHIDReport(p)) = Message(p)
  BY TailForm DEF PrepareIOHIDReport, MessageIOKit, Message

(***************************************************************************)
(* The three platforms send the same message for a report of any length,   *)
(* by Write and by SendFeatureReport (prepareOutputReport, Write).         *)
(***************************************************************************)
THEOREM OutputAgrees ==
  ASSUME NEW p \in Seq(Nat), NEW size \in Nat
  PROVE  SameOutput(p, size)
  <1> SUFFICES ASSUME Len(p) \in 1..(size + 1)
               PROVE  /\ Same(Message(p), Message(Padded(p, size + 1)))
                      /\ Same(Message(p), MessageIOKit(PrepareOutputReport(p,
                                            IF p[1] = 0 THEN size ELSE size + 1)))
                      /\ Same(Message(p), MessageIOKit(PrepareIOHIDReport(p)))
    BY DEF SameOutput, WindowsOutput, WindowsFeature
  <1>1. p # <<>> /\ Len(p) <= size + 1 /\ size + 1 \in Nat /\ Head(p) = p[1]
    <2>1. p # <<>>
      BY EmptySeq
    <2> QED
      BY <2>1, TailForm
  <1>2. Same(Message(p), Message(Padded(p, size + 1)))
    BY <1>1, PaddedTailTrim DEF Same, Message
  <1>3. Same(Message(p), MessageIOKit(PrepareIOHIDReport(p)))
    BY <1>1, PreparedForm DEF Same
  <1>4. Same(Message(p), MessageIOKit(PrepareOutputReport(p, IF p[1] = 0 THEN size ELSE size + 1)))
    <2>1. CASE p[1] = 0
      <3>1. Tail(p) \in Seq(Nat) /\ Len(Tail(p)) <= size
        BY <1>1, TailForm
      <3>2. PrepareOutputReport(p, size) = [id |-> 0, data |-> Padded(Tail(p), size)]
        BY <1>1, <2>1, PreparedForm DEF PrepareOutputReport
      <3>3. MessageIOKit(PrepareOutputReport(p, size))
              = [id |-> 0, payload |-> Padded(Tail(p), size)]
        BY <3>2 DEF MessageIOKit
      <3>4. Trim(Padded(Tail(p), size)) = Trim(Tail(p))
        BY <3>1, PaddedTrim
      <3> QED
        BY <1>1, <2>1, <3>3, <3>4 DEF Same, Message
    <2>2. CASE p[1] # 0
      <3>1. PrepareOutputReport(p, size + 1) = [id |-> p[1], data |-> Padded(p, size + 1)]
        BY <1>1, <2>2, PreparedForm DEF PrepareOutputReport
      <3>2. \A data : MessageIOKit([id |-> p[1], data |-> data])
                        = [id |-> p[1], payload |-> Tail(data)]
        BY <2>2 DEF MessageIOKit
      <3>3. Same(Message(p), MessageIOKit(PrepareOutputReport(p, size + 1)))
        <4>1. MessageIOKit(PrepareOutputReport(p, size + 1))
                = [id |-> p[1], payload |-> Tail(Padded(p, size + 1))]
          BY <3>1, <3>2
        <4>2. Trim(Tail(Padded(p, size + 1))) = Trim(Tail(p))
          BY <1>1, PaddedTailTrim
        <4> QED
          <5>1. /\ Message(p).id = p[1] /\ Message(p).payload = Tail(p)
            BY <1>1 DEF Message
          <5>2. /\ MessageIOKit(PrepareOutputReport(p, size + 1)).id = p[1]
                /\ MessageIOKit(PrepareOutputReport(p, size + 1)).payload
                     = Tail(Padded(p, size + 1))
            BY <4>1
          <5> QED
            BY <4>2, <5>1, <5>2 DEF Same
      <3> QED
        BY <2>2, <3>3
    <2> QED
      BY <2>1, <2>2
  <1> QED
    BY <1>2, <1>3, <1>4

(***************************************************************************)
(* Read returns the same bytes for a message of any length (Read).         *)
(***************************************************************************)
THEOREM InputAgrees ==
  ASSUME NEW id \in Nat, NEW payload \in Seq(Nat), NEW size \in Nat
  PROVE  SameInput([id |-> id, payload |-> payload], size)
  <1> DEFINE m == [id |-> id, payload |-> payload]
             whole == <<id>> \o payload
  <1> SUFFICES ASSUME Len(payload) <= size
               PROVE  Trim(RawInput(m)) = Trim(WindowsRead(Padded(whole, size + 1)))
    BY DEF SameInput, WindowsInput
  <1>1. /\ whole \in Seq(Nat) /\ Len(whole) = Len(payload) + 1 /\ Len(payload) \in Nat
        /\ whole[1] = id /\ \A i \in 2..(Len(payload) + 1) : whole[i] = payload[i - 1]
    BY ConsForm
  <1>2. RawInput(m) = IF id = 0 THEN payload ELSE whole
    BY DEF RawInput
  <1> HIDE DEF whole
  <1>3. whole # <<>> /\ Len(whole) <= size + 1 /\ size + 1 \in Nat /\ 1 \in 1..(size + 1)
    BY <1>1, EmptySeq
  <1>4. /\ Padded(whole, size + 1) # <<>> /\ Padded(whole, size + 1)[1] = id
        /\ Trim(Tail(Padded(whole, size + 1))) = Trim(Tail(whole))
        /\ Trim(Padded(whole, size + 1)) = Trim(whole)
    <2>1. 1 <= Len(whole)
      BY <1>1
    <2>2. Padded(whole, size + 1)[1] = whole[1]
      BY <1>1, <1>3, <2>1, PaddedForm
    <2> QED
      BY <1>1, <1>3, <2>2, PaddedTailTrim, PaddedTrim
  <1>5. Tail(whole) = payload
    <2>1. /\ Tail(whole) \in Seq(Nat) /\ Len(Tail(whole)) = Len(payload)
          /\ \A i \in 1..Len(payload) : Tail(whole)[i] = whole[i + 1]
      BY <1>1, <1>3, TailForm
    <2>2. \A i \in 1..Len(payload) : i + 1 \in 2..(Len(payload) + 1) /\ (i + 1) - 1 = i
      BY <1>1
    <2> QED
      BY <1>1, <2>1, <2>2, SeqEqual
  <1> QED
    BY <1>2, <1>4, <1>5 DEF WindowsRead

\* What the client's buffer holds when a stored feature report was copied to it.
Filled(report, stored, b) ==
  /\ b \in Seq(Nat) /\ Len(b) = Len(report)
  /\ \A i \in 1..Len(report) :
       b[i] = IF i = 1 THEN report[1]
              ELSE IF i - 1 <= Len(stored) THEN stored[i - 1] ELSE report[i]

Shorter(m, n) == IF m < n THEN m ELSE n

\* hidraw and a numbered report on macOS: the ID and what is stored, cut.
LEMMA CutAndCopied ==
  ASSUME NEW report \in Seq(Nat), NEW stored \in Seq(Nat), report # <<>>
  PROVE  LET n == Shorter(Len(stored) + 1, Len(report))
             got == SubSeq(<<report[1]>> \o stored, 1, n)
         IN Len(got) = n /\ Filled(report, stored, Copied(report, got))
  <1> DEFINE n == Shorter(Len(stored) + 1, Len(report))
             whole == <<report[1]>> \o stored
             got == SubSeq(whole, 1, n)
  <1>1. Len(report) \in Nat \ {0} /\ report[1] \in Nat /\ Len(stored) \in Nat
    BY TailForm, LenProperties
  <1>2. /\ whole \in Seq(Nat) /\ Len(whole) = Len(stored) + 1
        /\ whole[1] = report[1] /\ \A i \in 2..(Len(stored) + 1) : whole[i] = stored[i - 1]
    BY <1>1, ConsForm
  <1>3. /\ n \in Nat /\ n <= Len(report) /\ n <= Len(stored) + 1 /\ 1 <= n
        /\ \A i \in 1..Len(report) : i <= n <=> i - 1 <= Len(stored)
    BY <1>1 DEF Shorter
  <1> HIDE DEF whole, n
  <1>4. got \in Seq(Nat) /\ Len(got) = n /\ \A i \in 1..n : got[i] = whole[i]
    <2>1. n \in 0..Len(whole)
      BY <1>1, <1>2, <1>3
    <2> QED
      BY <1>2, <2>1, PrefixForm
  <1> HIDE DEF got
  <1>5. ASSUME NEW i \in 1..Len(report)
        PROVE  Copied(report, got)[i]
                 = IF i = 1 THEN report[1]
                   ELSE IF i - 1 <= Len(stored) THEN stored[i - 1] ELSE report[i]
    <2>1. Copied(report, got)[i] = IF i <= n THEN got[i] ELSE report[i]
      BY <1>4, CopiedForm
    <2>2. i <= n => i \in 1..n /\ (i = 1 \/ i \in 2..(Len(stored) + 1))
      BY <1>1, <1>3
    <2> QED
      BY <1>2, <1>3, <1>4, <2>1, <2>2
  <1> QED
    BY <1>4, <1>5, CopiedForm DEF Filled, got, whole, n

\* hidraw copies what fits.
LEMMA LinuxFeature ==
  ASSUME NEW report \in Seq(Nat), NEW stored \in Seq(Nat), report # <<>>
  PROVE  /\ LinuxGetFeature(report, stored).n = Shorter(Len(stored) + 1, Len(report))
         /\ Filled(report, stored, LinuxGetFeature(report, stored).buffer)
         /\ LinuxGetFeature(report, stored)
              = [n |-> LinuxGetFeature(report, stored).n,
                 buffer |-> LinuxGetFeature(report, stored).buffer]
  <1>1. Head(report) = report[1]
    BY TailForm
  <1>2. (IF Len(stored) < Len(report) THEN Len(stored) + 1 ELSE Len(report))
          = Shorter(Len(stored) + 1, Len(report))
    BY TailForm, LenProperties DEF Shorter
  <1> QED
    BY <1>1, <1>2, CutAndCopied DEF LinuxGetFeature

\* The Windows buffer has the length of the report, and is copied whole.
LEMMA WindowsFeatureForm ==
  ASSUME NEW report \in Seq(Nat), NEW stored \in Seq(Nat), report # <<>>
  PROVE  /\ WindowsGetFeature(report, stored, Len(stored) + 1).n
              = Shorter(Len(stored) + 1, Len(report))
         /\ Filled(report, stored, WindowsGetFeature(report, stored, Len(stored) + 1).buffer)
         /\ WindowsGetFeature(report, stored, Len(stored) + 1)
              = [n |-> WindowsGetFeature(report, stored, Len(stored) + 1).n,
                 buffer |-> WindowsGetFeature(report, stored, Len(stored) + 1).buffer]
  <1> DEFINE length == Len(stored) + 1
             whole == <<report[1]>> \o stored
             buffer == Padded(whole, length)
  <1>1. Len(report) \in Nat \ {0} /\ report[1] \in Nat /\ Head(report) = report[1]
    BY TailForm
  <1>2. /\ whole \in Seq(Nat) /\ Len(whole) = length /\ Len(stored) \in Nat /\ length \in Nat
        /\ whole[1] = report[1] /\ \A i \in 2..length : whole[i] = stored[i - 1]
    BY <1>1, ConsForm
  <1>3. WindowsGetFeature(report, stored, length)
          = [n |-> IF Len(buffer) < Len(report) THEN Len(buffer) ELSE Len(report),
             buffer |-> Copied(report, buffer)]
    BY <1>1 DEF WindowsGetFeature
  <1> HIDE DEF whole
  <1>4. buffer \in Seq(Nat) /\ Len(buffer) = length /\ \A i \in 1..length : buffer[i] = whole[i]
    <2>1. \A i \in 1..length : i <= Len(whole)
      BY <1>2
    <2> QED
      BY <1>2, <2>1, PaddedForm
  <1> HIDE DEF buffer
  <1>5. ASSUME NEW i \in 1..Len(report)
        PROVE  Copied(report, buffer)[i]
                 = IF i = 1 THEN report[1]
                   ELSE IF i - 1 <= Len(stored) THEN stored[i - 1] ELSE report[i]
    <2>1. Copied(report, buffer)[i] = IF i <= length THEN buffer[i] ELSE report[i]
      BY <1>4, CopiedForm
    <2>2. /\ i <= length => i \in 1..length /\ (i = 1 \/ i \in 2..length)
          /\ i <= length <=> i - 1 <= Len(stored)
          /\ i = 1 => i <= length
      BY <1>1, <1>2
    <2> QED
      BY <1>2, <1>4, <2>1, <2>2
  <1>6. Filled(report, stored, Copied(report, buffer))
    BY <1>4, <1>5, CopiedForm DEF Filled
  <1>7. (IF Len(buffer) < Len(report) THEN Len(buffer) ELSE Len(report))
          = Shorter(length, Len(report))
    BY <1>4 DEF Shorter
  <1> QED
    BY <1>3, <1>6, <1>7

\* macOS: a report without ID is filled from its second byte on.
LEMMA DarwinFeature ==
  ASSUME NEW report \in Seq(Nat), NEW stored \in Seq(Nat), report # <<>>
  PROVE  /\ DarwinGetFeature(report, stored).n = Shorter(Len(stored) + 1, Len(report))
         /\ Filled(report, stored, DarwinGetFeature(report, stored).buffer)
         /\ DarwinGetFeature(report, stored)
              = [n |-> DarwinGetFeature(report, stored).n,
                 buffer |-> DarwinGetFeature(report, stored).buffer]
  <1>1. /\ Len(report) \in Nat \ {0} /\ report[1] \in Nat /\ Len(stored) \in Nat
        /\ Tail(report) \in Seq(Nat) /\ Len(Tail(report)) = Len(report) - 1
        /\ \A i \in 1..(Len(report) - 1) : Tail(report)[i] = report[i + 1]
    BY TailForm, LenProperties
  <1>2. CASE report[1] # 0
    <2> DEFINE n == Shorter(Len(stored) + 1, Len(report))
               got == SubSeq(<<report[1]>> \o stored, 1, n)
    <2>1. Len(<<report[1]>> \o stored) = Len(stored) + 1
      BY <1>1, ConsForm
    <2>2. IOKitFills(report[1], report, stored) = [length |-> n, data |-> Copied(report, got)]
      BY <1>2, <2>1 DEF IOKitFills, Shorter
    <2>3. Filled(report, stored, Copied(report, got)) /\ n \in Nat
      BY <1>1, CutAndCopied DEF Shorter
    <2>4. /\ PrepareIOHIDReport(report).id = report[1]
          /\ PrepareIOHIDReport(report).data = report
      BY <1>2, PreparedForm
    <2> HIDE DEF n, got
    <2>5. DarwinGetFeature(report, stored) = [n |-> n + 0, buffer |-> Copied(report, got)]
      BY <1>2, <2>2, <2>4 DEF DarwinGetFeature
    <2> QED
      BY <2>3, <2>5 DEF n
  <1>3. CASE report[1] = 0
    <2>0. PICK tail \in Seq(Nat) : tail = Tail(report)
      BY <1>1
    <2> DEFINE n == Shorter(Len(stored), Len(report) - 1)
               got == SubSeq(stored, 1, n)
               data == Copied(tail, got)
    <2>1. IOKitFills(0, tail, stored) = [length |-> n, data |-> data]
      BY <1>1, <2>0 DEF IOKitFills, Shorter
    <2>2. /\ n \in 0..Len(stored) /\ n <= Len(report) - 1
          /\ n + 1 = Shorter(Len(stored) + 1, Len(report))
          /\ \A i \in 1..(Len(report) - 1) : i <= n <=> i <= Len(stored)
      BY <1>1 DEF Shorter
    <2>3. /\ PrepareIOHIDReport(report).id = 0
          /\ PrepareIOHIDReport(report).data = tail
      BY <1>3, <2>0, PreparedForm
    <2> HIDE DEF n
    <2>4. got \in Seq(Nat) /\ Len(got) = n /\ \A i \in 1..n : got[i] = stored[i]
      BY <2>2, PrefixForm
    <2> HIDE DEF got
    <2>5. /\ data \in Seq(Nat) /\ Len(data) = Len(report) - 1
          /\ \A i \in 1..(Len(report) - 1) :
               data[i] = IF i <= n THEN got[i] ELSE tail[i]
      <3>1. Len(tail) = Len(report) - 1
        BY <1>1, <2>0
      <3>2. /\ data \in Seq(Nat) /\ Len(data) = Len(tail)
            /\ \A i \in 1..Len(tail) : data[i] = IF i <= Len(got) THEN got[i] ELSE tail[i]
        BY <2>4, CopiedForm
      <3> QED
        BY <2>4, <3>1, <3>2
    <2> HIDE DEF data
    <2>6. DarwinGetFeature(report, stored) = [n |-> n + 1, buffer |-> <<0>> \o data]
      <3>1. IOKitFills(PrepareIOHIDReport(report).id, PrepareIOHIDReport(report).data, stored)
              = [length |-> n, data |-> data]
        BY <2>1, <2>3
      <3> DEFINE prepared == PrepareIOHIDReport(report)
                 filled == IOKitFills(prepared.id, prepared.data, stored)
      <3>2. DarwinGetFeature(report, stored)
              = [n |-> filled.length + (IF prepared.id = 0 THEN 1 ELSE 0),
                 buffer |-> IF prepared.id = 0 THEN <<0>> \o filled.data ELSE filled.data]
        BY DEF DarwinGetFeature
      <3>3. prepared.id = 0 /\ filled.length = n /\ filled.data = data
        BY <2>3, <3>1
      <3> HIDE DEF prepared, filled
      <3> QED
        BY <3>2, <3>3
    <2>7. /\ <<0>> \o data \in Seq(Nat) /\ Len(<<0>> \o data) = Len(report)
          /\ (<<0>> \o data)[1] = 0
          /\ \A i \in 2..Len(report) : (<<0>> \o data)[i] = data[i - 1]
      <3>1. (Len(report) - 1) + 1 = Len(report) /\ 0 \in Nat
        BY <1>1
      <3> QED
        BY <2>5, <3>1, ConsForm
    <2>8. ASSUME NEW i \in 2..Len(report)
          PROVE  (<<0>> \o data)[i] = IF i - 1 <= Len(stored) THEN stored[i - 1] ELSE report[i]
      <3>1. i - 1 \in 1..(Len(report) - 1) /\ (i - 1) + 1 = i
        BY <1>1
      <3>2. i - 1 <= n => i - 1 \in 1..n
        BY <2>2, <3>1
      <3> QED
        <4>1. (<<0>> \o data)[i] = data[i - 1]
          BY <2>7
        <4>2. data[i - 1] = IF i - 1 <= n THEN got[i - 1] ELSE tail[i - 1]
          BY <2>5, <3>1
        <4>3. i - 1 <= n => got[i - 1] = stored[i - 1]
          BY <2>4, <3>2
        <4>4. i - 1 <= n <=> i - 1 <= Len(stored)
          BY <2>2, <3>1
        <4>5. tail[i - 1] = report[i]
          BY <1>1, <2>0, <3>1
        <4> QED
          BY <4>1, <4>2, <4>3, <4>4, <4>5
    <2>9. Filled(report, stored, <<0>> \o data)
      <3>1. \A i \in 1..Len(report) : i = 1 \/ i \in 2..Len(report)
        BY <1>1
      <3>2. \A i \in 2..Len(report) : i # 1
        BY <1>1
      <3> QED
        BY <1>3, <2>7, <2>8, <3>1, <3>2 DEF Filled
    <2> QED
      BY <2>2, <2>6, <2>9
  <1> QED
    BY <1>2, <1>3

(***************************************************************************)
(* GetFeatureReport answers the same on the three platforms, for reports   *)
(* and buffers of any length (getIOHIDFeatureReport, GetFeatureReport).    *)
(***************************************************************************)
THEOREM FeatureAgrees ==
  ASSUME NEW report \in Seq(Nat), NEW stored \in Seq(Nat)
  PROVE  SameFeature(report, stored)
  <1> SUFFICES ASSUME report # <<>>
               PROVE  /\ DarwinGetFeature(report, stored) = LinuxGetFeature(report, stored)
                      /\ WindowsGetFeature(report, stored, Len(stored) + 1)
                           = LinuxGetFeature(report, stored)
                      /\ LinuxGetFeature(report, stored).n <= Len(report)
    BY DEF SameFeature
  <1>1. \A b, c : Filled(report, stored, b) /\ Filled(report, stored, c) => b = c
    BY SeqEqual DEF Filled
  <1>2. Shorter(Len(stored) + 1, Len(report)) <= Len(report)
    BY TailForm, LenProperties DEF Shorter
  <1>3. DarwinGetFeature(report, stored) = LinuxGetFeature(report, stored)
    <2>1. DarwinGetFeature(report, stored).buffer = LinuxGetFeature(report, stored).buffer
      BY <1>1, LinuxFeature, DarwinFeature
    <2> QED
      BY <2>1, LinuxFeature, DarwinFeature
  <1>4. WindowsGetFeature(report, stored, Len(stored) + 1) = LinuxGetFeature(report, stored)
    <2>1. WindowsGetFeature(report, stored, Len(stored) + 1).buffer
            = LinuxGetFeature(report, stored).buffer
      BY <1>1, LinuxFeature, WindowsFeatureForm
    <2> QED
      BY <2>1, LinuxFeature, WindowsFeatureForm
  <1> QED
    BY <1>2, <1>3, <1>4, LinuxFeature

\* The ioctl number holds every length below 2^14 (hidIOCGFeature).
LEMMA LengthKept ==
  ASSUME NEW length \in Nat
  PROVE  IoctlKeepsLength(length)
  BY DEF IoctlKeepsLength, IoctlSize, HidIOCFeature

-----------------------------------------------------------------------------
(* Strings of Windows                                                      *)

\* The first and the second byte of unit i are bytes 2i - 1 and 2i.
LEMMA HalvesForm ==
  ASSUME NEW n \in Nat, NEW i \in 1..n
  PROVE  /\ 2 * i - 1 \in 1..(2 * n) /\ (2 * i - 1) % 2 = 1 /\ ((2 * i - 1) + 1) \div 2 = i
         /\ 2 * i \in 1..(2 * n) /\ (2 * i) % 2 # 1 /\ (2 * i) \div 2 = i
  <1>1. (2 * i - 1) % 2 = 1
    OBVIOUS
  <1>2. (2 * i) % 2 # 1
    OBVIOUS
  <1>3. (2 * i) \div 2 = i /\ (2 * i - 1) + 1 = 2 * i
    OBVIOUS
  <1>4. 2 * i - 1 \in 1..(2 * n) /\ 2 * i \in 1..(2 * n)
    OBVIOUS
  <1> QED
    BY <1>1, <1>2, <1>3, <1>4

\* Every byte is the first or the second one of a unit.
LEMMA UnitOfByte ==
  ASSUME NEW n \in Nat, NEW i \in 1..(2 * n)
  PROVE  /\ i % 2 = 1 => (i + 1) \div 2 \in 1..n
         /\ i % 2 # 1 => i \div 2 \in 1..n
         /\ i = 2 * ((i + 1) \div 2) - 1 \/ i = 2 * ((i + 1) \div 2)
  <1>1. (i + 1) \div 2 \in 1..n
    OBVIOUS
  <1>2. i % 2 # 1 => i \div 2 \in 1..n
    OBVIOUS
  <1>3. i = 2 * ((i + 1) \div 2) - 1 \/ i = 2 * ((i + 1) \div 2)
    OBVIOUS
  <1> QED
    BY <1>1, <1>2, <1>3

\* A byte behind the first n units is one of a later unit.
LEMMA LaterUnit ==
  ASSUME NEW n \in Nat, NEW room \in Nat, NEW i \in (2 * n + 1)..(2 * (n + room))
  PROVE  \E j \in (n + 1)..(n + room) : i = 2 * j - 1 \/ i = 2 * j
  <1>1. (i + 1) \div 2 \in (n + 1)..(n + room)
    OBVIOUS
  <1>2. i = 2 * ((i + 1) \div 2) - 1 \/ i = 2 * ((i + 1) \div 2)
    OBVIOUS
  <1> QED
    BY <1>1, <1>2

\* The two bytes of a unit.
Low(unit) == unit % 256

High(unit) == unit \div 256

\* A unit is its two bytes.
LEMMA BytesOfUnit ==
  ASSUME NEW u \in Nat
  PROVE  /\ Low(u) \in Nat /\ High(u) \in Nat
         /\ Low(u) + 256 * High(u) = u
  <1>1. u % 256 \in Nat /\ u \div 256 \in Nat
    OBVIOUS
  <1>2. (u % 256) + 256 * (u \div 256) = u
    OBVIOUS
  <1> QED
    BY <1>1, <1>2 DEF Low, High

\* The high byte of a unit below 256 is zero.
LEMMA ByteIsLow ==
  ASSUME NEW u \in 0..255
  PROVE  Low(u) = u /\ High(u) = 0
  <1>1. u % 256 = u /\ u \div 256 = 0
    OBVIOUS
  <1> QED
    BY <1>1, Zenon DEF Low, High

\* The bytes of a text: two for each unit, the low one first.
LEMMA BytesForm ==
  ASSUME NEW units \in Seq(Nat), NEW n \in Nat, n = Len(units)
  PROVE  /\ Bytes(units) \in Seq(Nat) /\ Len(Bytes(units)) = 2 * n
         /\ \A i \in 1..n : /\ Bytes(units)[2 * i - 1] = Low(units[i])
                            /\ Bytes(units)[2 * i] = High(units[i])
  <1> DEFINE Byte(i) == IF i % 2 = 1 THEN Low(units[(i + 1) \div 2])
                        ELSE High(units[i \div 2])
  <1>1. \A i \in 1..n : units[i] \in Nat
    BY ElementOfSeq
  <1>2. ASSUME NEW i \in 1..(2 * n)
        PROVE  Byte(i) \in Nat
    <2>1. CASE i % 2 = 1
      <3>1. units[(i + 1) \div 2] \in Nat
        <4>1. (i + 1) \div 2 \in 1..n
          BY <2>1, UnitOfByte
        <4> QED
          BY <4>1, <1>1
      <3>2. Low(units[(i + 1) \div 2]) \in Nat
        BY <3>1, BytesOfUnit
      <3> QED
        BY <2>1, <3>2
    <2>2. CASE i % 2 # 1
      <3>1. units[i \div 2] \in Nat
        <4>1. i \div 2 \in 1..n
          BY <2>2, UnitOfByte
        <4> QED
          BY <4>1, <1>1
      <3>2. High(units[i \div 2]) \in Nat
        BY <3>1, BytesOfUnit
      <3> QED
        BY <2>2, <3>2
    <2> QED
      BY <2>1, <2>2
  <1>3. Bytes(units) = [i \in 1..(2 * n) |-> Byte(i)]
    BY Zenon DEF Bytes, Low, High
  <1>4. ASSUME NEW i \in 1..n
        PROVE  Byte(2 * i - 1) = Low(units[i]) /\ Byte(2 * i) = High(units[i])
    BY HalvesForm, Zenon
  <1> HIDE DEF Byte
  <1>5. Bytes(units) \in [1..(2 * n) -> Nat]
    BY <1>2, <1>3, Zenon
  <1>6. ASSUME NEW i \in 1..n
        PROVE  /\ Bytes(units)[2 * i - 1] = Low(units[i])
               /\ Bytes(units)[2 * i] = High(units[i])
    <2>1. 2 * i - 1 \in 1..(2 * n) /\ 2 * i \in 1..(2 * n)
      BY HalvesForm
    <2> QED
      BY <1>3, <1>4, <2>1, Zenon
  <1>7. 2 * n \in Nat
    OBVIOUS
  <1> QED
    BY <1>5, <1>6, <1>7, FunctionIsSeq, Zenon

(***************************************************************************)
(* A string of any length whose last unit has a zero high byte is decoded  *)
(* as it was, whatever room there is behind it (getDeviceInfo).            *)
(***************************************************************************)
THEOREM StringsDecoded ==
  ASSUME NEW text \in Seq(Nat), NEW room \in Nat
  PROVE  StringSurvives(text, room)
  <1> DEFINE zeros == [i \in 1..room |-> 0]
             whole == text \o zeros
             n == Len(text)
             bytes == Bytes(whole)
             cut == SubSeq(bytes, 1, 2 * n - 1)
             buffer == cut \o <<0>>
  <1> SUFFICES ASSUME text # <<>>, Last(text) \in 1..255
               PROVE  Decode(TrimRight(bytes) \o <<0>>) = text
    BY DEF StringSurvives, DecodeString
  <1>1. n \in Nat \ {0} /\ text[n] \in 1..255 /\ \A i \in 1..n : text[i] \in Nat
    BY EmptySeq, ElementOfSeq DEF Last
  <1>2. zeros \in Seq(Nat) /\ Len(zeros) = room /\ \A i \in 1..room : zeros[i] = 0
    <2>1. zeros \in [1..room -> Nat]
      OBVIOUS
    <2> QED
      BY <2>1, FunctionIsSeq
  <1> HIDE DEF zeros
  <1>3. /\ whole \in Seq(Nat) /\ Len(whole) = n + room
        /\ \A i \in 1..n : whole[i] = text[i]
        /\ \A i \in (n + 1)..(n + room) : whole[i] = 0
    <2>1. /\ whole \in Seq(Nat) /\ Len(whole) = n + room
          /\ \A i \in 1..(n + room) : whole[i] = IF i <= n THEN text[i] ELSE zeros[i - n]
      BY <1>2, ConcatProperties
    <2>2. \A i \in 1..n : i \in 1..(n + room) /\ i <= n
      BY <1>1
    <2>3. \A i \in (n + 1)..(n + room) : i \in 1..(n + room) /\ ~(i <= n) /\ i - n \in 1..room
      BY <1>1
    <2> QED
      BY <1>2, <2>1, <2>2, <2>3
  <1> HIDE DEF whole, n
  <1>0. Low(text[n]) = text[n] /\ High(text[n]) = 0 /\ Low(0) = 0 /\ High(0) = 0
    <2>1. text[n] \in 0..255 /\ 0 \in 0..255
      BY <1>1
    <2> QED
      BY <2>1, ByteIsLow
  <1>4. /\ bytes \in Seq(Nat) /\ Len(bytes) = 2 * (n + room)
        /\ \A i \in 1..(n + room) : /\ bytes[2 * i - 1] = Low(whole[i])
                                    /\ bytes[2 * i] = High(whole[i])
    <2>1. n + room \in Nat /\ n + room = Len(whole)
      BY <1>1, <1>3
    <2>2. /\ Bytes(whole) \in Seq(Nat) /\ Len(Bytes(whole)) = 2 * (n + room)
          /\ \A i \in 1..(n + room) : /\ Bytes(whole)[2 * i - 1] = Low(whole[i])
                                      /\ Bytes(whole)[2 * i] = High(whole[i])
      BY <1>3, <2>1, BytesForm, Zenon
    <2> QED
      BY <2>2
  <1> HIDE DEF bytes
  <1>5. ZerosAfter(bytes, 2 * n - 1)
    <2>1. ASSUME NEW i \in ((2 * n - 1) + 1)..Len(bytes) PROVE bytes[i] = 0
      <3>1. CASE i = 2 * n
        <4>1. n \in 1..(n + room) /\ n \in 1..n
          BY <1>1
        <4>2. bytes[i] = High(text[n])
          BY <1>3, <1>4, <3>1, <4>1
        <4>3. High(text[n]) = 0
          BY <1>0, Zenon
        <4> QED
          BY <4>2, <4>3, Zenon
      <3>2. CASE i # 2 * n
        <4>1. PICK j \in (n + 1)..(n + room) : i = 2 * j - 1 \/ i = 2 * j
          <5>1. i \in (2 * n + 1)..(2 * (n + room))
            BY <1>1, <1>4, <3>2
          <5> QED
            BY <1>1, <5>1, LaterUnit
        <4>2. j \in 1..(n + room)
          BY <1>1
        <4>3. bytes[2 * j - 1] = Low(0) /\ bytes[2 * j] = High(0)
          BY <1>3, <1>4, <4>2
        <4> QED
          BY <4>1, <4>3, <1>0, Zenon
      <3> QED
        BY <3>1, <3>2
    <2>2. bytes[2 * n - 1] # 0
      <3>1. n \in 1..(n + room) /\ n \in 1..n
        BY <1>1
      <3>2. bytes[2 * n - 1] = Low(text[n])
        BY <1>3, <1>4, <3>1
      <3>3. Low(text[n]) = text[n]
        BY <1>0, Zenon
      <3>4. \A u \in 1..255 : u # 0
        OBVIOUS
      <3>5. text[n] # 0
        BY <1>1, <3>4, Zenon
      <3> QED
        BY <3>2, <3>3, <3>5, Zenon
    <2> QED
      BY <2>1, <2>2 DEF ZerosAfter
  <1>6. 2 * n - 1 \in 0..Len(bytes) /\ 2 * n - 1 \in Nat
    BY <1>1, <1>4
  <1>7. TrimRight(bytes) = cut
    <2>1. TrimRight(bytes) = Trim(bytes)
      BY DEF TrimRight, Trim
    <2> QED
      BY <1>4, <1>5, <1>6, <2>1, TrimForm
  <1>8. /\ cut \in Seq(Nat) /\ Len(cut) = 2 * n - 1
        /\ \A i \in 1..(2 * n - 1) : cut[i] = bytes[i]
    BY <1>4, <1>6, PrefixForm
  <1> HIDE DEF cut
  <1>9. /\ buffer \in Seq(Nat) /\ Len(buffer) = 2 * n
        /\ \A i \in 1..(2 * n - 1) : buffer[i] = bytes[i]
        /\ buffer[2 * n] = 0
    <2>1. <<0>> \in Seq(Nat) /\ Len(<<0>>) = 1 /\ <<0>>[1] = 0
      OBVIOUS
    <2>2. /\ buffer \in Seq(Nat) /\ Len(buffer) = (2 * n - 1) + 1
          /\ \A i \in 1..((2 * n - 1) + 1) :
               buffer[i] = IF i <= 2 * n - 1 THEN cut[i] ELSE <<0>>[i - (2 * n - 1)]
      BY <1>8, <2>1, ConcatProperties
    <2>3. /\ (2 * n - 1) + 1 = 2 * n /\ 2 * n \in 1..(2 * n) /\ ~(2 * n <= 2 * n - 1)
          /\ 2 * n - (2 * n - 1) = 1
          /\ \A i \in 1..(2 * n - 1) : i \in 1..(2 * n) /\ i <= 2 * n - 1
      BY <1>1
    <2> QED
      BY <1>8, <2>1, <2>2, <2>3
  <1> HIDE DEF buffer
  <1>10. ASSUME NEW i \in 1..n
         PROVE  (IF 2 * i <= Len(buffer) THEN buffer[2 * i - 1] + 256 * buffer[2 * i]
                 ELSE Replacement) = text[i]
    <2>1. /\ i \in 1..(n + room) /\ 2 * i <= Len(buffer) /\ 2 * i - 1 \in 1..(2 * n - 1)
          /\ (2 * i \in 1..(2 * n - 1) \/ i = n)
      BY <1>1, <1>9
    <2>2. bytes[2 * i - 1] = Low(text[i]) /\ bytes[2 * i] = High(text[i])
      BY <1>3, <1>4, <2>1
    <2>3. buffer[2 * i - 1] = Low(text[i])
      BY <1>9, <2>1, <2>2
    <2>4. buffer[2 * i] = High(text[i])
      <3>1. CASE i = n
        <4>1. High(text[n]) = 0
          BY <1>0, Zenon
        <4> QED
          BY <1>9, <3>1, <4>1
      <3>2. CASE i # n
        BY <1>9, <2>1, <2>2, <3>2
      <3> QED
        BY <3>1, <3>2
    <2>5. text[i] \in Nat
      BY <1>1
    <2>6. Low(text[i]) + 256 * High(text[i]) = text[i]
      BY <2>5, BytesOfUnit
    <2> QED
      BY <2>1, <2>3, <2>4, <2>6
  <1>11. (Len(buffer) + 1) \div 2 = n
    BY <1>1, <1>9
  <1>12. Decode(buffer) = [i \in 1..n |-> text[i]]
    BY <1>10, <1>11 DEF Decode
  <1>13. [i \in 1..n |-> text[i]] = text
    BY LenProperties DEF n
  <1> QED
    BY <1>7, <1>12, <1>13 DEF buffer

-----------------------------------------------------------------------------
(* Kernel messages of Linux                                                *)

\* A set of positions that is not empty has a greatest one.
LEMMA GreatestPosition ==
  ASSUME NEW n \in Nat, NEW T \in SUBSET (1..n), T # {}
  PROVE  Max(T) \in T
  <1> DEFINE bounds == {m \in 0..n : \A i \in T : i <= m}
  <1>1. n \in bounds /\ bounds \subseteq Nat
    OBVIOUS
  <1>2. PICK m \in bounds : \A b \in bounds : m <= b
    BY <1>1, Least
  <1>3. m \in T
    <2>1. SUFFICES ASSUME m \notin T PROVE FALSE
      OBVIOUS
    <2>2. \A i \in T : i \in Nat /\ i >= 1 /\ i <= m - 1
      BY <1>2, <2>1
    <2>3. m - 1 \in bounds
      <3>1. m \in 0..n /\ m # 0
        <4>1. PICK i \in T : i >= 1 /\ i <= m
          BY <1>2, <2>2
        <4> QED
          BY <1>2, <4>1
      <3>2. m - 1 \in 0..n
        BY <3>1
      <3> QED
        BY <2>2, <3>2
    <2> QED
      BY <1>2, <2>3
  <1>4. \A i \in T : m >= i
    BY <1>2
  <1> HIDE DEF bounds
  <1> QED
    BY <1>3, <1>4, Zenon DEF Max

\* The key comes in the message, and with no other value.
Says(message, key, value) ==
  /\ \E i \in DOMAIN message : Len(message[i]) = 2 /\ message[i][1] = key
  /\ \A i \in DOMAIN message : Len(message[i]) = 2 /\ message[i][1] = key => message[i][2] = value

\* The key does not come in the message.
IsSilentOn(message, key) ==
  \A i \in DOMAIN message : ~(Len(message[i]) = 2 /\ message[i][1] = key)

\* The message is a header and the fields of K, in some order.
IsMessage(message, header, K) ==
  \E n \in Nat :
    /\ DOMAIN message = 1..n /\ Head(message) = header /\ message # <<>>
    /\ \A i \in 1..n : message[i] = header \/ message[i] \in K
    /\ \A f \in K : \E i \in 1..n : message[i] = f

\* A key with one value has it, wherever and however often it comes.
LEMMA FieldFound ==
  ASSUME NEW message, NEW header, NEW K, IsMessage(message, header, K),
         NEW key, NEW value, Says(message, key, value)
  PROVE  \A default : FieldOf(message, key, default) = value
  <1> DEFINE places == {i \in DOMAIN message : Len(message[i]) = 2 /\ message[i][1] = key}
  <1>0. PICK n \in Nat : DOMAIN message = 1..n
    BY Zenon DEF IsMessage
  <1>1. places # {} /\ places \in SUBSET (1..n)
    BY <1>0, Zenon DEF Says
  <1>2. Max(places) \in places
    BY <1>1, GreatestPosition, Zenon
  <1>3. message[Max(places)][2] = value
    BY <1>2, Zenon DEF Says
  <1> QED
    BY <1>1, <1>3, Zenon DEF FieldOf

\* A key that does not come has the default.
LEMMA FieldMissing ==
  ASSUME NEW message, NEW key, IsSilentOn(message, key)
  PROVE  \A default : FieldOf(message, key, default) = default
  <1> DEFINE places == {i \in DOMAIN message : Len(message[i]) = 2 /\ message[i][1] = key}
  <1>1. places = {}
    BY Zenon DEF IsSilentOn
  <1> QED
    BY <1>1, Zenon DEF FieldOf

\* A message: its header, then each field of a set, in some order.
LEMMA MessageForm ==
  ASSUME NEW header, NEW K, IsFiniteSet(K), NEW fields \in SetToSeqs(K)
  PROVE  IsMessage(<<header>> \o fields, header, K)
  <1> DEFINE c == Cardinality(K)
             message == <<header>> \o fields
             S == K \union {header}
  <1>1. c \in Nat
    BY FS_CardinalityType
  <1>2. fields \in [1..c -> K] /\ \A i, j \in 1..c : i # j => fields[i] # fields[j]
    BY DEF SetToSeqs
  <1>3. \A f \in K : \E i \in 1..c : fields[i] = f
    <2>1. fields \in Injection(1..c, K)
      BY <1>2 DEF Injection, IsInjective
    <2>2. IsFiniteSet(1..c) /\ Cardinality(1..c) = c
      BY <1>1, FS_Interval
    <2>3. fields \in Surjection(1..c, K)
      BY <2>1, <2>2, FS_Injection
    <2> QED
      BY <2>3 DEF Surjection
  <1>4. fields \in Seq(S) /\ Len(fields) = c
    <2>1. fields \in [1..c -> S]
      BY <1>2
    <2> QED
      BY <1>1, <2>1, FunctionIsSeq
  <1>5. <<header>> \in Seq(S) /\ Len(<<header>>) = 1 /\ <<header>>[1] = header
    OBVIOUS
  <1>6. /\ message \in Seq(S) /\ Len(message) = 1 + c
        /\ \A i \in 1..(1 + c) : message[i] = IF i <= 1 THEN <<header>>[i] ELSE fields[i - 1]
    BY <1>4, <1>5, ConcatProperties
  <1> HIDE DEF message, c, S
  <1>7. DOMAIN message = 1..(1 + c) /\ 1 + c \in Nat
    BY <1>1, <1>6, LenProperties
  <1>8. message[1] = header
    BY <1>1, <1>5, <1>6
  <1>9. message # <<>> /\ Head(message) = header
    <2>1. Len(message) # 0
      BY <1>1, <1>6
    <2>2. message # <<>>
      BY <2>1, EmptySeq
    <2> QED
      BY <1>6, <1>8, <2>2, HeadTailProperties
  <1>10. ASSUME NEW i \in 1..(1 + c)
         PROVE  message[i] = header \/ message[i] \in K
    <2>1. CASE i = 1
      BY <1>8, <2>1
    <2>2. CASE i # 1
      <3>1. i - 1 \in 1..c /\ ~(i <= 1)
        BY <1>1, <2>2
      <3> QED
        BY <1>2, <1>6, <3>1 DEF c
    <2> QED
      BY <2>1, <2>2
  <1>11. ASSUME NEW f \in K
         PROVE  \E i \in 1..(1 + c) : message[i] = f
    <2>1. PICK i \in 1..c : fields[i] = f
      BY <1>3 DEF c
    <2>2. i + 1 \in 1..(1 + c) /\ ~(i + 1 <= 1) /\ (i + 1) - 1 = i
      BY <1>1
    <2>3. message[i + 1] = f
      BY <1>6, <2>1, <2>2
    <2> QED
      BY <2>2, <2>3
  <1> QED
    BY <1>7, <1>9, <1>10, <1>11, Zenon DEF message, IsMessage

(***************************************************************************)
(* A kernel message about any device is understood, whatever the order of  *)
(* its fields, without ACTION or without DEVNAME (parseLinuxUevent).       *)
(***************************************************************************)
THEOREM UeventsAreUnderstood ==
  ASSUME NEW action, NEW name, NEW subsystem
  PROVE  UeventUnderstood(action, name, subsystem)
  <1> DEFINE actionF == <<"ACTION", action>>
             pathF == <<"DEVPATH", <<"devices", name>> >>
             systemF == <<"SUBSYSTEM", subsystem>>
             nameF == <<"DEVNAME", name>>
  <1> SUFFICES ASSUME NEW left \in {{}, {"ACTION"}, {"DEVNAME"}, {"ACTION", "DEVNAME"}},
                      NEW fields \in SetToSeqs({f \in KernelMessage(action, name, subsystem) :
                                                  f[1] \notin left})
               PROVE  ParseLinuxUevent(<< <<action>> >> \o fields)
                        = IF /\ subsystem = "hidraw" /\ name \in RawNames
                             /\ action \in {"add", "remove"}
                          THEN <<action, name>> ELSE NoUevent
    BY Zenon DEF UeventUnderstood
  <1> DEFINE K == {f \in KernelMessage(action, name, subsystem) : f[1] \notin left}
             message == << <<action>> >> \o fields
  <1>1. /\ actionF[1] = "ACTION" /\ actionF[2] = action /\ Len(actionF) = 2
        /\ pathF[1] = "DEVPATH" /\ pathF[2] = <<"devices", name>> /\ Len(pathF) = 2
        /\ systemF[1] = "SUBSYSTEM" /\ systemF[2] = subsystem /\ Len(systemF) = 2
        /\ nameF[1] = "DEVNAME" /\ nameF[2] = name /\ Len(nameF) = 2
    OBVIOUS
  <1>2. K \subseteq {actionF, pathF, systemF, nameF}
    BY DEF KernelMessage
  <1>3. pathF \in K /\ systemF \in K
    <2>1. "DEVPATH" \notin left /\ "SUBSYSTEM" \notin left
      OBVIOUS
    <2>2. /\ pathF \in KernelMessage(action, name, subsystem)
          /\ systemF \in KernelMessage(action, name, subsystem)
      BY DEF KernelMessage
    <2> QED
      BY <1>1, <2>1, <2>2
  <1>4. IsFiniteSet(K)
    <2>1. IsFiniteSet({actionF})
      BY FS_Singleton
    <2>2. IsFiniteSet({actionF} \union {pathF})
      BY <2>1, FS_AddElement
    <2>3. IsFiniteSet(({actionF} \union {pathF}) \union {systemF})
      BY <2>2, FS_AddElement
    <2>4. IsFiniteSet((({actionF} \union {pathF}) \union {systemF}) \union {nameF})
      BY <2>3, FS_AddElement
    <2>5. K \subseteq (({actionF} \union {pathF}) \union {systemF}) \union {nameF}
      BY <1>2, Zenon
    <2> HIDE DEF K
    <2> QED
      BY <2>4, <2>5, FS_Subset
  <1>5. IsMessage(message, <<action>>, K)
    BY <1>4, MessageForm
  <1>6. Len(<<action>>) = 1 /\ <<action>>[1] = action /\ 1 # 2
    OBVIOUS
  <1>7. actionF \notin K => \A f \in K : f[1] # "ACTION"
    BY <1>1, <1>2
  <1>8. nameF \notin K => \A f \in K : f[1] # "DEVNAME"
    BY <1>1, <1>2
  <1>9. \A f \in K : /\ f[1] = "ACTION" => f[2] = action
                     /\ f[1] = "DEVPATH" => f[2] = <<"devices", name>>
                     /\ f[1] = "SUBSYSTEM" => f[2] = subsystem
                     /\ f[1] = "DEVNAME" => f[2] = name
    BY <1>1, <1>2
  <1> HIDE DEF K, message, actionF, pathF, systemF, nameF
  <1>10. PICK n \in Nat :
           /\ DOMAIN message = 1..n /\ Head(message) = <<action>> /\ message # <<>>
           /\ \A i \in 1..n : message[i] = <<action>> \/ message[i] \in K
           /\ \A f \in K : \E i \in 1..n : message[i] = f
    BY <1>5, Zenon DEF IsMessage
  <1>11. ASSUME NEW f \in K, Len(f) = 2, NEW key, f[1] = key, NEW value,
                \A g \in K : g[1] = key => g[2] = value
         PROVE  Says(message, key, value)
    BY <1>6, <1>10, <1>11, Zenon DEF Says
  <1>12. ASSUME NEW key, \A f \in K : f[1] # key
         PROVE  IsSilentOn(message, key)
    BY <1>6, <1>10, <1>12, Zenon DEF IsSilentOn
  <1>13. FieldOf(message, "SUBSYSTEM", "none") = subsystem
    <2>1. Says(message, "SUBSYSTEM", subsystem)
      BY <1>1, <1>3, <1>9, <1>11, Zenon
    <2> QED
      BY <1>5, <2>1, FieldFound, Zenon
  <1>14. FieldOf(message, "DEVPATH", <<>>) = <<"devices", name>>
    <2>1. Says(message, "DEVPATH", <<"devices", name>>)
      BY <1>1, <1>3, <1>9, <1>11, Zenon
    <2> QED
      BY <1>5, <2>1, FieldFound, Zenon
  <1>15. FieldOf(message, "ACTION", HeaderAction(message)) = action
    <2>1. CASE actionF \in K
      <3>1. Says(message, "ACTION", action)
        BY <1>1, <1>9, <1>11, <2>1, Zenon
      <3> QED
        BY <1>5, <3>1, FieldFound, Zenon
    <2>2. CASE actionF \notin K
      <3>1. IsSilentOn(message, "ACTION")
        BY <1>7, <1>12, <2>2, Zenon
      <3>2. HeaderAction(message) = action
        BY <1>6, <1>10, Zenon DEF HeaderAction
      <3> QED
        BY <3>1, <3>2, FieldMissing, Zenon
    <2> QED
      BY <2>1, <2>2
  <1>16. DeviceOf(message) = name
    <2>1. FieldOf(message, "DEVNAME", NoName) \in {name, NoName}
      <3>1. CASE nameF \in K
        <4>1. Says(message, "DEVNAME", name)
          BY <1>1, <1>9, <1>11, <3>1, Zenon
        <4> QED
          BY <1>5, <4>1, FieldFound, Zenon
      <3>2. CASE nameF \notin K
        <4>1. IsSilentOn(message, "DEVNAME")
          BY <1>8, <1>12, <3>2, Zenon
        <4> QED
          BY <4>1, FieldMissing, Zenon
      <3> QED
        BY <3>1, <3>2
    <2>2. <<"devices", name>> # <<>> /\ Last(<<"devices", name>>) = name
      BY DEF Last
    <2> QED
      BY <1>14, <2>1, <2>2, Zenon DEF DeviceOf
  <1>17. ParseLinuxUevent(message) =
           IF /\ subsystem = "hidraw" /\ name \in RawNames /\ action \in {"add", "remove"}
           THEN <<action, name>> ELSE NoUevent
    BY <1>13, <1>15, <1>16, Zenon DEF ParseLinuxUevent, IsLinuxHIDRawName
  <1> QED
    BY <1>17 DEF message

-----------------------------------------------------------------------------
(* Identities of Linux devices                                             *)

Infos == [vendor : Nat, product : Nat]

Fills == [ok : BOOLEAN, info : Infos]

\* What a round of the loop over the lines does.
AfterLine(before, line) ==
  IF ~before.ok \/ Len(line) # 3 THEN before
  ELSE IF line[2] >= Invalid \/ line[3] >= Invalid THEN [before EXCEPT !.ok = FALSE]
  ELSE [before EXCEPT !.info = [vendor |-> line[2], product |-> line[3]]]

\* What is known after n lines and all rounds before.
IsFill(fill, lines, n) ==
  fill = [i \in 0..n |-> IF i = 0 THEN [ok |-> TRUE, info |-> NoInfo]
                         ELSE AfterLine(fill[i - 1], lines[i])]

\* The identity is the one of one of the first n lines.
WholeUpTo(info, lines, n) ==
  \/ info = NoInfo
  \/ \E j \in 1..n : /\ Len(lines[j]) = 3
                     /\ info = [vendor |-> lines[j][2], product |-> lines[j][3]]
                     /\ lines[j][2] < Invalid /\ lines[j][3] < Invalid

\* The loop comes to its end, however many lines there are.
LEMMA FillExists ==
  ASSUME NEW lines, NEW n \in Nat
  PROVE  \E fill : IsFill(fill, lines, n)
  <1> DEFINE T == {m \in Nat : ~\E fill : IsFill(fill, lines, m)}
  <1>1. SUFFICES ASSUME T # {} PROVE FALSE
    OBVIOUS
  <1>2. T \subseteq Nat
    OBVIOUS
  <1>3. PICK m \in T : \A k \in T : m <= k
    BY <1>1, <1>2, Least, Zenon
  <1>4. CASE m = 0
    <2> DEFINE fill == [i \in 0..0 |-> [ok |-> TRUE, info |-> NoInfo]]
    <2>1. \A i \in 0..0 : i = 0
      OBVIOUS
    <2>2. IsFill(fill, lines, 0)
      BY <2>1, Zenon DEF IsFill
    <2> QED
      BY <1>3, <1>4, <2>2, Zenon
  <1>5. CASE m # 0
    <2>1. m - 1 \in Nat /\ ~(m <= m - 1) /\ m \in Nat
      BY <1>2, <1>3, <1>5
    <2>2. PICK fill : IsFill(fill, lines, m - 1)
      BY <1>3, <2>1, Zenon
    <2> DEFINE Next1(i) == IF i = 0 THEN [ok |-> TRUE, info |-> NoInfo]
                           ELSE AfterLine(fill[i - 1], lines[i])
               more == [i \in 0..m |-> Next1(i)]
    <2>3. \A i \in 0..m : i - 1 \in 0..(m - 1) \/ i = 0
      BY <2>1
    <2>4. \A i \in 0..(m - 1) : fill[i] = Next1(i) /\ i \in 0..m
      <3>1. \A i \in 0..(m - 1) : i \in 0..m
        BY <2>1
      <3> QED
        BY <2>2, <3>1, Zenon DEF IsFill
    <2>5. \A i \in 0..(m - 1) : more[i] = fill[i]
      BY <2>4, Zenon
    <2>6. IsFill(more, lines, m)
      BY <2>3, <2>5, Zenon DEF IsFill
    <2> QED
      BY <1>3, <2>6, Zenon
  <1> QED
    BY <1>4, <1>5

\* A round leaves an identity of one line, or of none.
LEMMA RoundKeepsWhole ==
  ASSUME NEW lines \in Seq(Seq(Nat)), NEW i \in 1..Len(lines), NEW before \in Fills,
         WholeUpTo(before.info, lines, i - 1)
  PROVE  /\ AfterLine(before, lines[i]) \in Fills
         /\ WholeUpTo(AfterLine(before, lines[i]).info, lines, i)
  <1>1. lines[i] \in Seq(Nat) /\ i \in Nat \ {0} /\ Len(lines) \in Nat
    BY ElementOfSeq, LenProperties
  <1>2. WholeUpTo(before.info, lines, i)
    <2>1. \A j \in 1..(i - 1) : j \in 1..i
      BY <1>1
    <2> QED
      BY <2>1, Zenon DEF WholeUpTo
  <1>3. CASE ~before.ok \/ Len(lines[i]) # 3
    BY <1>2, <1>3, Zenon DEF AfterLine
  <1>4. CASE before.ok /\ Len(lines[i]) = 3
    <2>1. lines[i][2] \in Nat /\ lines[i][3] \in Nat
      BY <1>1, <1>4, ElementOfSeq
    <2>2. CASE lines[i][2] >= Invalid \/ lines[i][3] >= Invalid
      <3>1. AfterLine(before, lines[i]) = [before EXCEPT !.ok = FALSE]
        BY <1>4, <2>2, Zenon DEF AfterLine
      <3>2. /\ [before EXCEPT !.ok = FALSE] \in Fills
            /\ [before EXCEPT !.ok = FALSE].info = before.info
        BY DEF Fills
      <3> QED
        BY <1>2, <3>1, <3>2, Zenon
    <2>3. CASE ~(lines[i][2] >= Invalid \/ lines[i][3] >= Invalid)
      <3> DEFINE identity == [vendor |-> lines[i][2], product |-> lines[i][3]]
      <3>1. AfterLine(before, lines[i]) = [before EXCEPT !.info = identity]
        BY <1>4, <2>3, Zenon DEF AfterLine
      <3>2. identity \in Infos
        BY <2>1 DEF Infos
      <3>3. /\ [before EXCEPT !.info = identity] \in Fills
            /\ [before EXCEPT !.info = identity].info = identity
        BY <3>2 DEF Fills
      <3>4. lines[i][2] < Invalid /\ lines[i][3] < Invalid
        BY <2>1, <2>3, SMT DEF Invalid
      <3>5. i \in 1..i
        BY <1>1
      <3>6. WholeUpTo(identity, lines, i)
        BY <1>4, <3>4, <3>5, Zenon DEF WholeUpTo
      <3> QED
        BY <3>1, <3>3, <3>6, Zenon
    <2> QED
      BY <2>2, <2>3
  <1> QED
    BY <1>3, <1>4

(***************************************************************************)
(* A device never has the vendor of one line and the product of another,   *)
(* however many lines the uevent file has (fillDeviceInfoFromUevent).      *)
(***************************************************************************)
THEOREM IdentitiesAreWhole ==
  ASSUME NEW lines \in Seq(Seq(Nat))
  PROVE  IdentityIsWhole(lines)
  <1> DEFINE n == Len(lines)
  <1>1. n \in Nat
    BY LenProperties
  <1>2. PICK fill : IsFill(fill, lines, n) /\ FillFromUevent(lines) = fill[n]
    <2> DEFINE chosen == CHOOSE fill : IsFill(fill, lines, n)
    <2>1. IsFill(chosen, lines, n)
      BY <1>1, FillExists, Zenon
    <2>2. FillFromUevent(lines) = chosen[n]
      BY Zenon DEF FillFromUevent, IsFill, AfterLine
    <2> HIDE DEF chosen
    <2> QED
      BY <2>1, <2>2
  <1>3. \A i \in 0..n : fill[i] = IF i = 0 THEN [ok |-> TRUE, info |-> NoInfo]
                                  ELSE AfterLine(fill[i - 1], lines[i])
    BY <1>2, Zenon DEF IsFill
  <1> HIDE DEF n
  <1> DEFINE T == {i \in 0..n : ~(fill[i] \in Fills /\ WholeUpTo(fill[i].info, lines, i))}
  <1>4. T = {}
    <2>1. SUFFICES ASSUME T # {} PROVE FALSE
      OBVIOUS
    <2>2. T \subseteq Nat
      BY <1>1
    <2>3. PICK i \in T : \A k \in T : i <= k
      BY <2>1, <2>2, Least, Zenon
    <2>4. i \in 0..n /\ ~(fill[i] \in Fills /\ WholeUpTo(fill[i].info, lines, i))
      BY <2>3, Zenon
    <2>5. CASE i = 0
      <3>1. fill[i] = [ok |-> TRUE, info |-> NoInfo]
        BY <1>3, <2>4, <2>5, Zenon
      <3>2. /\ [ok |-> TRUE, info |-> NoInfo] \in Fills
            /\ [ok |-> TRUE, info |-> NoInfo].info = NoInfo
        BY DEF Fills, Infos, NoInfo
      <3> QED
        BY <2>4, <3>1, <3>2, Zenon DEF WholeUpTo
    <2>6. CASE i # 0
      <3>1. i \in 1..n /\ i - 1 \in 0..n /\ ~(i <= i - 1)
        BY <1>1, <2>4, <2>6
      <3>2. fill[i - 1] \in Fills /\ WholeUpTo(fill[i - 1].info, lines, i - 1)
        BY <2>3, <3>1, Zenon
      <3>3. fill[i] = AfterLine(fill[i - 1], lines[i])
        BY <1>3, <2>4, <2>6, Zenon
      <3>4. i \in 1..Len(lines)
        BY <3>1, Zenon DEF n
      <3> QED
        BY <2>4, <3>2, <3>3, <3>4, RoundKeepsWhole, Zenon
    <2> QED
      BY <2>5, <2>6
  <1>5. WholeUpTo(FillFromUevent(lines).info, lines, n)
    <2>1. n \in 0..n
      BY <1>1
    <2> QED
      BY <1>2, <1>4, <2>1, Zenon
  <1>6. DOMAIN lines = 1..n
    BY LenProperties DEF n
  <1> DEFINE info == FillFromUevent(lines).info
  <1>7. CASE info = NoInfo
    BY <1>7, Zenon DEF IdentityIsWhole
  <1>8. CASE info # NoInfo
    <2>1. PICK j \in 1..n : /\ Len(lines[j]) = 3
                            /\ info = [vendor |-> lines[j][2], product |-> lines[j][3]]
                            /\ lines[j][2] < Invalid /\ lines[j][3] < Invalid
      BY <1>5, <1>8, Zenon DEF WholeUpTo
    <2>2. info.vendor = lines[j][2] /\ info.product = lines[j][3]
      <3> HIDE DEF info
      <3> QED
        BY <2>1
    <2>3. info.vendor < Invalid /\ info.product < Invalid
      BY <2>1, <2>2, Zenon
    <2> QED
      BY <1>6, <2>1, <2>3, Zenon DEF IdentityIsWhole
  <1> QED
    BY <1>7, <1>8

-----------------------------------------------------------------------------
(* Selections, options and iterations                                      *)

\* f[i] holds those of the first i elements of s that are in T.
IsSelect(f, s, T) ==
  f = [i \in 0..Len(s) |->
         IF i = 0 THEN <<>>
         ELSE IF s[i] \in T THEN Append(f[i - 1], s[i]) ELSE f[i - 1]]

\* The loop comes to its end.
LEMMA SelectLoops ==
  ASSUME NEW S, NEW s \in Seq(S), NEW T
  PROVE  \E f : IsSelect(f, s, T)
  <1> DEFINE C == {t \in Seq(S) : \E f : IsSelect(f, t, T)}
  <1>1. <<>> \in C
    <2> DEFINE f == [i \in 0..0 |-> <<>>]
    <2>1. <<>> \in Seq(S) /\ Len(<<>>) = 0
      BY EmptySeq
    <2>2. \A i \in 0..0 : i = 0
      OBVIOUS
    <2>3. IsSelect(f, <<>>, T)
      BY <2>1, <2>2, Zenon DEF IsSelect
    <2> QED
      BY <2>1, <2>3, Zenon
  <1>2. ASSUME NEW t \in C, NEW x \in S
        PROVE  Append(t, x) \in C
    <2>1. PICK n \in Nat : n = Len(t)
      BY LenProperties
    <2>2. /\ Append(t, x) \in Seq(S) /\ Len(Append(t, x)) = n + 1
          /\ \A i \in 1..n : Append(t, x)[i] = t[i]
      BY <2>1, LongerForm
    <2>3. PICK f : IsSelect(f, t, T)
      BY Zenon
    <2> DEFINE Round(u, i) == IF i = 0 THEN <<>>
                              ELSE IF u[i] \in T THEN Append(f[i - 1], u[i]) ELSE f[i - 1]
               more == [i \in 0..(n + 1) |-> Round(Append(t, x), i)]
    <2>4. \A i \in 0..n : i = 0 \/ (i \in 1..n /\ i - 1 \in 0..n)
      OBVIOUS
    <2>5. \A i \in 0..n : f[i] = Round(Append(t, x), i)
      BY <2>1, <2>2, <2>3, <2>4, Zenon DEF IsSelect
    <2>6. \A i \in 0..n : more[i] = f[i]
      <3>1. \A i \in 0..n : i \in 0..(n + 1)
        OBVIOUS
      <3> QED
        BY <2>5, <3>1, Zenon
    <2>7. \A i \in 0..(n + 1) : i = 0 \/ i - 1 \in 0..n
      OBVIOUS
    <2>8. IsSelect(more, Append(t, x), T)
      BY <2>2, <2>6, <2>7, Zenon DEF IsSelect
    <2> QED
      BY <2>2, <2>8, Zenon
  <1>3. C = Seq(S)
    <2> HIDE DEF C
    <2>1. C \in SUBSET Seq(S)
      BY Zenon DEF C
    <2> QED
      BY <1>1, <1>2, <2>1, AppendInduction
  <1> QED
    BY <1>3, Zenon

\* What it computes, an element more at a time.
LEMMA SelectForm ==
  ASSUME NEW S, NEW T
  PROVE  /\ Select(<<>>, T) = <<>>
         /\ \A s \in Seq(S) : \A x \in S :
              Select(Append(s, x), T)
                = IF x \in T THEN Append(Select(s, T), x) ELSE Select(s, T)
  <1>1. \A s \in Seq(S) :
           \E f : IsSelect(f, s, T) /\ Select(s, T) = f[Len(s)]
    <2> TAKE s \in Seq(S)
    <2> DEFINE chosen == CHOOSE f : IsSelect(f, s, T)
    <2>1. IsSelect(chosen, s, T)
      BY SelectLoops, Zenon
    <2>2. Select(s, T) = chosen[Len(s)]
      BY Zenon DEF Select, IsSelect
    <2> QED
      BY <2>1, <2>2
  <1>2. Select(<<>>, T) = <<>>
    <2>1. <<>> \in Seq(S) /\ Len(<<>>) = 0 /\ 0 \in 0..0
      BY EmptySeq
    <2> QED
      BY <1>1, <2>1, Zenon DEF IsSelect
  <1>3. ASSUME NEW s \in Seq(S), NEW x \in S
        PROVE  Select(Append(s, x), T)
                 = IF x \in T THEN Append(Select(s, T), x) ELSE Select(s, T)
    <2>1. PICK n \in Nat : n = Len(s)
      BY LenProperties
    <2>2. /\ Append(s, x) \in Seq(S) /\ Len(Append(s, x)) = n + 1
          /\ Append(s, x)[n + 1] = x /\ \A i \in 1..n : Append(s, x)[i] = s[i]
      BY <2>1, LongerForm
    <2>3. PICK f : IsSelect(f, s, T) /\ Select(s, T) = f[n]
      BY <1>1, <2>1, Zenon
    <2>4. PICK g : /\ IsSelect(g, Append(s, x), T)
                   /\ Select(Append(s, x), T) = g[n + 1]
      BY <1>1, <2>2, Zenon
    <2>5. /\ 0 \in 0..n /\ 0 \in 0..(n + 1) /\ n + 1 \in 0..(n + 1) /\ n + 1 # 0
          /\ (n + 1) - 1 = n /\ n \in 0..n
          /\ \A i \in 1..n : i \in 0..n /\ i \in 0..(n + 1) /\ i # 0
      OBVIOUS
    <2>6. f[0] = <<>> /\ g[0] = <<>>
      BY <2>1, <2>2, <2>3, <2>4, <2>5, Zenon DEF IsSelect
    <2>7. \A i \in 1..n : f[i] = IF s[i] \in T THEN Append(f[i - 1], s[i]) ELSE f[i - 1]
      BY <2>1, <2>3, <2>5, Zenon DEF IsSelect
    <2>8. \A i \in 1..n : g[i] =
            IF Append(s, x)[i] \in T THEN Append(g[i - 1], Append(s, x)[i]) ELSE g[i - 1]
      BY <2>2, <2>4, <2>5, Zenon DEF IsSelect
    <2>9. g[n + 1] = IF Append(s, x)[n + 1] \in T THEN Append(g[n], Append(s, x)[n + 1]) ELSE g[n]
      BY <2>2, <2>4, <2>5, Zenon DEF IsSelect
    <2>10. ASSUME NEW i \in 1..n, f[i - 1] = g[i - 1]
          PROVE  f[i] = g[i]
      <3>1. f[i] = IF s[i] \in T THEN Append(f[i - 1], s[i]) ELSE f[i - 1]
        BY <2>7
      <3>2. g[i] = IF Append(s, x)[i] \in T THEN Append(g[i - 1], Append(s, x)[i]) ELSE g[i - 1]
        BY <2>8
      <3>3. Append(s, x)[i] = s[i]
        BY <2>2
      <3> QED
        BY <2>10, <3>1, <3>2, <3>3
    <2> DEFINE C == {i \in 0..n : f[i] = g[i]}
    <2>11. 0 \in C /\ \A i \in 1..n : i - 1 \in C => i \in C
      BY <2>5, <2>6, <2>10, Zenon
    <2>12. f[n] = g[n]
      <3>1. \A i \in 0..n : i \in C
        <4> HIDE DEF C
        <4> QED
          BY <2>11, CountInduction, Zenon
      <3> QED
        BY <2>5, <3>1, Zenon
    <2> QED
      BY <2>2, <2>3, <2>4, <2>12, <2>9, Zenon
  <1> QED
    BY <1>2, <1>3

\* f[i] holds what the first i options ask for.
IsOptions(f, s) ==
  f = [i \in 0..Len(s) |->
         IF i = 0 THEN <<>>
         ELSE IF s[i] = NilOption THEN f[i - 1] ELSE With(f[i - 1], s[i])]

\* The loop comes to its end.
LEMMA OptionLoops ==
  ASSUME NEW S, NEW s \in Seq(S)
  PROVE  \E f : IsOptions(f, s)
  <1> DEFINE C == {t \in Seq(S) : \E f : IsOptions(f, t)}
  <1>1. <<>> \in C
    <2> DEFINE f == [i \in 0..0 |-> <<>>]
    <2>1. <<>> \in Seq(S) /\ Len(<<>>) = 0
      BY EmptySeq
    <2>2. \A i \in 0..0 : i = 0
      OBVIOUS
    <2>3. IsOptions(f, <<>>)
      BY <2>1, <2>2, Zenon DEF IsOptions
    <2> QED
      BY <2>1, <2>3, Zenon
  <1>2. ASSUME NEW t \in C, NEW x \in S
        PROVE  Append(t, x) \in C
    <2>1. PICK n \in Nat : n = Len(t)
      BY LenProperties
    <2>2. /\ Append(t, x) \in Seq(S) /\ Len(Append(t, x)) = n + 1
          /\ \A i \in 1..n : Append(t, x)[i] = t[i]
      BY <2>1, LongerForm
    <2>3. PICK f : IsOptions(f, t)
      BY Zenon
    <2> DEFINE Round(u, i) == IF i = 0 THEN <<>>
                              ELSE IF u[i] = NilOption THEN f[i - 1] ELSE With(f[i - 1], u[i])
               more == [i \in 0..(n + 1) |-> Round(Append(t, x), i)]
    <2>4. \A i \in 0..n : i = 0 \/ (i \in 1..n /\ i - 1 \in 0..n)
      OBVIOUS
    <2>5. \A i \in 0..n : f[i] = Round(Append(t, x), i)
      BY <2>1, <2>2, <2>3, <2>4, Zenon DEF IsOptions
    <2>6. \A i \in 0..n : more[i] = f[i]
      <3>1. \A i \in 0..n : i \in 0..(n + 1)
        OBVIOUS
      <3> QED
        BY <2>5, <3>1, Zenon
    <2>10. \A i \in 0..(n + 1) : i = 0 \/ i - 1 \in 0..n
      OBVIOUS
    <2>11. IsOptions(more, Append(t, x))
      BY <2>2, <2>6, <2>10, Zenon DEF IsOptions
    <2> QED
      BY <2>2, <2>11, Zenon
  <1>3. C = Seq(S)
    <2> HIDE DEF C
    <2>1. C \in SUBSET Seq(S)
      BY Zenon DEF C
    <2> QED
      BY <1>1, <1>2, <2>1, AppendInduction
  <1> QED
    BY <1>3, Zenon

\* What it computes, an element more at a time.
LEMMA OptionForm ==
  ASSUME NEW S
  PROVE  /\ NewEnumerateOptions(<<>>) = <<>>
         /\ \A s \in Seq(S) : \A x \in S :
              NewEnumerateOptions(Append(s, x))
                = IF x = NilOption THEN NewEnumerateOptions(s)
                  ELSE With(NewEnumerateOptions(s), x)
  <1>1. \A s \in Seq(S) :
           \E f : IsOptions(f, s) /\ NewEnumerateOptions(s) = f[Len(s)]
    <2> TAKE s \in Seq(S)
    <2> DEFINE chosen == CHOOSE f : IsOptions(f, s)
    <2>1. IsOptions(chosen, s)
      BY OptionLoops, Zenon
    <2>2. NewEnumerateOptions(s) = chosen[Len(s)]
      BY Zenon DEF NewEnumerateOptions, IsOptions
    <2> QED
      BY <2>1, <2>2
  <1>2. NewEnumerateOptions(<<>>) = <<>>
    <2>1. <<>> \in Seq(S) /\ Len(<<>>) = 0 /\ 0 \in 0..0
      BY EmptySeq
    <2> QED
      BY <1>1, <2>1, Zenon DEF IsOptions
  <1>3. ASSUME NEW s \in Seq(S), NEW x \in S
        PROVE  NewEnumerateOptions(Append(s, x))
                 = IF x = NilOption THEN NewEnumerateOptions(s)
                  ELSE With(NewEnumerateOptions(s), x)
    <2>1. PICK n \in Nat : n = Len(s)
      BY LenProperties
    <2>2. /\ Append(s, x) \in Seq(S) /\ Len(Append(s, x)) = n + 1
          /\ Append(s, x)[n + 1] = x /\ \A i \in 1..n : Append(s, x)[i] = s[i]
      BY <2>1, LongerForm
    <2>3. PICK f : IsOptions(f, s) /\ NewEnumerateOptions(s) = f[n]
      BY <1>1, <2>1, Zenon
    <2>4. PICK g : /\ IsOptions(g, Append(s, x))
                   /\ NewEnumerateOptions(Append(s, x)) = g[n + 1]
      BY <1>1, <2>2, Zenon
    <2>5. /\ 0 \in 0..n /\ 0 \in 0..(n + 1) /\ n + 1 \in 0..(n + 1) /\ n + 1 # 0
          /\ (n + 1) - 1 = n /\ n \in 0..n
          /\ \A i \in 1..n : i \in 0..n /\ i \in 0..(n + 1) /\ i # 0
      OBVIOUS
    <2>6. f[0] = <<>> /\ g[0] = <<>>
      BY <2>1, <2>2, <2>3, <2>4, <2>5, Zenon DEF IsOptions
    <2>7. \A i \in 1..n : f[i] = IF s[i] = NilOption THEN f[i - 1] ELSE With(f[i - 1], s[i])
      BY <2>1, <2>3, <2>5, Zenon DEF IsOptions
    <2>8. \A i \in 1..n : g[i] =
            IF Append(s, x)[i] = NilOption THEN g[i - 1] ELSE With(g[i - 1], Append(s, x)[i])
      BY <2>2, <2>4, <2>5, Zenon DEF IsOptions
    <2>9. g[n + 1] = IF Append(s, x)[n + 1] = NilOption THEN g[n]
                     ELSE With(g[n], Append(s, x)[n + 1])
      BY <2>2, <2>4, <2>5, Zenon DEF IsOptions
    <2>10. ASSUME NEW i \in 1..n, f[i - 1] = g[i - 1]
          PROVE  f[i] = g[i]
      <3>1. f[i] = IF s[i] = NilOption THEN f[i - 1] ELSE With(f[i - 1], s[i])
        BY <2>7
      <3>2. g[i] = IF Append(s, x)[i] = NilOption THEN g[i - 1]
                   ELSE With(g[i - 1], Append(s, x)[i])
        BY <2>8
      <3>3. Append(s, x)[i] = s[i]
        BY <2>2
      <3> QED
        BY <2>10, <3>1, <3>2, <3>3
    <2> DEFINE C == {i \in 0..n : f[i] = g[i]}
    <2>11. 0 \in C /\ \A i \in 1..n : i - 1 \in C => i \in C
      BY <2>5, <2>6, <2>10, Zenon
    <2>12. f[n] = g[n]
      <3>1. \A i \in 0..n : i \in C
        <4> HIDE DEF C
        <4> QED
          BY <2>11, CountInduction, Zenon
      <3> QED
        BY <2>5, <3>1, Zenon
    <2> QED
      BY <2>2, <2>3, <2>4, <2>12, <2>9, Zenon
  <1> QED
    BY <1>2, <1>3

\* f[i] is the state of the iterator after i devices.
IsRounds(f, s, platform, opts, stop) ==
  f = [i \in 0..Len(s) |->
         IF i = 0 THEN Start
         ELSE Step(platform, opts, stop, f[i - 1], s[i])]

\* The loop comes to its end.
LEMMA RoundLoops ==
  ASSUME NEW S, NEW s \in Seq(S),
         NEW platform, NEW opts, NEW stop
  PROVE  \E f : IsRounds(f, s, platform, opts, stop)
  <1> DEFINE C == {t \in Seq(S) : \E f : IsRounds(f, t, platform, opts, stop)}
  <1>1. <<>> \in C
    <2> DEFINE f == [i \in 0..0 |-> Start]
    <2>1. <<>> \in Seq(S) /\ Len(<<>>) = 0
      BY EmptySeq
    <2>2. \A i \in 0..0 : i = 0
      OBVIOUS
    <2>3. IsRounds(f, <<>>, platform, opts, stop)
      BY <2>1, <2>2, Zenon DEF IsRounds
    <2> QED
      BY <2>1, <2>3, Zenon
  <1>2. ASSUME NEW t \in C, NEW x \in S
        PROVE  Append(t, x) \in C
    <2>1. PICK n \in Nat : n = Len(t)
      BY LenProperties
    <2>2. /\ Append(t, x) \in Seq(S) /\ Len(Append(t, x)) = n + 1
          /\ \A i \in 1..n : Append(t, x)[i] = t[i]
      BY <2>1, LongerForm
    <2>3. PICK f : IsRounds(f, t, platform, opts, stop)
      BY Zenon
    <2> DEFINE Round(u, i) == IF i = 0 THEN Start
                              ELSE Step(platform, opts, stop, f[i - 1], u[i])
               more == [i \in 0..(n + 1) |-> Round(Append(t, x), i)]
    <2>4. \A i \in 0..n : i = 0 \/ (i \in 1..n /\ i - 1 \in 0..n)
      OBVIOUS
    <2>5. \A i \in 0..n : f[i] = Round(Append(t, x), i)
      BY <2>1, <2>2, <2>3, <2>4, Zenon DEF IsRounds
    <2>6. \A i \in 0..n : more[i] = f[i]
      <3>1. \A i \in 0..n : i \in 0..(n + 1)
        OBVIOUS
      <3> QED
        BY <2>5, <3>1, Zenon
    <2>10. \A i \in 0..(n + 1) : i = 0 \/ i - 1 \in 0..n
      OBVIOUS
    <2>11. IsRounds(more, Append(t, x), platform, opts, stop)
      BY <2>2, <2>6, <2>10, Zenon DEF IsRounds
    <2> QED
      BY <2>2, <2>11, Zenon
  <1>3. C = Seq(S)
    <2> HIDE DEF C
    <2>1. C \in SUBSET Seq(S)
      BY Zenon DEF C
    <2> QED
      BY <1>1, <1>2, <2>1, AppendInduction
  <1> QED
    BY <1>3, Zenon

\* What it computes, an element more at a time.
LEMMA RoundForm ==
  ASSUME NEW S,
         NEW platform, NEW opts, NEW stop
  PROVE  /\ Enumerate(platform, opts, stop, <<>>) = Start
         /\ \A s \in Seq(S) : \A x \in S :
              Enumerate(platform, opts, stop, Append(s, x))
                = Step(platform, opts, stop, Enumerate(platform, opts, stop, s), x)
  <1>1. \A s \in Seq(S) :
           \E f : /\ IsRounds(f, s, platform, opts, stop)
                  /\ Enumerate(platform, opts, stop, s) = f[Len(s)]
    <2> TAKE s \in Seq(S)
    <2> DEFINE chosen == CHOOSE f : IsRounds(f, s, platform, opts, stop)
    <2>1. IsRounds(chosen, s, platform, opts, stop)
      BY RoundLoops, Zenon
    <2>2. Enumerate(platform, opts, stop, s) = chosen[Len(s)]
      BY Zenon DEF Enumerate, IsRounds
    <2> QED
      BY <2>1, <2>2
  <1>2. Enumerate(platform, opts, stop, <<>>) = Start
    <2>1. <<>> \in Seq(S) /\ Len(<<>>) = 0 /\ 0 \in 0..0
      BY EmptySeq
    <2> QED
      BY <1>1, <2>1, Zenon DEF IsRounds
  <1>3. ASSUME NEW s \in Seq(S), NEW x \in S
        PROVE  Enumerate(platform, opts, stop, Append(s, x))
                 = Step(platform, opts, stop, Enumerate(platform, opts, stop, s), x)
    <2>1. PICK n \in Nat : n = Len(s)
      BY LenProperties
    <2>2. /\ Append(s, x) \in Seq(S) /\ Len(Append(s, x)) = n + 1
          /\ Append(s, x)[n + 1] = x /\ \A i \in 1..n : Append(s, x)[i] = s[i]
      BY <2>1, LongerForm
    <2>3. PICK f : /\ IsRounds(f, s, platform, opts, stop)
                   /\ Enumerate(platform, opts, stop, s) = f[n]
      BY <1>1, <2>1, Zenon
    <2>4. PICK g : /\ IsRounds(g, Append(s, x), platform, opts, stop)
                   /\ Enumerate(platform, opts, stop, Append(s, x)) = g[n + 1]
      BY <1>1, <2>2, Zenon
    <2>5. /\ 0 \in 0..n /\ 0 \in 0..(n + 1) /\ n + 1 \in 0..(n + 1) /\ n + 1 # 0
          /\ (n + 1) - 1 = n /\ n \in 0..n
          /\ \A i \in 1..n : i \in 0..n /\ i \in 0..(n + 1) /\ i # 0
      OBVIOUS
    <2>6. f[0] = Start /\ g[0] = Start
      BY <2>1, <2>2, <2>3, <2>4, <2>5, Zenon DEF IsRounds
    <2>7. \A i \in 1..n : f[i] = Step(platform, opts, stop, f[i - 1], s[i])
      BY <2>1, <2>3, <2>5, Zenon DEF IsRounds
    <2>8. \A i \in 1..n : g[i] = Step(platform, opts, stop, g[i - 1], Append(s, x)[i])
      BY <2>2, <2>4, <2>5, Zenon DEF IsRounds
    <2>9. g[n + 1] = Step(platform, opts, stop, g[n], Append(s, x)[n + 1])
      BY <2>2, <2>4, <2>5, Zenon DEF IsRounds
    <2>10. ASSUME NEW i \in 1..n, f[i - 1] = g[i - 1]
          PROVE  f[i] = g[i]
      <3>1. f[i] = Step(platform, opts, stop, f[i - 1], s[i])
        BY <2>7
      <3>2. g[i] = Step(platform, opts, stop, g[i - 1], Append(s, x)[i])
        BY <2>8
      <3>3. Append(s, x)[i] = s[i]
        BY <2>2
      <3> QED
        BY <2>10, <3>1, <3>2, <3>3
    <2> DEFINE C == {i \in 0..n : f[i] = g[i]}
    <2>11. 0 \in C /\ \A i \in 1..n : i - 1 \in C => i \in C
      BY <2>5, <2>6, <2>10, Zenon
    <2>12. f[n] = g[n]
      <3>1. \A i \in 0..n : i \in C
        <4> HIDE DEF C
        <4> QED
          BY <2>11, CountInduction, Zenon
      <3> QED
        BY <2>5, <3>1, Zenon
    <2> QED
      BY <2>2, <2>3, <2>4, <2>12, <2>9, Zenon
  <1> QED
    BY <1>2, <1>3

-----------------------------------------------------------------------------
(* Selections                                                              *)

\* How a selection grows with what it is taken from.
SelectGrows(S, T) ==
  \A s \in Seq(S) : \A x \in S :
    Select(Append(s, x), T) = IF x \in T THEN Append(Select(s, T), x) ELSE Select(s, T)

\* A selection is no longer than what it is taken from.
LEMMA SelectBounded ==
  ASSUME NEW S, NEW s \in Seq(S), NEW T
  PROVE  Select(s, T) \in Seq(S) /\ Len(Select(s, T)) <= Len(s)
  <1> DEFINE C == {t \in Seq(S) : Select(t, T) \in Seq(S) /\ Len(Select(t, T)) <= Len(t)}
  <1>0. SelectGrows(S, T) /\ Select(<<>>, T) = <<>>
    BY SelectForm, Zenon DEF SelectGrows
  <1>1. <<>> \in C
    <2>1. <<>> \in Seq(S) /\ Len(<<>>) = 0 /\ 0 <= 0
      BY EmptySeq
    <2> QED
      BY <1>0, <2>1, Zenon
  <1>2. ASSUME NEW t \in C, NEW x \in S
        PROVE  Append(t, x) \in C
    <2>1. Append(t, x) \in Seq(S) /\ Len(t) \in Nat /\ Len(Append(t, x)) = Len(t) + 1
      BY LongerForm
    <2>2. PICK u \in Seq(S) : u = Select(t, T) /\ Len(u) <= Len(t)
      BY Zenon
    <2>3. Append(u, x) \in Seq(S) /\ Len(u) \in Nat /\ Len(Append(u, x)) = Len(u) + 1
      BY LongerForm
    <2>4. Select(Append(t, x), T) = IF x \in T THEN Append(u, x) ELSE u
      BY <1>0, <2>2, Zenon DEF SelectGrows
    <2>5. Len(u) <= Len(t) + 1 /\ Len(u) + 1 <= Len(t) + 1
      BY <2>1, <2>2, <2>3
    <2> QED
      BY <2>1, <2>2, <2>3, <2>4, <2>5, Zenon
  <1>3. C = Seq(S)
    <2> HIDE DEF C
    <2>1. C \in SUBSET Seq(S)
      BY Zenon DEF C
    <2> QED
      BY <1>1, <1>2, <2>1, AppendInduction
  <1> QED
    BY <1>3, Zenon

\* Sets that agree on the elements of a sequence select the same.
LEMMA SelectSame ==
  ASSUME NEW S, NEW s \in Seq(S), NEW T, NEW U,
         \A i \in 1..Len(s) : s[i] \in T <=> s[i] \in U
  PROVE  Select(s, T) = Select(s, U)
  <1> DEFINE Agree(t) == \A i \in 1..Len(t) : t[i] \in T <=> t[i] \in U
             C == {t \in Seq(S) : Agree(t) => Select(t, T) = Select(t, U)}
  <1>0. SelectGrows(S, T) /\ Select(<<>>, T) = <<>> /\ SelectGrows(S, U) /\ Select(<<>>, U) = <<>>
    BY SelectForm, Zenon DEF SelectGrows
  <1>1. <<>> \in C
    <2>1. <<>> \in Seq(S)
      BY EmptySeq
    <2> QED
      BY <1>0, <2>1, Zenon
  <1>2. ASSUME NEW t \in C, NEW x \in S
        PROVE  Append(t, x) \in C
    <2>1. PICK n \in Nat : n = Len(t)
      BY LenProperties
    <2>2. /\ Append(t, x) \in Seq(S) /\ Len(Append(t, x)) = n + 1
          /\ Append(t, x)[n + 1] = x /\ \A i \in 1..n : Append(t, x)[i] = t[i]
      BY <2>1, LongerForm
    <2>3. n + 1 \in 1..(n + 1) /\ \A i \in 1..n : i \in 1..(n + 1)
      OBVIOUS
    <2>4. Agree(Append(t, x)) => Agree(t) /\ (x \in T <=> x \in U)
      BY <2>1, <2>2, <2>3, Zenon
    <2>5. Agree(Append(t, x)) => Select(t, T) = Select(t, U)
      BY <2>4, Zenon
    <2>6. /\ Select(Append(t, x), T) = IF x \in T THEN Append(Select(t, T), x) ELSE Select(t, T)
          /\ Select(Append(t, x), U) = IF x \in U THEN Append(Select(t, U), x) ELSE Select(t, U)
      BY <1>0, Zenon DEF SelectGrows
    <2>7. Agree(Append(t, x)) => Select(Append(t, x), T) = Select(Append(t, x), U)
      BY <2>4, <2>5, <2>6
    <2> QED
      BY <2>2, <2>7, Zenon
  <1>3. C = Seq(S)
    <2> HIDE DEF C
    <2>1. C \in SUBSET Seq(S)
      BY Zenon DEF C
    <2> QED
      BY <1>1, <1>2, <2>1, AppendInduction
  <1> QED
    BY <1>3, Zenon

\* Selecting first from a larger set changes nothing.
LEMMA SelectTwice ==
  ASSUME NEW S, NEW s \in Seq(S), NEW T, NEW U,
         \A i \in 1..Len(s) : s[i] \in T => s[i] \in U
  PROVE  Select(Select(s, U), T) = Select(s, T)
  <1> DEFINE Holds(t) == \A i \in 1..Len(t) : t[i] \in T => t[i] \in U
             C == {t \in Seq(S) : Holds(t) => Select(Select(t, U), T) = Select(t, T)}
  <1>0. SelectGrows(S, T) /\ Select(<<>>, T) = <<>> /\ SelectGrows(S, U) /\ Select(<<>>, U) = <<>>
    BY SelectForm, Zenon DEF SelectGrows
  <1>1. <<>> \in C
    <2>1. <<>> \in Seq(S)
      BY EmptySeq
    <2> QED
      BY <1>0, <2>1, Zenon
  <1>2. ASSUME NEW t \in C, NEW x \in S
        PROVE  Append(t, x) \in C
    <2>1. PICK n \in Nat : n = Len(t)
      BY LenProperties
    <2>2. /\ Append(t, x) \in Seq(S) /\ Len(Append(t, x)) = n + 1
          /\ Append(t, x)[n + 1] = x /\ \A i \in 1..n : Append(t, x)[i] = t[i]
      BY <2>1, LongerForm
    <2>3. n + 1 \in 1..(n + 1) /\ \A i \in 1..n : i \in 1..(n + 1)
      OBVIOUS
    <2>4. Holds(Append(t, x)) => Holds(t) /\ (x \in T => x \in U)
      BY <2>1, <2>2, <2>3, Zenon
    <2>5. Holds(Append(t, x)) => Select(Select(t, U), T) = Select(t, T)
      BY <2>4, Zenon
    <2>6. Select(t, U) \in Seq(S)
      BY SelectBounded, Zenon
    <2>7. Select(Append(t, x), U) = IF x \in U THEN Append(Select(t, U), x) ELSE Select(t, U)
      BY <1>0, Zenon DEF SelectGrows
    <2>8. Select(Append(t, x), T) = IF x \in T THEN Append(Select(t, T), x) ELSE Select(t, T)
      BY <1>0, Zenon DEF SelectGrows
    <2>9. Select(Append(Select(t, U), x), T)
            = IF x \in T THEN Append(Select(Select(t, U), T), x) ELSE Select(Select(t, U), T)
      BY <1>0, <2>6, Zenon DEF SelectGrows
    <2> QED
      BY <2>2, <2>4, <2>5, <2>7, <2>8, <2>9, Zenon
  <1>3. C = Seq(S)
    <2> HIDE DEF C
    <2>1. C \in SUBSET Seq(S)
      BY Zenon DEF C
    <2> QED
      BY <1>1, <1>2, <2>1, AppendInduction
  <1> QED
    BY <1>3, Zenon

-----------------------------------------------------------------------------
(* Options                                                                 *)

\* Option i of s counts: no later one sets the same field.
Counts(s, i) ==
  /\ s[i] # NilOption
  /\ \A j \in (i + 1)..Len(s) : s[j] = NilOption \/ s[j][1] # s[i][1]

\* opts holds the options of s that count, and no others.
HoldsOptions(opts, s) ==
  /\ \A i \in 1..Len(s) : Counts(s, i) => s[i][1] \in DOMAIN opts /\ opts[s[i][1]] = s[i][2]
  /\ \A f \in DOMAIN opts : \E i \in 1..Len(s) : Counts(s, i) /\ s[i][1] = f

\* Which options count when there is one more.
LEMMA CountsMore ==
  ASSUME NEW S, NEW s \in Seq(S), NEW x \in S
  PROVE  /\ Counts(Append(s, x), Len(s) + 1) <=> x # NilOption
         /\ \A i \in 1..Len(s) :
              Counts(Append(s, x), i) <=> Counts(s, i) /\ (x = NilOption \/ x[1] # s[i][1])
  <1>1. PICK n \in Nat : n = Len(s)
    BY LenProperties
  <1>2. /\ Append(s, x) \in Seq(S) /\ Len(Append(s, x)) = n + 1
        /\ Append(s, x)[n + 1] = x /\ \A i \in 1..n : Append(s, x)[i] = s[i]
    BY <1>1, LongerForm
  <1>3. Counts(Append(s, x), n + 1) <=> x # NilOption
    <2>1. \A j \in (n + 1 + 1)..(n + 1) : FALSE
      OBVIOUS
    <2> QED
      BY <1>2, <2>1, Zenon DEF Counts
  <1>4. ASSUME NEW i \in 1..n
        PROVE  Counts(Append(s, x), i) <=> Counts(s, i) /\ (x = NilOption \/ x[1] # s[i][1])
    <2>1. /\ n + 1 \in (i + 1)..(n + 1)
          /\ \A j \in (i + 1)..(n + 1) : j = n + 1 \/ j \in (i + 1)..n
          /\ \A j \in (i + 1)..n : j \in (i + 1)..(n + 1) /\ j \in 1..n
      OBVIOUS
    <2> QED
      BY <1>1, <1>2, <2>1, Zenon DEF Counts
  <1> QED
    BY <1>1, <1>3, <1>4

\* What an option leaves behind.
LEMMA WithForm ==
  ASSUME NEW opts, NEW o
  PROVE  /\ DOMAIN With(opts, o) = DOMAIN opts \union {o[1]}
         /\ With(opts, o)[o[1]] = o[2]
         /\ \A f \in DOMAIN opts : f # o[1] => With(opts, o)[f] = opts[f]
  BY DEF With

\* newEnumerateOptions: the last option for a field is the one that counts.
LEMMA OptionsHeld ==
  ASSUME NEW S, NEW s \in Seq(S)
  PROVE  HoldsOptions(NewEnumerateOptions(s), s)
  <1> DEFINE C == {t \in Seq(S) : HoldsOptions(NewEnumerateOptions(t), t)}
  <1>1. <<>> \in C
    <2>1. <<>> \in Seq(S) /\ Len(<<>>) = 0 /\ DOMAIN <<>> = {} /\ 1..0 = {}
      BY EmptySeq
    <2>2. NewEnumerateOptions(<<>>) = <<>>
      BY OptionForm, Zenon
    <2> QED
      BY <2>1, <2>2, Zenon DEF HoldsOptions
  <1>2. ASSUME NEW t \in C, NEW x \in S
        PROVE  Append(t, x) \in C
    <2> DEFINE opts == NewEnumerateOptions(t)
               more == NewEnumerateOptions(Append(t, x))
    <2>1. PICK n \in Nat : n = Len(t)
      BY LenProperties
    <2>2. /\ Append(t, x) \in Seq(S) /\ Len(Append(t, x)) = n + 1
          /\ Append(t, x)[n + 1] = x /\ \A i \in 1..n : Append(t, x)[i] = t[i]
      BY <2>1, LongerForm
    <2>3. more = IF x = NilOption THEN opts ELSE With(opts, x)
      <3>1. t \in Seq(S)
        OBVIOUS
      <3>2. \A u \in Seq(S) : \A y \in S :
              NewEnumerateOptions(Append(u, y))
                = IF y = NilOption THEN NewEnumerateOptions(u)
                  ELSE With(NewEnumerateOptions(u), y)
        BY OptionForm, Zenon
      <3> QED
        BY <3>1, <3>2, Zenon
    <2>4. /\ Counts(Append(t, x), n + 1) <=> x # NilOption
          /\ \A i \in 1..n :
               Counts(Append(t, x), i) <=> Counts(t, i) /\ (x = NilOption \/ x[1] # t[i][1])
      BY <2>1, CountsMore
    <2>5. /\ \A i \in 1..n : Counts(t, i) => t[i][1] \in DOMAIN opts /\ opts[t[i][1]] = t[i][2]
          /\ \A f \in DOMAIN opts : \E i \in 1..n : Counts(t, i) /\ t[i][1] = f
      BY <2>1, Zenon DEF HoldsOptions
    <2>6. n + 1 \in 1..(n + 1) /\ \A i \in 1..(n + 1) : i = n + 1 \/ i \in 1..n
      OBVIOUS
    <2>7. \A i \in 1..n : i \in 1..(n + 1)
      OBVIOUS
    <2> HIDE DEF opts, more
    <2>8. HoldsOptions(more, Append(t, x))
      <3>1. CASE x = NilOption
        BY <2>2, <2>3, <2>4, <2>5, <2>6, <2>7, <3>1, Zenon DEF HoldsOptions
      <3>2. CASE x # NilOption
        <4>1. /\ DOMAIN more = DOMAIN opts \union {x[1]} /\ more[x[1]] = x[2]
              /\ \A f \in DOMAIN opts : f # x[1] => more[f] = opts[f]
          BY <2>3, <3>2, WithForm
        <4>2. ASSUME NEW i \in 1..(n + 1), Counts(Append(t, x), i)
              PROVE  /\ Append(t, x)[i][1] \in DOMAIN more
                     /\ more[Append(t, x)[i][1]] = Append(t, x)[i][2]
          <5>1. CASE i = n + 1
            BY <2>2, <4>1, <5>1, Zenon
          <5>2. CASE i \in 1..n
            <6>1. Append(t, x)[i] = t[i] /\ Counts(t, i) /\ x[1] # t[i][1]
              BY <2>2, <2>4, <3>2, <4>2, <5>2, Zenon
            <6>2. t[i][1] \in DOMAIN opts /\ opts[t[i][1]] = t[i][2]
              BY <2>5, <5>2, <6>1, Zenon
            <6> QED
              BY <4>1, <6>1, <6>2
          <5> QED
            BY <2>6, <5>1, <5>2
        <4>3. ASSUME NEW f \in DOMAIN more
              PROVE  \E i \in 1..(n + 1) : Counts(Append(t, x), i) /\ Append(t, x)[i][1] = f
          <5>1. CASE f = x[1]
            BY <2>2, <2>4, <2>6, <3>2, <5>1, Zenon
          <5>2. CASE f # x[1]
            <6>1. PICK i \in 1..n : Counts(t, i) /\ t[i][1] = f
              BY <2>5, <4>1, <5>2, Zenon
            <6> QED
              BY <2>2, <2>4, <2>7, <5>2, <6>1, Zenon
          <5> QED
            BY <5>1, <5>2
        <4> QED
          BY <2>2, <4>2, <4>3, Zenon DEF HoldsOptions
      <3> QED
        BY <3>1, <3>2
    <2> QED
      BY <2>2, <2>8, Zenon DEF more
  <1>3. C = Seq(S)
    <2> HIDE DEF C
    <2>1. C \in SUBSET Seq(S)
      BY Zenon DEF C
    <2> QED
      BY <1>1, <1>2, <2>1, AppendInduction
  <1> QED
    BY <1>3, Zenon

\* A device matches if and only if it is wanted.
LEMMA MatchIsWanted ==
  ASSUME NEW S, NEW s \in Seq(S), NEW info
  PROVE  Match(NewEnumerateOptions(s), info) <=> Wanted(s, info)
  <1>1. HoldsOptions(NewEnumerateOptions(s), s)
    BY OptionsHeld
  <1>2. DOMAIN s = 1..Len(s)
    BY LenProperties
  <1>3. Wanted(s, info) <=> \A i \in 1..Len(s) : Counts(s, i) => info[s[i][1]] = s[i][2]
    BY <1>2, Zenon DEF Wanted, Counts
  <1> DEFINE opts == NewEnumerateOptions(s)
  <1>4. ASSUME Match(opts, info), NEW i \in 1..Len(s), Counts(s, i)
        PROVE  info[s[i][1]] = s[i][2]
    <2>1. s[i][1] \in DOMAIN opts /\ opts[s[i][1]] = s[i][2]
      BY <1>1, <1>4, Zenon DEF HoldsOptions
    <2> QED
      BY <1>4, <2>1 DEF Match
  <1>5. ASSUME Wanted(s, info), NEW f \in DOMAIN opts
        PROVE  info[f] = opts[f]
    <2>1. PICK i \in 1..Len(s) : Counts(s, i) /\ s[i][1] = f
      BY <1>1, Zenon DEF HoldsOptions
    <2>2. opts[f] = s[i][2] /\ info[f] = s[i][2]
      BY <1>1, <1>3, <1>5, <2>1, Zenon DEF HoldsOptions
    <2> QED
      BY <2>2
  <1> QED
    BY <1>3, <1>4, <1>5, Zenon DEF Match

-----------------------------------------------------------------------------
(* The iterators                                                           *)

\* What a yield may pass on for devices of D, and the states of an iterator.
Passed(D) == {Info(d) : d \in D} \union {Error}

IteratorStates(D) ==
  [yields : Seq(Passed(D)), goes : BOOLEAN, late : BOOLEAN, failed : BOOLEAN]

\* An iterator that goes on may call yield once more.
IteratorInv(s, D, stop) ==
  /\ s \in IteratorStates(D) /\ ~s.late /\ ~s.failed
  /\ s.goes => Len(s.yields) < stop

\* The fields after a yield.
LEMMA YieldForm ==
  ASSUME NEW D, NEW s \in IteratorStates(D), NEW what \in Passed(D), NEW stop \in Nat
  PROVE  /\ Yield(s, what, stop) \in IteratorStates(D)
         /\ Yield(s, what, stop).yields = Append(s.yields, what)
         /\ Yield(s, what, stop).goes = (s.goes /\ Len(s.yields) + 1 < stop)
         /\ Yield(s, what, stop).late = (s.late \/ Len(s.yields) >= stop)
         /\ Yield(s, what, stop).failed = s.failed
         /\ Len(s.yields) \in Nat
         /\ Len(Yield(s, what, stop).yields) = Len(s.yields) + 1
  <1>1. s.yields \in Seq(Passed(D))
    BY DEF IteratorStates
  <1>2. /\ Append(s.yields, what) \in Seq(Passed(D)) /\ Len(s.yields) \in Nat
        /\ Len(Append(s.yields, what)) = Len(s.yields) + 1
    BY <1>1, LongerForm
  <1>3. \A b \in BOOLEAN : (b /\ Len(s.yields) + 1 < stop) \in BOOLEAN
                           /\ (b \/ Len(s.yields) >= stop) \in BOOLEAN
    OBVIOUS
  <1>4. s.goes \in BOOLEAN /\ s.late \in BOOLEAN /\ s.failed \in BOOLEAN
    BY DEF IteratorStates
  <1> DEFINE more == s.goes /\ Len(s.yields) + 1 < stop
             late == s.late \/ Len(s.yields) >= stop
  <1> DEFINE ys == Append(s.yields, what)
             t == [s EXCEPT !.yields = ys, !.goes = more, !.late = late]
  <1>5. Yield(s, what, stop) = t
    BY Zenon DEF Yield
  <1>6. more \in BOOLEAN /\ late \in BOOLEAN /\ ys \in Seq(Passed(D))
    BY <1>2, <1>3, <1>4, Zenon
  <1> HIDE DEF ys, more, late
  <1>7. /\ t \in IteratorStates(D) /\ t.yields = ys /\ t.goes = more /\ t.late = late
        /\ t.failed = s.failed
    BY <1>6 DEF IteratorStates
  <1> HIDE DEF t
  <1> QED
    BY <1>2, <1>5, <1>7, Zenon DEF ys, more, late

\* The fields after a return.
LEMMA ReturnForm ==
  ASSUME NEW D, NEW s \in IteratorStates(D)
  PROVE  /\ Return(s) \in IteratorStates(D) /\ Return(s).yields = s.yields
         /\ Return(s).goes = FALSE /\ Return(s).late = s.late /\ Return(s).failed = s.failed
  BY DEF Return, IteratorStates

\* The state an iterator begins with.
LEMMA StartForm ==
  ASSUME NEW D
  PROVE  /\ Start \in IteratorStates(D) /\ Start.yields = <<>> /\ Start.goes
         /\ ~Start.late /\ ~Start.failed /\ Len(<<>>) = 0
  BY EmptySeq DEF Start, IteratorStates

\* Error says nothing of a device, and is no DeviceInfo.
LEMMA PassedForm ==
  ASSUME NEW D
  PROVE  /\ Error \in Passed(D)
         /\ \A d \in D : Info(d) \in Passed(D) /\ Info(d) # Error
  <1>1. \A x : <<x>> # <<>>
    OBVIOUS
  <1> QED
    BY <1>1, Zenon DEF Passed, Info, Error

\* The platforms.
Platforms == {"linux", "windows", "darwin"}

\* For a device an iterator does nothing, yields, or yields and returns.
LEMMA StepForm ==
  ASSUME NEW D, NEW platform \in Platforms, NEW opts, NEW stop, NEW s, NEW d \in D
  PROVE  \/ Step(platform, opts, stop, s, d) = s
         \/ s.goes /\ \E what \in Passed(D) :
              Step(platform, opts, stop, s, d)
                \in {Yield(s, what, stop), Return(Yield(s, what, stop))}
  <1>1. Error \in Passed(D) /\ Info(d) \in Passed(D)
    BY PassedForm
  <1>2. CASE platform = "linux"
    <2>1. Step(platform, opts, stop, s, d) = LinuxStep(opts, stop, s, d)
      BY <1>2 DEF Step
    <2> QED
      BY <1>1, <2>1 DEF LinuxStep
  <1>3. CASE platform = "windows"
    <2>1. Step(platform, opts, stop, s, d) = WindowsStep(opts, stop, s, d)
      BY <1>3 DEF Step
    <2> QED
      BY <1>1, <2>1 DEF WindowsStep
  <1>4. CASE platform = "darwin"
    <2>1. Step(platform, opts, stop, s, d) = DarwinStep(opts, stop, s, d)
      BY <1>4 DEF Step
    <2> QED
      BY <1>1, <2>1 DEF DarwinStep
  <1> QED
    BY <1>2, <1>3, <1>4 DEF Platforms

\* A device more leaves an iterator that was not called too often as it was.
LEMMA StepHolds ==
  ASSUME NEW D, NEW platform \in Platforms, NEW opts, NEW stop \in Nat, NEW s,
         IteratorInv(s, D, stop), NEW d \in D
  PROVE  IteratorInv(Step(platform, opts, stop, s, d), D, stop)
  <1> DEFINE t == Step(platform, opts, stop, s, d)
  <1>1. CASE t = s
    BY <1>1
  <1>2. ASSUME s.goes, NEW what \in Passed(D),
               t \in {Yield(s, what, stop), Return(Yield(s, what, stop))}
        PROVE  IteratorInv(t, D, stop)
    <2>1. s \in IteratorStates(D)
      BY DEF IteratorInv
    <2> DEFINE y == Yield(s, what, stop)
    <2>2. /\ y \in IteratorStates(D) /\ Len(y.yields) = Len(s.yields) + 1
          /\ y.goes = (s.goes /\ Len(s.yields) + 1 < stop)
          /\ y.late = (s.late \/ Len(s.yields) >= stop)
          /\ y.failed = s.failed /\ Len(s.yields) \in Nat
      BY <2>1, YieldForm
    <2> HIDE DEF y
    <2>3. Len(s.yields) < stop /\ ~(Len(s.yields) >= stop)
      BY <1>2, <2>2 DEF IteratorInv
    <2>4. IteratorInv(y, D, stop)
      BY <2>2, <2>3 DEF IteratorInv
    <2>5. IteratorInv(Return(y), D, stop)
      BY <2>2, <2>4, ReturnForm DEF IteratorInv
    <2> QED
      BY <1>2, <2>4, <2>5 DEF y
  <1> HIDE DEF t
  <1>3. \/ t = s
        \/ s.goes /\ \E what \in Passed(D) :
             t \in {Yield(s, what, stop), Return(Yield(s, what, stop))}
    BY StepForm DEF t
  <1> QED
    BY <1>1, <1>2, <1>3 DEF t

\* How an iteration grows with its devices.
RoundsGrow(D, platform, opts, stop) ==
  \A s \in Seq(D) : \A d \in D :
    Enumerate(platform, opts, stop, Append(s, d))
      = Step(platform, opts, stop, Enumerate(platform, opts, stop, s), d)

\* An iteration begins at the start and grows.
LEMMA RoundsBegin ==
  ASSUME NEW D, NEW platform, NEW opts, NEW stop
  PROVE  Enumerate(platform, opts, stop, <<>>) = Start /\ RoundsGrow(D, platform, opts, stop)
  BY RoundForm DEF RoundsGrow

\* No iterator calls yield after it returned false.
LEMMA RoundsHold ==
  ASSUME NEW D, NEW s \in Seq(D), NEW platform \in Platforms, NEW opts, NEW stop \in Nat \ {0}
  PROVE  IteratorInv(Enumerate(platform, opts, stop, s), D, stop)
  <1> DEFINE C == {t \in Seq(D) : IteratorInv(Enumerate(platform, opts, stop, t), D, stop)}
  <1>1. <<>> \in C
    <2>1. <<>> \in Seq(D) /\ 0 < stop
      BY EmptySeq
    <2>2. Enumerate(platform, opts, stop, <<>>) = Start
      BY RoundsBegin, Zenon
    <2>3. IteratorInv(Start, D, stop)
      BY <2>1, StartForm DEF IteratorInv
    <2> QED
      BY <2>1, <2>2, <2>3, Zenon
  <1>2. ASSUME NEW t \in C, NEW x \in D
        PROVE  Append(t, x) \in C
    <2>1. t \in Seq(D) /\ Append(t, x) \in Seq(D)
      BY LongerForm
    <2>2. Enumerate(platform, opts, stop, Append(t, x))
            = Step(platform, opts, stop, Enumerate(platform, opts, stop, t), x)
      <3>1. RoundsGrow(D, platform, opts, stop)
        BY RoundsBegin, Zenon
      <3> QED
        BY <2>1, <3>1, Zenon DEF RoundsGrow
    <2>3. IteratorInv(Step(platform, opts, stop, Enumerate(platform, opts, stop, t), x), D, stop)
      BY StepHolds
    <2> QED
      BY <2>1, <2>2, <2>3, Zenon
  <1>3. C = Seq(D)
    <2> HIDE DEF C
    <2>1. C \in SUBSET Seq(D)
      BY Zenon DEF C
    <2> QED
      BY <1>1, <1>2, <2>1, AppendInduction
  <1> QED
    BY <1>3, Zenon

-----------------------------------------------------------------------------
(* What the iterators find                                                 *)

\* The infos of devices, in their order.
InfosOf(ds) == [i \in DOMAIN ds |-> Info(ds[i])]

\* The devices of D that Enumerate is to find.
WantedOf(D, opts) == {d \in D : d.fails = "never" /\ Match(opts, d.info)}

\* What an iterator over devices of D has found.
FoundOf(D, s) == Select(s.yields, Passed(D) \ {Error})

\* The infos of no devices, and of one more.
LEMMA InfosForm ==
  ASSUME NEW D, NEW s \in Seq(D), NEW d \in D
  PROVE  /\ InfosOf(<<>>) = <<>> /\ InfosOf(s) \in Seq(Passed(D))
         /\ InfosOf(Append(s, d)) = Append(InfosOf(s), Info(d))
  <1>1. PICK n \in Nat : n = Len(s)
    BY LenProperties
  <1>2. /\ Append(s, d) \in Seq(D) /\ Len(Append(s, d)) = n + 1
        /\ Append(s, d)[n + 1] = d /\ \A i \in 1..n : Append(s, d)[i] = s[i]
    BY <1>1, LongerForm
  <1>3. /\ DOMAIN s = 1..n /\ DOMAIN Append(s, d) = 1..(n + 1)
        /\ \A i \in 1..n : s[i] \in D
    BY <1>1, <1>2, LenProperties, ElementOfSeq
  <1>4. InfosOf(<<>>) = <<>>
    <2>1. InfosOf(<<>>) \in [1..0 -> D] /\ DOMAIN <<>> = 1..0
      BY DEF InfosOf
    <2>2. 0 \in Nat
      OBVIOUS
    <2>3. InfosOf(<<>>) \in Seq(D) /\ Len(InfosOf(<<>>)) = 0
      BY <2>1, <2>2, FunctionIsSeq
    <2> QED
      BY <2>3, EmptySeq
  <1>5. InfosOf(s) \in Seq(Passed(D)) /\ Len(InfosOf(s)) = n
    <2>1. InfosOf(s) \in [1..n -> Passed(D)]
      BY <1>3, PassedForm DEF InfosOf
    <2> QED
      BY <2>1, FunctionIsSeq
  <1>6. InfosOf(Append(s, d)) \in Seq(Passed(D)) /\ Len(InfosOf(Append(s, d))) = n + 1
    <2>1. \A i \in 1..(n + 1) : i = n + 1 \/ i \in 1..n
      OBVIOUS
    <2>2. \A i \in 1..(n + 1) : Append(s, d)[i] \in D
      BY <1>2, <1>3, <2>1
    <2>3. InfosOf(Append(s, d)) \in [1..(n + 1) -> Passed(D)]
      BY <1>3, <2>2, PassedForm DEF InfosOf
    <2>4. n + 1 \in Nat
      OBVIOUS
    <2> QED
      BY <2>3, <2>4, FunctionIsSeq
  <1>7. InfosOf(Append(s, d)) = Append(InfosOf(s), Info(d))
    <2>1. Info(d) \in Passed(D)
      BY PassedForm
    <2>2. /\ Append(InfosOf(s), Info(d)) \in Seq(Passed(D))
          /\ Len(Append(InfosOf(s), Info(d))) = n + 1
          /\ Append(InfosOf(s), Info(d))[n + 1] = Info(d)
          /\ \A i \in 1..n : Append(InfosOf(s), Info(d))[i] = InfosOf(s)[i]
      BY <1>5, <2>1, LongerForm
    <2>3. /\ \A i \in 1..n : InfosOf(s)[i] = Info(s[i])
          /\ \A i \in 1..(n + 1) : InfosOf(Append(s, d))[i] = Info(Append(s, d)[i])
      BY <1>3, Zenon DEF InfosOf
    <2>4. \A i \in 1..(n + 1) : i = n + 1 \/ i \in 1..n
      OBVIOUS
    <2>5. \A i \in 1..(n + 1) : InfosOf(Append(s, d))[i] = Append(InfosOf(s), Info(d))[i]
      <3> TAKE i \in 1..(n + 1)
      <3>1. CASE i = n + 1
        BY <1>2, <2>2, <2>3, <3>1
      <3>2. CASE i \in 1..n
        BY <1>2, <2>2, <2>3, <3>2
      <3> QED
        BY <2>4, <3>1, <3>2
    <2> QED
      BY <1>6, <2>2, <2>5, SeqEqual
  <1> QED
    BY <1>4, <1>5, <1>7

\* Among what was passed on, errors are what is no DeviceInfo.
LEMMA FoundSame ==
  ASSUME NEW D, NEW s \in IteratorStates(D)
  PROVE  Found(s) = FoundOf(D, s)
  <1>1. s.yields \in Seq(Passed(D))
    BY DEF IteratorStates
  <1>2. \A i \in 1..Len(s.yields) :
          s.yields[i] \in ToSet(s.yields) \ {Error} <=> s.yields[i] \in Passed(D) \ {Error}
    <2>1. /\ DOMAIN s.yields = 1..Len(s.yields)
          /\ \A i \in 1..Len(s.yields) : s.yields[i] \in Passed(D)
      BY <1>1, LenProperties, ElementOfSeq
    <2> QED
      BY <2>1, Zenon DEF ToSet
  <1> QED
    BY <1>1, <1>2, SelectSame DEF Found, FoundOf

\* What one more yield finds.
LEMMA FoundMore ==
  ASSUME NEW D, NEW s \in IteratorStates(D), NEW stop \in Nat
  PROVE  /\ FoundOf(D, Yield(s, Error, stop)) = FoundOf(D, s)
         /\ \A d \in D : FoundOf(D, Yield(s, Info(d), stop)) = Append(FoundOf(D, s), Info(d))
  <1> DEFINE T == Passed(D) \ {Error}
  <1>1. s.yields \in Seq(Passed(D))
    BY DEF IteratorStates
  <1>2. SelectGrows(Passed(D), T)
    BY SelectForm, Zenon DEF SelectGrows
  <1>3. \A what \in Passed(D) :
          Select(Append(s.yields, what), T)
            = IF what \in T THEN Append(Select(s.yields, T), what) ELSE Select(s.yields, T)
    BY <1>1, <1>2, Zenon DEF SelectGrows
  <1>4. \A what \in Passed(D) : Yield(s, what, stop).yields = Append(s.yields, what)
    BY YieldForm
  <1>5. Error \in Passed(D) /\ Error \notin T
    BY PassedForm
  <1>6. \A d \in D : Info(d) \in Passed(D) /\ Info(d) \in T
    BY PassedForm
  <1> HIDE DEF T
  <1>7. \A what \in Passed(D) : Select(Yield(s, what, stop).yields, T)
            = IF what \in T THEN Append(Select(s.yields, T), what) ELSE Select(s.yields, T)
    BY <1>3, <1>4, Zenon
  <1> QED
    BY <1>5, <1>6, <1>7 DEF FoundOf, T

\* Linux and macOS find the devices that match, if the consumer goes on.
LEMMA AllFound ==
  ASSUME NEW D, NEW platform \in {"linux", "darwin"}, NEW opts, NEW stop \in Nat,
         NEW s \in Seq(D), Len(s) < stop
  PROVE  /\ Enumerate(platform, opts, stop, s) \in IteratorStates(D)
         /\ FoundOf(D, Enumerate(platform, opts, stop, s)) = InfosOf(Select(s, WantedOf(D, opts)))
  <1> DEFINE W == WantedOf(D, opts)
             End(t) == Enumerate(platform, opts, stop, t)
             Right(t) == /\ End(t) \in IteratorStates(D) /\ End(t).goes
                         /\ Len(End(t).yields) <= Len(t)
                         /\ FoundOf(D, End(t)) = InfosOf(Select(t, W))
             C == {t \in Seq(D) : Len(t) < stop => Right(t)}
  <1>1. <<>> \in C
    <2>1. <<>> \in Seq(D) /\ Len(<<>>) = 0 /\ 0 <= 0
      BY EmptySeq
    <2>2. End(<<>>) = Start
      BY RoundsBegin, Zenon
    <2>3. Start \in IteratorStates(D) /\ Start.goes /\ Start.yields = <<>>
      BY StartForm
    <2>4. FoundOf(D, Start) = <<>> /\ Select(<<>>, W) = <<>>
      BY <2>3, SelectForm, Zenon DEF FoundOf
    <2>5. InfosOf(<<>>) = <<>>
      <3>1. DOMAIN <<>> = {}
        OBVIOUS
      <3> QED
        BY <3>1 DEF InfosOf
    <2> QED
      BY <2>1, <2>2, <2>3, <2>4, <2>5, Zenon
  <1>2. ASSUME NEW t \in C, NEW x \in D
        PROVE  Append(t, x) \in C
    <2>1. /\ t \in Seq(D) /\ Append(t, x) \in Seq(D) /\ Len(t) \in Nat
          /\ Len(Append(t, x)) = Len(t) + 1
      BY LongerForm
    <2> SUFFICES ASSUME Len(t) + 1 < stop
                 PROVE  Right(Append(t, x))
      BY <2>1, Zenon
    <2> DEFINE e == End(t)
    <2>2. Right(t)
      <3>1. Len(t) < stop
        BY <2>1
      <3> QED
        BY <3>1, Zenon
    <2>3. End(Append(t, x)) = LinuxStep(opts, stop, e, x)
      <3>1. RoundsGrow(D, platform, opts, stop)
        BY RoundsBegin, Zenon
      <3>2. End(Append(t, x)) = Step(platform, opts, stop, e, x)
        BY <2>1, <3>1, Zenon DEF RoundsGrow
      <3> HIDE DEF e
      <3>3. DarwinStep(opts, stop, e, x) = LinuxStep(opts, stop, e, x)
        BY Zenon DEF DarwinStep, LinuxStep
      <3>4. Step(platform, opts, stop, e, x) = LinuxStep(opts, stop, e, x)
        BY <3>3 DEF Step
      <3> QED
        BY <3>2, <3>4, Zenon
    <2>4. Select(Append(t, x), W) = IF x \in W THEN Append(Select(t, W), x) ELSE Select(t, W)
      <3>1. SelectGrows(D, W)
        BY SelectForm, Zenon DEF SelectGrows
      <3> QED
        BY <2>1, <3>1, Zenon DEF SelectGrows
    <2>5. InfosOf(Append(Select(t, W), x)) = Append(InfosOf(Select(t, W)), Info(x))
      <3>1. Select(t, W) \in Seq(D)
        BY <2>1, SelectBounded, Zenon
      <3> QED
        BY <3>1, InfosForm, Zenon
    <2> HIDE DEF e
    <2>6. /\ e \in IteratorStates(D) /\ e.goes /\ Len(e.yields) <= Len(t)
          /\ FoundOf(D, e) = InfosOf(Select(t, W))
      BY <2>2, Zenon DEF e
    <2>7. ASSUME NEW what \in Passed(D)
          PROVE  /\ Yield(e, what, stop) \in IteratorStates(D) /\ Yield(e, what, stop).goes
                 /\ Len(Yield(e, what, stop).yields) <= Len(t) + 1
      <3>1. /\ Yield(e, what, stop) \in IteratorStates(D)
            /\ Len(Yield(e, what, stop).yields) = Len(e.yields) + 1 /\ Len(e.yields) \in Nat
            /\ Yield(e, what, stop).goes = (e.goes /\ Len(e.yields) + 1 < stop)
        BY <2>6, YieldForm, Zenon
      <3>2. Len(e.yields) + 1 <= Len(t) + 1 /\ Len(e.yields) + 1 < stop
        BY <2>1, <2>6, <3>1
      <3> QED
        BY <2>6, <3>1, <3>2
    <2>8. Error \in Passed(D) /\ Info(x) \in Passed(D)
      BY PassedForm
    <2>9. /\ FoundOf(D, Yield(e, Error, stop)) = FoundOf(D, e)
          /\ FoundOf(D, Yield(e, Info(x), stop)) = Append(FoundOf(D, e), Info(x))
      BY <2>6, FoundMore
    <2> HIDE DEF End
    <2>10. CASE x.fails # "never"
      <3>1. End(Append(t, x)) = Yield(e, Error, stop)
        BY <2>3, <2>6, <2>10, Zenon DEF LinuxStep
      <3>2. x \notin W
        BY <2>10, Zenon DEF WantedOf
      <3>3. FoundOf(D, End(Append(t, x))) = InfosOf(Select(Append(t, x), W))
        BY <2>4, <2>6, <2>9, <3>1, <3>2
      <3> QED
        BY <2>1, <2>7, <2>8, <3>1, <3>3
    <2>11. CASE x.fails = "never" /\ ~Match(opts, x.info)
      <3>1. End(Append(t, x)) = e
        BY <2>3, <2>6, <2>11, Zenon DEF LinuxStep
      <3>2. x \notin W
        BY <2>11, Zenon DEF WantedOf
      <3>3. FoundOf(D, End(Append(t, x))) = InfosOf(Select(Append(t, x), W))
        BY <2>4, <2>6, <3>1, <3>2
      <3>4. Len(e.yields) <= Len(t) + 1
        <4>1. Len(e.yields) \in Nat
          BY <2>6, <2>8, YieldForm
        <4> QED
          BY <2>1, <2>6, <4>1
      <3> QED
        BY <2>1, <2>6, <3>1, <3>3, <3>4
    <2>12. CASE x.fails = "never" /\ Match(opts, x.info)
      <3>1. End(Append(t, x)) = Yield(e, Info(x), stop)
        BY <2>3, <2>6, <2>12, Zenon DEF LinuxStep
      <3>2. x \in W
        BY <2>12, Zenon DEF WantedOf
      <3>3. FoundOf(D, End(Append(t, x))) = InfosOf(Select(Append(t, x), W))
        BY <2>4, <2>5, <2>6, <2>9, <3>1, <3>2
      <3> QED
        BY <2>1, <2>7, <2>8, <3>1, <3>3
    <2> QED
      BY <2>10, <2>11, <2>12
  <1>3. C = Seq(D)
    <2> HIDE DEF C
    <2>1. C \in SUBSET Seq(D)
      BY Zenon DEF C
    <2> QED
      BY <1>1, <1>2, <2>1, AppendInduction
  <1> QED
    BY <1>3, Zenon

\* A sequence is a prefix of itself, and of what a prefix grows to.
LEMMA PrefixGrows ==
  ASSUME NEW S, NEW s \in Seq(S), NEW t \in Seq(S), NEW x \in S, IsPrefix(s, t)
  PROVE  IsPrefix(s, Append(t, x))
  <1>1. PICK n, m \in Nat : n = Len(s) /\ m = Len(t) /\ n <= m
    BY LenProperties DEF IsPrefix
  <1>2. /\ Append(t, x) \in Seq(S) /\ Len(Append(t, x)) = m + 1
        /\ \A i \in 1..m : Append(t, x)[i] = t[i]
    BY <1>1, LongerForm
  <1>3. n \in 0..m /\ n \in 0..(m + 1) /\ n <= m + 1 /\ \A i \in 1..n : i \in 1..m
    BY <1>1
  <1>4. SubSeq(t, 1, n) \in Seq(S) /\ Len(SubSeq(t, 1, n)) = n
        /\ \A i \in 1..n : SubSeq(t, 1, n)[i] = t[i]
    BY <1>1, <1>3, PrefixForm
  <1>5. /\ SubSeq(Append(t, x), 1, n) \in Seq(S) /\ Len(SubSeq(Append(t, x), 1, n)) = n
        /\ \A i \in 1..n : SubSeq(Append(t, x), 1, n)[i] = Append(t, x)[i]
    BY <1>2, <1>3, PrefixForm
  <1>6. SubSeq(Append(t, x), 1, n) = SubSeq(t, 1, n)
    <2>1. \A i \in 1..n : SubSeq(Append(t, x), 1, n)[i] = SubSeq(t, 1, n)[i]
      BY <1>2, <1>3, <1>4, <1>5
    <2> QED
      BY <1>4, <1>5, <2>1, SeqEqual
  <1> QED
    BY <1>1, <1>2, <1>3, <1>6 DEF IsPrefix

\* Windows finds a prefix of the usable devices that match: all until it returns.
LEMMA PrefixFound ==
  ASSUME NEW D, \A d \in D : d.fails \in {"never", "early", "late"},
         NEW opts, NEW stop \in Nat \ {0}, NEW s \in Seq(D)
  PROVE  IsPrefix(FoundOf(D, Enumerate("windows", opts, stop, s)),
                  InfosOf(Select(s, {d \in WantedOf(D, opts) : d.usable})))
  <1> DEFINE W == {d \in WantedOf(D, opts) : d.usable}
             End(t) == Enumerate("windows", opts, stop, t)
             Right(t) ==
               LET found == FoundOf(D, End(t))
                   all == InfosOf(Select(t, W))
               IN IsPrefix(found, all) /\ (End(t).goes => found = all)
             C == {t \in Seq(D) : Right(t)}
  <1>1. <<>> \in C
    <2>1. <<>> \in Seq(D) /\ IsPrefix(<<>>, <<>>)
      BY EmptySeq DEF IsPrefix
    <2>2. End(<<>>) = Start
      BY RoundsBegin, Zenon
    <2>3. Start.yields = <<>>
      BY StartForm
    <2>4. FoundOf(D, Start) = <<>> /\ Select(<<>>, W) = <<>>
      BY <2>3, SelectForm, Zenon DEF FoundOf
    <2>5. InfosOf(<<>>) = <<>>
      <3>1. DOMAIN <<>> = {}
        OBVIOUS
      <3> QED
        BY <3>1 DEF InfosOf
    <2> QED
      BY <2>1, <2>2, <2>4, <2>5, Zenon
  <1>2. ASSUME NEW t \in C, NEW x \in D
        PROVE  Append(t, x) \in C
    <2> DEFINE e == End(t)
               all == InfosOf(Select(t, W))
               found == FoundOf(D, e)
    <2>1. t \in Seq(D) /\ Append(t, x) \in Seq(D) /\ Right(t)
      BY LongerForm
    <2>2. End(Append(t, x)) = WindowsStep(opts, stop, e, x)
      <3>1. RoundsGrow(D, "windows", opts, stop)
        BY RoundsBegin, Zenon
      <3>2. End(Append(t, x)) = Step("windows", opts, stop, e, x)
        BY <2>1, <3>1, Zenon DEF RoundsGrow
      <3> HIDE DEF e
      <3>3. Step("windows", opts, stop, e, x) = WindowsStep(opts, stop, e, x)
        BY DEF Step
      <3> QED
        BY <3>2, <3>3, Zenon
    <2>3. e \in IteratorStates(D)
      <3>1. "windows" \in Platforms
        BY DEF Platforms
      <3>2. IteratorInv(e, D, stop)
        BY <2>1, <3>1, RoundsHold
      <3> QED
        BY <3>2, Zenon DEF IteratorInv
    <2>4. Select(t, W) \in Seq(D) /\ Select(Append(t, x), W) \in Seq(D)
      BY <2>1, SelectBounded, Zenon
    <2>5. /\ all \in Seq(Passed(D)) /\ found \in Seq(Passed(D)) /\ Info(x) \in Passed(D)
          /\ Error \in Passed(D)
      <3>1. all \in Seq(Passed(D))
        BY <2>4, InfosForm, Zenon
      <3>2. e.yields \in Seq(Passed(D))
        BY <2>3 DEF IteratorStates
      <3>3. found \in Seq(Passed(D))
        BY <3>2, SelectBounded, Zenon DEF FoundOf
      <3> QED
        BY <3>1, <3>3, PassedForm
    <2>6. InfosOf(Select(Append(t, x), W)) = IF x \in W THEN Append(all, Info(x)) ELSE all
      <3>1. SelectGrows(D, W)
        BY SelectForm, Zenon DEF SelectGrows
      <3>2. Select(Append(t, x), W) = IF x \in W THEN Append(Select(t, W), x) ELSE Select(t, W)
        BY <2>1, <3>1, Zenon DEF SelectGrows
      <3>3. InfosOf(Append(Select(t, W), x)) = Append(InfosOf(Select(t, W)), Info(x))
        BY <2>4, InfosForm, Zenon
      <3> HIDE DEF W
      <3> QED
        BY <3>2, <3>3
    <2>7. /\ FoundOf(D, Yield(e, Error, stop)) = found
          /\ FoundOf(D, Yield(e, Info(x), stop)) = Append(found, Info(x))
          /\ FoundOf(D, Return(Yield(e, Error, stop))) = found
          /\ ~Return(Yield(e, Error, stop)).goes
      <3>1. Yield(e, Error, stop) \in IteratorStates(D)
        BY <2>3, <2>5, YieldForm, Zenon
      <3>2. /\ Return(Yield(e, Error, stop)).yields = Yield(e, Error, stop).yields
            /\ ~Return(Yield(e, Error, stop)).goes
        BY <3>1, ReturnForm, Zenon
      <3>3. /\ FoundOf(D, Yield(e, Error, stop)) = found
            /\ FoundOf(D, Yield(e, Info(x), stop)) = Append(found, Info(x))
        BY <2>3, FoundMore
      <3> QED
        BY <3>2, <3>3, Zenon DEF FoundOf
    <2>8. IsPrefix(found, all) /\ (e.goes => found = all)
      BY <2>1, Zenon
    <2>9. x \in W <=> x.fails = "never" /\ Match(opts, x.info) /\ x.usable
      BY DEF WantedOf
    <2>10. /\ IsPrefix(found, Append(all, Info(x)))
           /\ \A ys \in Seq(Passed(D)) : IsPrefix(ys, ys)
      <3>1. \A ys \in Seq(Passed(D)) : IsPrefix(ys, ys)
        BY LenProperties DEF IsPrefix
      <3> QED
        BY <2>5, <2>8, <3>1, PrefixGrows, Zenon
    <2>11. Append(all, Info(x)) \in Seq(Passed(D))
      BY <2>5, LongerForm
    <2> DEFINE more == End(Append(t, x))
               longer == InfosOf(Select(Append(t, x), W))
    <2> HIDE DEF e, all, found, W, more, longer
    <2>12. IsPrefix(FoundOf(D, more), longer) /\ (more.goes => FoundOf(D, more) = longer)
      <3>1. more = WindowsStep(opts, stop, e, x) /\ FoundOf(D, e) = found
            /\ longer = IF x \in W THEN Append(all, Info(x)) ELSE all
        BY <2>2, <2>6, Zenon DEF more, longer, found
      <3>2. CASE ~e.goes
        <4>1. more = e
          BY <3>1, <3>2, Zenon DEF WindowsStep
        <4> QED
          BY <2>8, <2>10, <3>1, <3>2, <4>1
      <3>3. CASE e.goes /\ (x.fails = "early" \/ (x.usable /\ x.fails = "late"))
        <4>1. more = Return(Yield(e, Error, stop))
          BY <3>1, <3>3 DEF WindowsStep
        <4>2. longer = all
          BY <2>9, <3>1, <3>3
        <4> QED
          BY <2>7, <2>8, <4>1, <4>2
      <3>4. CASE /\ e.goes /\ x.fails # "early"
                 /\ (~x.usable \/ (x.fails # "late" /\ ~Match(opts, x.info)))
        <4>1. more = e
          BY <3>1, <3>4, Zenon DEF WindowsStep
        <4>2. longer = all
          BY <2>9, <3>1, <3>4
        <4> QED
          BY <2>8, <3>1, <4>1, <4>2
      <3>5. CASE e.goes /\ x.fails = "never" /\ x.usable /\ Match(opts, x.info)
        <4>1. more = Yield(e, Info(x), stop)
          BY <3>1, <3>5 DEF WindowsStep
        <4>2. longer = Append(found, Info(x))
          BY <2>8, <2>9, <3>1, <3>5
        <4> QED
          BY <2>7, <2>8, <2>10, <2>11, <3>5, <4>1, <4>2
      <3> QED
        BY <3>2, <3>3, <3>4, <3>5
    <2> QED
      BY <2>1, <2>12, Zenon DEF more, longer
  <1>3. C = Seq(D)
    <2> HIDE DEF C
    <2>1. C \in SUBSET Seq(D)
      BY Zenon DEF C
    <2> QED
      BY <1>1, <1>2, <2>1, AppendInduction
  <1> QED
    BY <1>3, Zenon

-----------------------------------------------------------------------------
(* The platforms' iterators                                                *)

\* What IOKit returns is a selection of the devices.
LEMMA CopyDevicesForm ==
  ASSUME NEW D, NEW matching, NEW devices \in Seq(D)
  PROVE  /\ CopyDevices(matching, devices) \in Seq(D)
         /\ Len(CopyDevices(matching, devices)) <= Len(devices)
  BY SelectBounded, Zenon DEF CopyDevices

\* An iterator without a list of devices yields once.
LEMMA OneYield ==
  ASSUME NEW D, NEW stop \in Nat \ {0}
  PROVE  /\ ~Yield(Start, Error, stop).late
         /\ ~Yield([Start EXCEPT !.failed = TRUE], Error, stop).late
  <1>1. Error \in Passed(D) /\ stop \in Nat /\ ~(0 >= stop)
    BY PassedForm
  <1>2. ASSUME NEW s \in IteratorStates(D), ~s.late, s.yields = <<>>
        PROVE  ~Yield(s, Error, stop).late
    <2>1. Yield(s, Error, stop).late = (s.late \/ Len(s.yields) >= stop)
      BY <1>1, YieldForm, Zenon
    <2>2. Len(s.yields) = 0
      BY <1>2, EmptySeq
    <2> QED
      BY <1>1, <1>2, <2>1, <2>2
  <1>3. Start \in IteratorStates(D) /\ ~Start.late /\ Start.yields = <<>>
    BY StartForm
  <1>4. /\ [Start EXCEPT !.failed = TRUE] \in IteratorStates(D)
        /\ ~[Start EXCEPT !.failed = TRUE].late /\ [Start EXCEPT !.failed = TRUE].yields = <<>>
    BY <1>3 DEF IteratorStates
  <1> QED
    BY <1>2, <1>3, <1>4, Zenon

(***************************************************************************)
(* No iterator calls yield after it returned false, for any options, list  *)
(* of devices and consumer (hid_linux.go:72, hid_darwin.go:138).           *)
(***************************************************************************)
THEOREM BreaksAreRespected ==
  ASSUME NEW D, NEW options, NEW devices \in Seq(D), NEW stop \in Nat \ {0}
  PROVE  NoYieldAfterBreak(options, stop, devices)
  <1> DEFINE opts == NewEnumerateOptions(options)
  <1> SUFFICES ASSUME NEW listed \in BOOLEAN, NEW made \in BOOLEAN
               PROVE  /\ ~Linux(options, stop, devices, listed).late
                      /\ ~Windows(options, stop, devices, listed).late
                      /\ ~Darwin(options, stop, devices, listed, made).late
    BY Zenon DEF NoYieldAfterBreak
  <1>1. /\ ~Yield(Start, Error, stop).late
        /\ ~Yield([Start EXCEPT !.failed = TRUE], Error, stop).late
    BY OneYield
  <1>2. ASSUME NEW platform \in Platforms, NEW ds \in Seq(D)
        PROVE  /\ ~Enumerate(platform, opts, stop, ds).late
               /\ ~Enumerate(platform, opts, stop, ds).failed
    <2>1. IteratorInv(Enumerate(platform, opts, stop, ds), D, stop)
      BY RoundsHold
    <2> QED
      BY <2>1, Zenon DEF IteratorInv
  <1>3. "linux" \in Platforms /\ "windows" \in Platforms /\ "darwin" \in Platforms
    BY DEF Platforms
  <1>4. ~Linux(options, stop, devices, listed).late
    BY <1>1, <1>2, <1>3, Zenon DEF Linux
  <1>5. ~Windows(options, stop, devices, listed).late
    BY <1>1, <1>2, <1>3, Zenon DEF Windows
  <1>6. ~Darwin(options, stop, devices, listed, made).late
    <2>1. CASE ~listed
      <3>1. [Start EXCEPT !.failed = TRUE].failed
        BY DEF Start
      <3>2. Darwin(options, stop, devices, listed, made)
              = Yield([Start EXCEPT !.failed = TRUE], Error, stop)
        BY <2>1, <3>1, Zenon DEF Darwin
      <3> QED
        BY <1>1, <3>2, Zenon
    <2>2. CASE listed
      <3> DEFINE ds == CopyDevices(DeviceMatching(opts, made), devices)
                 e == Enumerate("darwin", opts, stop, ds)
      <3>1. ds \in Seq(D)
        BY CopyDevicesForm, Zenon
      <3>2. ~e.late /\ ~e.failed
        <4> HIDE DEF ds, opts
        <4> QED
          BY <1>2, <1>3, <3>1, Zenon
      <3>3. Darwin(options, stop, devices, listed, made) = e
        BY <2>2, <3>2, Zenon DEF Darwin
      <3> QED
        BY <3>2, <3>3, Zenon
    <2> QED
      BY <2>1, <2>2
  <1> QED
    BY <1>4, <1>5, <1>6

(***************************************************************************)
(* A consumer that goes on is given the devices that it asked for, in      *)
(* their order, on Windows up to the first error (README.md:33).           *)
(***************************************************************************)
THEOREM WantedAreFound ==
  ASSUME NEW S, NEW options \in Seq(S), NEW D, NEW devices \in Seq(D),
         \A d \in D : d.fails \in {"never", "early", "late"}
  PROVE  FindsWhatIsWanted(options, devices)
  <1> DEFINE opts == NewEnumerateOptions(options)
             never == Len(devices) + 1
             wanted == {d \in ToSet(devices) : d.fails = "never" /\ Wanted(options, d.info)}
  <1>1. never \in Nat /\ never \in Nat \ {0} /\ Len(devices) < never
    BY LenProperties
  <1>2. \A i \in 1..Len(devices) : devices[i] \in D /\ devices[i] \in ToSet(devices)
    <2>1. DOMAIN devices = 1..Len(devices) /\ \A i \in 1..Len(devices) : devices[i] \in D
      BY LenProperties, ElementOfSeq
    <2> QED
      BY <2>1, Zenon DEF ToSet
  <1>3. \A info : Match(opts, info) <=> Wanted(options, info)
    BY MatchIsWanted, Zenon
  <1> HIDE DEF never, opts
  <1>4. Found(Linux(options, never, devices, TRUE)) = InfosOf(Select(devices, wanted))
    <2> DEFINE e == Enumerate("linux", opts, never, devices)
    <2>1. e \in IteratorStates(D) /\ FoundOf(D, e) = InfosOf(Select(devices, WantedOf(D, opts)))
      <3>1. "linux" \in {"linux", "darwin"}
        OBVIOUS
      <3> QED
        BY <1>1, <3>1, AllFound, Zenon
    <2>2. Found(e) = FoundOf(D, e)
      BY <2>1, FoundSame, Zenon
    <2>3. \A i \in 1..Len(devices) : devices[i] \in WantedOf(D, opts) <=> devices[i] \in wanted
      BY <1>2, <1>3, Zenon DEF WantedOf
    <2>4. Select(devices, WantedOf(D, opts)) = Select(devices, wanted)
      BY <2>3, SelectSame
    <2>5. Linux(options, never, devices, TRUE) = e
      BY Zenon DEF Linux, opts
    <2> QED
      BY <2>1, <2>2, <2>4, <2>5, Zenon
  <1>5. IsPrefix(Found(Windows(options, never, devices, TRUE)),
                 InfosOf(Select(devices, {d \in wanted : d.usable})))
    <2> DEFINE e == Enumerate("windows", opts, never, devices)
               W == {d \in WantedOf(D, opts) : d.usable}
               U == {d \in wanted : d.usable}
    <2>1. IsPrefix(FoundOf(D, e), InfosOf(Select(devices, W)))
      BY <1>1, PrefixFound, Zenon
    <2>2. Found(e) = FoundOf(D, e)
      <3>1. "windows" \in Platforms
        BY DEF Platforms
      <3>2. IteratorInv(e, D, never)
        BY <1>1, <3>1, RoundsHold, Zenon
      <3> QED
        BY <3>2, FoundSame, Zenon DEF IteratorInv
    <2>3. \A i \in 1..Len(devices) : devices[i] \in W <=> devices[i] \in U
      BY <1>2, <1>3, Zenon DEF WantedOf
    <2>4. Select(devices, W) = Select(devices, U)
      <3> HIDE DEF W, U
      <3> QED
        BY <2>3, SelectSame
    <2>5. Windows(options, never, devices, TRUE) = e
      BY Zenon DEF Windows, opts
    <2> QED
      BY <2>1, <2>2, <2>4, <2>5, Zenon
  <1> QED
    BY <1>4, <1>5, Zenon DEF FindsWhatIsWanted, never, InfosOf

(***************************************************************************)
(* The dictionary for IOKit loses no device that is wanted, and what it    *)
(* cannot hold is matched afterwards (hid_darwin.go:140, :502).            *)
(***************************************************************************)
THEOREM DictionaryIsSound ==
  ASSUME NEW options, NEW D, NEW devices \in Seq(D)
  PROVE  DictionaryLosesNothing(options, devices)
  <1> DEFINE opts == NewEnumerateOptions(options)
             never == Len(devices) + 1
  <1> SUFFICES ASSUME NEW made \in BOOLEAN
               PROVE  Found(Darwin(options, never, devices, TRUE, made))
                        = Found(Linux(options, never, devices, TRUE))
    BY Zenon DEF DictionaryLosesNothing
  <1> DEFINE matching == DeviceMatching(opts, made)
             held == {d \in ToSet(devices) :
                        \A f \in DOMAIN matching : f \in MatchFields /\ d.info[f] = matching[f]}
             ds == Select(devices, held)
             e == Enumerate("darwin", opts, never, ds)
             l == Enumerate("linux", opts, never, devices)
  <1>1. ds \in Seq(D) /\ Len(ds) <= Len(devices)
    BY SelectBounded, Zenon
  <1>2. never \in Nat \ {0} /\ Len(devices) < never /\ Len(ds) < never
    <2>1. Len(devices) \in Nat /\ Len(ds) \in Nat
      BY <1>1, LenProperties
    <2> QED
      BY <1>1, <2>1
  <1>3. \A i \in 1..Len(devices) : devices[i] \in WantedOf(D, opts) => devices[i] \in held
    <2>1. DOMAIN devices = 1..Len(devices) /\ \A i \in 1..Len(devices) : devices[i] \in D
      BY LenProperties, ElementOfSeq
    <2>2. \A f \in DOMAIN matching : /\ f \in DOMAIN opts /\ f \in MatchFields
                                     /\ matching[f] = opts[f]
      <3>1. CASE ~made
        <4>1. matching = <<>> /\ DOMAIN <<>> = {}
          BY <3>1 DEF DeviceMatching
        <4> QED
          BY <4>1
      <3>2. CASE made
        <4>1. matching = [f \in DOMAIN opts \intersect MatchFields |-> opts[f]]
          BY <3>2, Zenon DEF DeviceMatching
        <4> QED
          BY <4>1
      <3> QED
        BY <3>1, <3>2
    <2> HIDE DEF matching, opts
    <2>3. \A d \in ToSet(devices) : Match(opts, d.info) => d \in held
      BY <2>2 DEF Match
    <2>4. \A i \in 1..Len(devices) : devices[i] \in ToSet(devices)
      BY <2>1, Zenon DEF ToSet
    <2> QED
      BY <2>3, <2>4, Zenon DEF WantedOf
  <1> HIDE DEF held
  <1>4. Select(ds, WantedOf(D, opts)) = Select(devices, WantedOf(D, opts))
    BY <1>3, SelectTwice, Zenon
  <1> HIDE DEF ds, never, opts
  <1>5. e \in IteratorStates(D) /\ FoundOf(D, e) = InfosOf(Select(ds, WantedOf(D, opts)))
    BY <1>1, <1>2, AllFound
  <1>6. l \in IteratorStates(D) /\ FoundOf(D, l) = InfosOf(Select(devices, WantedOf(D, opts)))
    BY <1>2, AllFound
  <1>7. Found(e) = FoundOf(D, e) /\ Found(l) = FoundOf(D, l)
    BY <1>5, <1>6, FoundSame, Zenon
  <1>8. ~e.failed
    <2>1. "darwin" \in Platforms
      BY DEF Platforms
    <2>2. IteratorInv(e, D, never)
      BY <1>1, <1>2, <2>1, RoundsHold, Zenon
    <2> QED
      BY <2>2, Zenon DEF IteratorInv
  <1>9. Darwin(options, never, devices, TRUE, made) = e
    BY <1>8, Zenon DEF Darwin, CopyDevices, ds, held, opts
  <1>10. Linux(options, never, devices, TRUE) = l
    BY Zenon DEF Linux, opts
  <1> QED
    BY <1>4, <1>5, <1>6, <1>7, <1>9, <1>10, Zenon DEF opts

-----------------------------------------------------------------------------
(* Loops of the parser                                                     *)

\* f[k] encodes the first k items.
IsEncoding(f, items) ==
  /\ f[0] = <<>>
  /\ \A k \in 1..Len(items) : f[k] = f[k - 1] \o Encode(items[k])

\* The values after one more item.
WithValue(values, x) == IF Kept(x.tag) THEN Append(values, <<x.tag, Value(x)>>) ELSE values

\* v[k] are the values of the first k items.
IsValues(v, items) ==
  /\ v[0] = <<>>
  /\ \A k \in 1..Len(items) : v[k] = WithValue(v[k - 1], items[k])

\* p[k] is what the parser of b has after k rounds.
IsParse(p, b) == p[0] = ParseBegin /\ \A k \in 1..Len(b) : p[k] = ParseRound(b, p[k - 1])

\* u[k] is the field of the tag after the first k values.
IsField(u, values, tag) ==
  /\ u[0] = 0
  /\ \A k \in 1..Len(values) :
       u[k] = IF values[k][1] = tag /\ u[k - 1] = 0 THEN values[k][2][1] ELSE u[k - 1]

\* A descriptor, an item after the other.
LEMMA EncodeLoop ==
  ASSUME NEW S, NEW items \in Seq(S)
  PROVE  \E f : IsEncoding(f, items) /\ EncodeAll(items) = f[Len(items)]
  <1>1. PICK n \in Nat : n = Len(items)
    BY LenProperties
  <1> DEFINE Loop(f, m) == f = [k \in 0..m |-> IF k = 0 THEN <<>>
                                              ELSE f[k - 1] \o Encode(items[k])]
             C == {m \in 0..n : \E f : Loop(f, m)}
  <1>2. 0 \in C
    <2> DEFINE f == [k \in 0..0 |-> <<>>]
    <2>1. 0 \in 0..n /\ \A k \in 0..0 : k = 0
      OBVIOUS
    <2>2. Loop(f, 0)
      BY <2>1, Zenon
    <2> QED
      BY <2>1, <2>2, Zenon
  <1>3. ASSUME NEW m \in 1..n, m - 1 \in C
        PROVE  m \in C
    <2>1. PICK f : Loop(f, m - 1)
      BY <1>3, Zenon
    <2> DEFINE g == [k \in 0..m |-> IF k = 0 THEN <<>>
                                    ELSE f[k - 1] \o Encode(items[k])]
    <2>2. /\ m \in 0..n /\ \A k \in 0..(m - 1) : k \in 0..m
          /\ \A k \in 0..m : k = 0 \/ k - 1 \in 0..(m - 1)
      OBVIOUS
    <2>3. \A k \in 0..(m - 1) : g[k] = f[k]
      BY <2>1, <2>2, Zenon
    <2>4. Loop(g, m)
      BY <2>2, <2>3, Zenon
    <2> QED
      BY <2>2, <2>4, Zenon
  <1>4. \E f : Loop(f, n)
    <2>1. \A m \in 0..n : m \in C
      <3> HIDE DEF C
      <3> QED
        BY <1>2, <1>3, CountInduction, Zenon
    <2>2. n \in 0..n
      OBVIOUS
    <2> QED
      BY <2>1, <2>2, Zenon
  <1> DEFINE chosen == CHOOSE f : Loop(f, n)
  <1>5. Loop(chosen, n)
    BY <1>4, Zenon
  <1>6. EncodeAll(items) = chosen[n]
    BY <1>1, Zenon DEF EncodeAll
  <1> HIDE DEF chosen
  <1>7. 0 \in 0..n /\ \A k \in 1..n : k \in 0..n /\ k # 0
    OBVIOUS
  <1> QED
    BY <1>1, <1>5, <1>6, <1>7, Zenon DEF IsEncoding

\* The values that are kept of the items.
LEMMA ValueLoop ==
  ASSUME NEW S, NEW items \in Seq(S)
  PROVE  \E f : IsValues(f, items) /\ Values(items) = f[Len(items)]
  <1>1. PICK n \in Nat : n = Len(items)
    BY LenProperties
  <1> DEFINE Loop(f, m) == f = [k \in 0..m |-> IF k = 0 THEN <<>>
                                              ELSE WithValue(f[k - 1], items[k])]
             C == {m \in 0..n : \E f : Loop(f, m)}
  <1>2. 0 \in C
    <2> DEFINE f == [k \in 0..0 |-> <<>>]
    <2>1. 0 \in 0..n /\ \A k \in 0..0 : k = 0
      OBVIOUS
    <2>2. Loop(f, 0)
      BY <2>1, Zenon
    <2> QED
      BY <2>1, <2>2, Zenon
  <1>3. ASSUME NEW m \in 1..n, m - 1 \in C
        PROVE  m \in C
    <2>1. PICK f : Loop(f, m - 1)
      BY <1>3, Zenon
    <2> DEFINE g == [k \in 0..m |-> IF k = 0 THEN <<>>
                                    ELSE WithValue(f[k - 1], items[k])]
    <2>2. /\ m \in 0..n /\ \A k \in 0..(m - 1) : k \in 0..m
          /\ \A k \in 0..m : k = 0 \/ k - 1 \in 0..(m - 1)
      OBVIOUS
    <2>3. \A k \in 0..(m - 1) : g[k] = f[k]
      BY <2>1, <2>2, Zenon
    <2>4. Loop(g, m)
      BY <2>2, <2>3, Zenon
    <2> QED
      BY <2>2, <2>4, Zenon
  <1>4. \E f : Loop(f, n)
    <2>1. \A m \in 0..n : m \in C
      <3> HIDE DEF C
      <3> QED
        BY <1>2, <1>3, CountInduction, Zenon
    <2>2. n \in 0..n
      OBVIOUS
    <2> QED
      BY <2>1, <2>2, Zenon
  <1> DEFINE chosen == CHOOSE f : Loop(f, n)
  <1>5. Loop(chosen, n)
    BY <1>4, Zenon
  <1>6. Values(items) = chosen[n]
    BY <1>1, Zenon DEF Values, WithValue
  <1> HIDE DEF chosen
  <1>7. 0 \in 0..n /\ \A k \in 1..n : k \in 0..n /\ k # 0
    OBVIOUS
  <1> QED
    BY <1>1, <1>5, <1>6, <1>7, Zenon DEF IsValues

\* The rounds of ParseReport.
LEMMA ParseLoop ==
  ASSUME NEW S, NEW b \in Seq(S)
  PROVE  \E f : IsParse(f, b) /\ ParseReport(b) = f[Len(b)]
  <1>1. PICK n \in Nat : n = Len(b)
    BY LenProperties
  <1> DEFINE Loop(f, m) == f = [k \in 0..m |-> IF k = 0 THEN ParseBegin
                                              ELSE ParseRound(b, f[k - 1])]
             C == {m \in 0..n : \E f : Loop(f, m)}
  <1>2. 0 \in C
    <2> DEFINE f == [k \in 0..0 |-> ParseBegin]
    <2>1. 0 \in 0..n /\ \A k \in 0..0 : k = 0
      OBVIOUS
    <2>2. Loop(f, 0)
      BY <2>1, Zenon
    <2> QED
      BY <2>1, <2>2, Zenon
  <1>3. ASSUME NEW m \in 1..n, m - 1 \in C
        PROVE  m \in C
    <2>1. PICK f : Loop(f, m - 1)
      BY <1>3, Zenon
    <2> DEFINE g == [k \in 0..m |-> IF k = 0 THEN ParseBegin
                                    ELSE ParseRound(b, f[k - 1])]
    <2>2. /\ m \in 0..n /\ \A k \in 0..(m - 1) : k \in 0..m
          /\ \A k \in 0..m : k = 0 \/ k - 1 \in 0..(m - 1)
      OBVIOUS
    <2>3. \A k \in 0..(m - 1) : g[k] = f[k]
      BY <2>1, <2>2, Zenon
    <2>4. Loop(g, m)
      BY <2>2, <2>3, Zenon
    <2> QED
      BY <2>2, <2>4, Zenon
  <1>4. \E f : Loop(f, n)
    <2>1. \A m \in 0..n : m \in C
      <3> HIDE DEF C
      <3> QED
        BY <1>2, <1>3, CountInduction, Zenon
    <2>2. n \in 0..n
      OBVIOUS
    <2> QED
      BY <2>1, <2>2, Zenon
  <1> DEFINE chosen == CHOOSE f : Loop(f, n)
  <1>5. Loop(chosen, n)
    BY <1>4, Zenon
  <1>6. ParseReport(b) = chosen[n]
    BY <1>1, Zenon DEF ParseReport
  <1> HIDE DEF chosen
  <1>7. 0 \in 0..n /\ \A k \in 1..n : k \in 0..n /\ k # 0
    OBVIOUS
  <1> QED
    BY <1>1, <1>5, <1>6, <1>7, Zenon DEF IsParse

\* A field of DeviceInfo after each item.
LEMMA FieldLoop ==
  ASSUME NEW S, NEW items \in Seq(S), NEW tag
  PROVE  \E f : IsField(f, items, tag) /\ FirstNonzero(items, tag) = f[Len(items)]
  <1>1. PICK n \in Nat : n = Len(items)
    BY LenProperties
  <1> DEFINE Loop(f, m) == f = [k \in 0..m |-> IF k = 0 THEN 0
                                              ELSE IF items[k][1] = tag /\ f[k - 1] = 0
                                                   THEN items[k][2][1] ELSE f[k - 1]]
             C == {m \in 0..n : \E f : Loop(f, m)}
  <1>2. 0 \in C
    <2> DEFINE f == [k \in 0..0 |-> 0]
    <2>1. 0 \in 0..n /\ \A k \in 0..0 : k = 0
      OBVIOUS
    <2>2. Loop(f, 0)
      BY <2>1, Zenon
    <2> QED
      BY <2>1, <2>2, Zenon
  <1>3. ASSUME NEW m \in 1..n, m - 1 \in C
        PROVE  m \in C
    <2>1. PICK f : Loop(f, m - 1)
      BY <1>3, Zenon
    <2> DEFINE g == [k \in 0..m |-> IF k = 0 THEN 0
                                    ELSE IF items[k][1] = tag /\ f[k - 1] = 0
                                                   THEN items[k][2][1] ELSE f[k - 1]]
    <2>2. /\ m \in 0..n /\ \A k \in 0..(m - 1) : k \in 0..m
          /\ \A k \in 0..m : k = 0 \/ k - 1 \in 0..(m - 1)
      OBVIOUS
    <2>3. \A k \in 0..(m - 1) : g[k] = f[k]
      BY <2>1, <2>2, Zenon
    <2>4. Loop(g, m)
      BY <2>2, <2>3, Zenon
    <2> QED
      BY <2>2, <2>4, Zenon
  <1>4. \E f : Loop(f, n)
    <2>1. \A m \in 0..n : m \in C
      <3> HIDE DEF C
      <3> QED
        BY <1>2, <1>3, CountInduction, Zenon
    <2>2. n \in 0..n
      OBVIOUS
    <2> QED
      BY <2>1, <2>2, Zenon
  <1> DEFINE chosen == CHOOSE f : Loop(f, n)
  <1>5. Loop(chosen, n)
    BY <1>4, Zenon
  <1>6. FirstNonzero(items, tag) = chosen[n]
    BY <1>1, Zenon DEF FirstNonzero
  <1> HIDE DEF chosen
  <1>7. 0 \in 0..n /\ \A k \in 1..n : k \in 0..n /\ k # 0
    OBVIOUS
  <1> QED
    BY <1>1, <1>5, <1>6, <1>7, Zenon DEF IsField

-----------------------------------------------------------------------------
(* What a descriptor is made of                                            *)

\* An item in a descriptor: the byte in front of its data says what it is.
LEMMA EncodeForm ==
  ASSUME NEW x, IsItem(x)
  PROVE  /\ Encode(x) \in Seq(Nat) /\ Len(x.data) \in Nat
         /\ Len(Encode(x)) = Len(x.data) + 1
         /\ Encode(x)[1] \in Nat /\ Encode(x)[1] \div 4 = x.tag
         /\ DataBytes(Encode(x)[1] % 4) = Len(x.data) /\ Encode(x)[1] % 4 \in 0..3
         /\ \A i \in 1..Len(x.data) : Encode(x)[i + 1] = x.data[i]
  <1> DEFINE code == IF Len(x.data) = 4 THEN 3 ELSE Len(x.data)
  <1>1. x.tag \in Nat /\ x.data \in Seq(Nat) /\ Len(x.data) \in {0, 1, 2, 4}
    BY DEF IsItem
  <1>2. code \in 0..3 /\ DataBytes(code) = Len(x.data)
    <2>1. \A n \in {0, 1, 2, 4} :
            LET c == IF n = 4 THEN 3 ELSE n IN c \in 0..3 /\ (IF c = 3 THEN 4 ELSE c) = n
      OBVIOUS
    <2> QED
      BY <1>1, <2>1, Zenon DEF DataBytes
  <1> HIDE DEF code
  <1>3. \A t \in Nat : \A c \in 0..3 :
          4 * t + c \in Nat /\ (4 * t + c) \div 4 = t /\ (4 * t + c) % 4 = c
    OBVIOUS
  <1>4. Encode(x) = <<4 * x.tag + code>> \o x.data
    BY DEF Encode, code
  <1> DEFINE head == 4 * x.tag + code
  <1>5. head \in Nat /\ head \div 4 = x.tag /\ head % 4 = code
    BY <1>1, <1>2, <1>3
  <1>6. Encode(x) = <<head>> \o x.data
    BY <1>4
  <1> HIDE DEF head
  <1>7. /\ <<head>> \o x.data \in Seq(Nat) /\ Len(<<head>> \o x.data) = Len(x.data) + 1
        /\ Len(x.data) \in Nat /\ (<<head>> \o x.data)[1] = head
        /\ \A i \in 2..(Len(x.data) + 1) : (<<head>> \o x.data)[i] = x.data[i - 1]
    BY <1>1, <1>5, ConsForm
  <1>8. \A i \in 1..Len(x.data) : i + 1 \in 2..(Len(x.data) + 1) /\ (i + 1) - 1 = i
    BY <1>7
  <1>9. \A i \in 1..Len(x.data) : Encode(x)[i + 1] = x.data[i]
    BY <1>6, <1>7, <1>8
  <1> QED
    BY <1>2, <1>5, <1>6, <1>7, <1>9

\* A sequence and another behind it.
LEMMA ConcatForm ==
  ASSUME NEW s \in Seq(Nat), NEW t \in Seq(Nat)
  PROVE  /\ s \o t \in Seq(Nat) /\ Len(s) \in Nat /\ Len(t) \in Nat
         /\ Len(s \o t) = Len(s) + Len(t)
         /\ \A i \in 1..Len(s) : (s \o t)[i] = s[i]
         /\ \A i \in 1..Len(t) : (s \o t)[Len(s) + i] = t[i]
  BY LenProperties, ConcatProperties

\* What lies within a sequence lies within a longer one.
LEMMA WithinLonger ==
  \A p, q, r, a \in Nat : q = p + 1 + r /\ q <= a => \A i \in 1..(r + 1) : p + i \in 1..a
  OBVIOUS

\* The items lie one behind the other.
Laid(items, n, f) ==
  \A m \in 0..n :
    /\ Len(f[m]) \in Nat /\ m <= Len(f[m])
    /\ \A k \in 1..m :
         /\ Len(f[k]) = Len(f[k - 1]) + 1 + Len(items[k].data) /\ Len(f[k]) <= Len(f[m])
         /\ \A i \in 1..Len(Encode(items[k])) : f[m][Len(f[k - 1]) + i] = Encode(items[k])[i]

\* Item k stands at its place in the whole.
LEMMA Places ==
  ASSUME NEW items, Len(items) \in Nat, \A k \in 1..Len(items) : IsItem(items[k]),
         NEW f, IsEncoding(f, items)
  PROVE  Laid(items, Len(items), f) /\ \A m \in 0..Len(items) : f[m] \in Seq(Nat)
  <1> DEFINE n == Len(items)
             Placed(m, k) ==
                /\ Len(f[k - 1]) \in Nat /\ Len(f[k]) = Len(f[k - 1]) + 1 + Len(items[k].data)
                /\ Len(f[k]) <= Len(f[m])
                /\ \A i \in 1..Len(Encode(items[k])) :
                     f[m][Len(f[k - 1]) + i] = Encode(items[k])[i]
             Right(m) == /\ f[m] \in Seq(Nat) /\ Len(f[m]) \in Nat /\ m <= Len(f[m])
                         /\ \A k \in 1..m : Placed(m, k)
             C == {m \in 0..n : Right(m)}
  <1>1. 0 \in C
    <2>1. <<>> \in Seq(Nat) /\ Len(<<>>) = 0 /\ 0 \in Nat /\ 0 <= 0 /\ 0 \in 0..n
      BY EmptySeq
    <2>2. \A k \in 1..0 : FALSE
      OBVIOUS
    <2> QED
      BY <2>1, <2>2, Zenon DEF IsEncoding
  <1>2. ASSUME NEW m \in 1..n, m - 1 \in C
        PROVE  m \in C
    <2> DEFINE old == f[m - 1]
               new == Encode(items[m])
    <2>1. old \in Seq(Nat) /\ Len(old) \in Nat /\ m - 1 <= Len(old) /\ Right(m - 1)
      BY <1>2, Zenon
    <2>2. new \in Seq(Nat) /\ Len(items[m].data) \in Nat /\ Len(new) = Len(items[m].data) + 1
      BY EncodeForm, Zenon
    <2>3. f[m] = old \o new
      BY Zenon DEF IsEncoding
    <2>0. PICK a, b, l \in Nat : a = Len(old) /\ b = Len(new) /\ l = Len(items[m].data)
      BY <2>1, <2>2, LenProperties
    <2> HIDE DEF old, new
    <2>4. /\ f[m] \in Seq(Nat) /\ Len(f[m]) = Len(old) + Len(new)
          /\ \A i \in 1..Len(old) : f[m][i] = old[i]
          /\ \A i \in 1..Len(new) : f[m][Len(old) + i] = new[i]
      <3>1. old \in Seq(Nat) /\ new \in Seq(Nat)
        BY <2>1, <2>2
      <3>2. /\ old \o new \in Seq(Nat) /\ Len(old \o new) = Len(old) + Len(new)
            /\ \A i \in 1..Len(old) : (old \o new)[i] = old[i]
            /\ \A i \in 1..Len(new) : (old \o new)[Len(old) + i] = new[i]
        BY <3>1, ConcatForm, Zenon
      <3> QED
        BY <2>3, <3>2, Zenon
    <2>5. PICK c \in Nat : c = Len(f[m]) /\ c = a + b /\ b = l + 1 /\ m - 1 <= a
      <3>1. a + b \in Nat
        OBVIOUS
      <3> QED
        BY <2>0, <2>1, <2>2, <2>4, <3>1, Zenon
    <2>6. /\ Len(f[m]) \in Nat /\ m <= Len(f[m]) /\ Len(old) <= Len(f[m])
          /\ Len(f[m]) = Len(old) + 1 + Len(items[m].data) /\ Len(f[m]) <= Len(f[m])
      <3>1. m <= c /\ a <= c /\ c = a + 1 + l /\ c <= c
        BY <2>5
      <3> QED
        BY <2>0, <2>5, <3>1, Zenon
    <2>7. Placed(m, m)
      BY <2>1, <2>4, <2>6, Zenon DEF old, new
    <2>8. ASSUME NEW k \in 1..(m - 1)
          PROVE  Placed(m, k)
      <3>1. Placed(m - 1, k)
        BY <2>1, Zenon
      <3> DEFINE e == Encode(items[k])
      <3>2. IsItem(items[k])
        <4>1. k \in 1..n
          OBVIOUS
        <4> QED
          BY <4>1, Zenon
      <3>3. Len(e) = Len(items[k].data) + 1 /\ Len(items[k].data) \in Nat
        BY <3>2, EncodeForm
      <3> HIDE DEF e
      <3>4. /\ Len(f[k - 1]) \in Nat /\ Len(f[k]) = Len(f[k - 1]) + 1 + Len(items[k].data)
            /\ Len(f[k]) <= Len(old)
            /\ \A i \in 1..Len(e) : old[Len(f[k - 1]) + i] = e[i]
        BY <3>1, Zenon DEF e, old
      <3>0. PICK p, q, r \in Nat :
               /\ p = Len(f[k - 1]) /\ r = Len(items[k].data) /\ q = Len(f[k])
               /\ q = p + 1 + r /\ q <= a
        <4>1. \A u, v \in Nat : u + 1 + v \in Nat
          OBVIOUS
        <4> QED
          BY <2>0, <3>3, <3>4, <4>1, Zenon
      <3>5. Len(f[k]) <= Len(f[m])
        <4>1. c = a + b /\ q <= a
          BY <2>5, <3>0, Zenon
        <4>2. \A u, v, w \in Nat : u <= v => u <= v + w
          OBVIOUS
        <4>3. q <= c
          BY <4>1, <4>2, Zenon
        <4> QED
          BY <2>5, <3>0, <4>3, Zenon
      <3>6. \A i \in 1..Len(e) : f[m][Len(f[k - 1]) + i] = e[i]
        <4> TAKE i \in 1..Len(e)
        <4>1. i \in 1..(r + 1)
          BY <3>0, <3>3, Zenon
        <4>2. p + i \in 1..a
          BY <3>0, <4>1, WithinLonger, Zenon
        <4>3. Len(f[k - 1]) + i \in 1..Len(old)
          BY <2>0, <3>0, <4>2, Zenon
        <4> QED
          BY <2>4, <3>4, <4>3, Zenon
      <3> QED
        BY <3>4, <3>5, <3>6, Zenon DEF e
    <2>9. \A k \in 1..m : k = m \/ k \in 1..(m - 1)
      OBVIOUS
    <2>10. \A k \in 1..m : Placed(m, k)
      BY <2>7, <2>8, <2>9, Zenon
    <2>11. m \in 0..n
      OBVIOUS
    <2> QED
      BY <2>4, <2>6, <2>10, <2>11, Zenon
  <1>3. \A m \in 0..n : m \in C
    <2> HIDE DEF C
    <2> QED
      BY <1>1, <1>2, CountInduction, Zenon
  <1> QED
    BY <1>3, Zenon DEF Laid

-----------------------------------------------------------------------------
(* What a round reads                                                      *)

\* Byte i of the data of an item, or zero.
DataAt(x, i) == IF i <= Len(x.data) THEN x.data[i] ELSE 0

\* b holds the data of x behind its byte i, as far as it goes.
Holds(b, i, x) == \A j \in 1..Len(x.data) : i + j <= Len(b) => b[i + j] = x.data[j]

\* The data of an item as one number.
LEMMA UintForm ==
  ASSUME NEW x, IsItem(x), NEW b, NEW i \in Nat, NEW size \in 0..3, DataBytes(size) = Len(x.data),
         \A j \in 1..Len(x.data) : b[i + j] = x.data[j]
  PROVE  ParseUintValue(size, b, i + 1)
           = <<DataAt(x, 1) + 256 * DataAt(x, 2), DataAt(x, 3) + 256 * DataAt(x, 4)>>
  <1>1. x.data \in Seq(Nat) /\ Len(x.data) \in {0, 1, 2, 4}
    BY DEF IsItem
  <1>2. \A j \in 1..Len(x.data) : x.data[j] \in Nat
    BY <1>1, ElementOfSeq
  <1>3. (i + 1) + 1 = i + 2 /\ (i + 1) + 2 = i + 3 /\ (i + 1) + 3 = i + 4
    OBVIOUS
  <1>4. \A v \in Nat : v + 256 * 0 = v /\ 0 + 256 * 0 = 0
    OBVIOUS
  <1>5. CASE size = 0
    <2>1. Len(x.data) = 0
      BY <1>5 DEF DataBytes
    <2>2. DataAt(x, 1) = 0 /\ DataAt(x, 2) = 0 /\ DataAt(x, 3) = 0 /\ DataAt(x, 4) = 0
      BY <2>1 DEF DataAt
    <2>3. ParseUintValue(size, b, i + 1) = <<0, 0>>
      BY <1>5 DEF ParseUintValue
    <2> QED
      BY <1>4, <2>2, <2>3
  <1>6. CASE size = 1
    <2>1. Len(x.data) = 1
      BY <1>6 DEF DataBytes
    <2>2. /\ DataAt(x, 1) = b[i + 1] /\ DataAt(x, 2) = 0 /\ DataAt(x, 3) = 0 /\ DataAt(x, 4) = 0
          /\ b[i + 1] \in Nat
      BY <1>2, <2>1 DEF DataAt
    <2>3. ParseUintValue(size, b, i + 1) = <<b[i + 1], 0>>
      BY <1>6 DEF ParseUintValue
    <2> QED
      BY <1>4, <2>2, <2>3
  <1>7. CASE size = 2
    <2>1. Len(x.data) = 2
      BY <1>7 DEF DataBytes
    <2>2. /\ DataAt(x, 1) = b[i + 1] /\ DataAt(x, 2) = b[i + 2]
          /\ DataAt(x, 3) = 0 /\ DataAt(x, 4) = 0
      BY <1>2, <2>1 DEF DataAt
    <2>3. ParseUintValue(size, b, i + 1) = <<b[i + 1] + 256 * b[(i + 1) + 1], 0>>
      BY <1>7 DEF ParseUintValue
    <2> QED
      BY <1>3, <1>4, <2>2, <2>3
  <1>8. CASE size = 3
    <2>1. Len(x.data) = 4
      BY <1>8 DEF DataBytes
    <2>2. /\ DataAt(x, 1) = b[i + 1] /\ DataAt(x, 2) = b[i + 2]
          /\ DataAt(x, 3) = b[i + 3] /\ DataAt(x, 4) = b[i + 4]
      BY <1>2, <2>1 DEF DataAt
    <2>3. ParseUintValue(size, b, i + 1)
            = <<b[i + 1] + 256 * b[(i + 1) + 1], b[(i + 1) + 2] + 256 * b[(i + 1) + 3]>>
      BY <1>8 DEF ParseUintValue
    <2> QED
      BY <1>3, <2>2, <2>3
  <1> QED
    BY <1>5, <1>6, <1>7, <1>8

\* Every tag is of one kind.
LEMMA TagKinds ==
  ASSUME NEW tag, Kept(tag)
  PROVE  \/ /\ tag \in WordTags /\ tag \notin HalfTags /\ tag \notin ByteTags
            /\ tag # MainEndCollection
         \/ /\ tag \in HalfTags /\ tag \notin WordTags /\ tag \notin ByteTags
            /\ tag # MainEndCollection
         \/ /\ tag \in ByteTags /\ tag \notin WordTags /\ tag \notin HalfTags
            /\ tag # MainEndCollection
         \/ /\ tag = MainEndCollection /\ tag \notin WordTags /\ tag \notin HalfTags
            /\ tag \notin ByteTags
  BY DEF Kept, WordTags, HalfTags, ByteTags, MainEndCollection, MainInput, MainOutput,
         MainFeature, GlobalLogicalMinimum, GlobalLogicalMaximum, GlobalUsagePage, LocalUsage,
         MainCollection, GlobalReportSize, GlobalReportID, GlobalReportCount

\* What is appended for an item, if the bytes it needs are there.
LEMMA ItemForm ==
  ASSUME NEW x, IsItem(x), Kept(x.tag), NEW b, NEW i \in Nat, Len(b) \in Nat, Holds(b, i, x),
         NEW size \in 0..3, DataBytes(size) = Len(x.data), i + Needs(x.tag, size) <= Len(b)
  PROVE  ItemAt(x.tag, size, b, i + 1) = <<x.tag, Value(x)>>
  <1>1. Value(x) = CASE x.tag \in WordTags -> <<DataAt(x, 1) + 256 * DataAt(x, 2),
                                                DataAt(x, 3) + 256 * DataAt(x, 4)>>
                     [] x.tag \in HalfTags -> <<DataAt(x, 1) + 256 * DataAt(x, 2), 0>>
                     [] x.tag \in ByteTags -> <<DataAt(x, 1), 0>>
                     [] OTHER -> <<0, 0>>
    BY DEF Value, DataAt
  <1>2. Len(x.data) \in Nat
    BY DEF IsItem
  <1> DEFINE uint == ParseUintValue(size, b, i + 1)
  <1>3. ASSUME x.tag \in WordTags \union HalfTags, x.tag \notin ByteTags
        PROVE  uint = <<DataAt(x, 1) + 256 * DataAt(x, 2), DataAt(x, 3) + 256 * DataAt(x, 4)>>
    <2>1. Needs(x.tag, size) = Len(x.data)
      BY <1>3, Zenon DEF Needs
    <2>2. \A j \in 1..Len(x.data) : i + j <= Len(b)
      BY <1>2, <2>1
    <2>3. \A j \in 1..Len(x.data) : b[i + j] = x.data[j]
      BY <2>2, Zenon DEF Holds
    <2> QED
      BY <2>3, UintForm, Zenon
  <1> HIDE DEF uint
  <1>4. CASE x.tag \in WordTags /\ x.tag \notin HalfTags /\ x.tag \notin ByteTags
             /\ x.tag # MainEndCollection
    BY <1>1, <1>3, <1>4 DEF ItemAt, uint
  <1>5. CASE x.tag \in HalfTags /\ x.tag \notin WordTags /\ x.tag \notin ByteTags
             /\ x.tag # MainEndCollection
    <2>1. uint[1] = DataAt(x, 1) + 256 * DataAt(x, 2)
      BY <1>3, <1>5
    <2> QED
      BY <1>1, <1>5, <2>1 DEF ItemAt, uint
  <1>6. CASE x.tag \in ByteTags /\ x.tag \notin WordTags /\ x.tag \notin HalfTags
             /\ x.tag # MainEndCollection
    <2>1. Len(x.data) >= 1
      <3>1. x.data \in Seq(Nat) /\ x.data # <<>>
        BY <1>6 DEF IsItem
      <3>2. Len(x.data) # 0
        BY <3>1, EmptySeq
      <3> QED
        BY <1>2, <3>2
    <2>2. Needs(x.tag, size) = 1
      BY <1>6 DEF Needs
    <2>3. b[i + 1] = x.data[1]
      <3>1. 1 \in 1..Len(x.data) /\ i + 1 <= Len(b)
        BY <1>2, <2>1, <2>2
      <3> QED
        BY <3>1, Zenon DEF Holds
    <2>4. DataAt(x, 1) = b[i + 1]
      BY <2>1, <2>3 DEF DataAt
    <2> QED
      BY <1>1, <1>6, <2>4 DEF ItemAt
  <1>7. CASE x.tag = MainEndCollection /\ x.tag \notin WordTags /\ x.tag \notin HalfTags
             /\ x.tag \notin ByteTags
    BY <1>1, <1>7 DEF ItemAt
  <1> QED
    BY <1>4, <1>5, <1>6, <1>7, TagKinds

\* From s to t the item x is taken, out of m bytes.
Takes(s, t, x, m) ==
  /\ t.ok => /\ t.i = s.i + 1 + Len(x.data) /\ t.items = WithValue(s.items, x)
  /\ s.i + Len(x.data) <= m => t.ok
  /\ t = Panic \/ t.ok

\* A round that is at an item panics or takes it; if the item is whole it does not panic.
LEMMA RoundTakes ==
  ASSUME NEW x, IsItem(x), NEW b, Len(b) \in Nat,
         NEW s, s.ok, s.i \in Nat, s.i <= Len(b), b[s.i] = Encode(x)[1], Holds(b, s.i, x)
  PROVE  Takes(s, ParseRound(b, s), x, Len(b))
  <1> DEFINE size == b[s.i] % 4
             tag == b[s.i] \div 4
             t == ParseRound(b, s)
  <1>1. tag = x.tag /\ size \in 0..3 /\ DataBytes(size) = Len(x.data) /\ Len(x.data) \in Nat
    BY EncodeForm
  <1>2. ~(s.i > Len(b))
    OBVIOUS
  <1>3. t = IF s.i + Needs(tag, size) > Len(b) THEN Panic ELSE ParseItem(b, s)
    BY <1>2, Zenon DEF ParseRound
  <1>4. Needs(tag, size) \in Nat /\ Needs(tag, size) <= Len(x.data)
    <2>1. CASE tag \in ByteTags
      <3>1. x.data \in Seq(Nat) /\ x.data # <<>>
        BY <1>1, <2>1 DEF IsItem
      <3>2. Len(x.data) # 0
        BY <3>1, EmptySeq
      <3>3. Needs(tag, size) = 1
        BY <2>1, Zenon DEF Needs
      <3> HIDE DEF size, tag
      <3> QED
        BY <1>1, <3>2, <3>3
    <2>2. CASE tag \notin ByteTags
      <3>1. Needs(tag, size) \in {0, Len(x.data)}
        BY <1>1, <2>2 DEF Needs
      <3> HIDE DEF size, tag
      <3> QED
        BY <1>1, <3>1
    <2> QED
      BY <2>1, <2>2
  <1>5. CASE s.i + Needs(tag, size) > Len(b)
    <2>1. t = Panic /\ ~(s.i + Len(x.data) <= Len(b))
      <3> HIDE DEF size, tag, t
      <3> QED
        BY <1>1, <1>3, <1>4, <1>5
    <2>2. ~t.ok
      BY <2>1 DEF Panic
    <2> QED
      BY <2>1, <2>2, Zenon DEF Takes
  <1>6. CASE ~(s.i + Needs(tag, size) > Len(b))
    <2>1. t = ParseItem(b, s)
      BY <1>3, <1>6, Zenon
    <2>2. s.i + Needs(x.tag, size) <= Len(b)
      <3> HIDE DEF size
      <3>1. s.i + Needs(x.tag, size) \in Nat
        BY <1>1, <1>4
      <3> QED
        BY <1>1, <1>6, <3>1
    <2>3. Kept(x.tag) => ItemAt(x.tag, size, b, s.i + 1) = <<x.tag, Value(x)>>
      <3> HIDE DEF size
      <3> QED
        BY <1>1, <2>2, ItemForm, Zenon
    <2>4. t = [ok |-> TRUE, i |-> s.i + 1 + DataBytes(size),
               items |-> IF Kept(tag) THEN Append(s.items, ItemAt(tag, size, b, s.i + 1))
                         ELSE s.items]
      BY <2>1, Zenon DEF ParseItem
    <2>5. /\ t.ok /\ t.i = s.i + 1 + DataBytes(size)
          /\ t.items = IF Kept(tag) THEN Append(s.items, ItemAt(tag, size, b, s.i + 1))
                       ELSE s.items
      <3> HIDE DEF size, tag, t
      <3> QED
        BY <2>4
    <2>6. t.items = WithValue(s.items, x)
      BY <1>1, <2>3, <2>5, Zenon DEF WithValue
    <2> QED
      BY <1>1, <2>5, <2>6, Zenon DEF Takes
  <1> QED
    BY <1>5, <1>6

-----------------------------------------------------------------------------
(* Where the rounds stand                                                  *)

\* After j items of n, of which f is the encoding and v the values.
Stands(s, f, v, j) == s.i = Len(f[j]) + 1 /\ s.items = v[j]

\* What the parser is given: the first m bytes of the encoding of n items.
IsCut(b, m, items, n, f) ==
  /\ n \in Nat /\ n = Len(items) /\ \A k \in 1..n : IsItem(items[k])
  /\ IsEncoding(f, items)
  /\ m \in Nat /\ m <= Len(f[n]) /\ Len(b) = m /\ \A i \in 1..m : b[i] = f[n][i]

\* They do in what the parser is given.
LEMMA ItemsLaid ==
  ASSUME NEW b, NEW m, NEW items, NEW n, NEW f, IsCut(b, m, items, n, f)
  PROVE  Laid(items, n, f)
  <1>1. /\ n = Len(items) /\ Len(items) \in Nat /\ IsEncoding(f, items)
        /\ \A k \in 1..Len(items) : IsItem(items[k])
    BY Zenon DEF IsCut
  <1>2. Laid(items, Len(items), f)
    BY <1>1, Places, Zenon
  <1> QED
    BY <1>1, <1>2, Zenon

\* What holds after one round more.
MovesOn(t, n, f, v, m, j) ==
  /\ j + 1 \in 1..n
  /\ t = Panic \/ t.ok
  /\ t.ok => Stands(t, f, v, j + 1)
  /\ m = Len(f[n]) => t.ok

\* A round that begins at an item ends at the next one, or panics if b is cut off.
LEMMA RoundPasses ==
  ASSUME NEW b, NEW m, NEW items, NEW n, NEW f, IsCut(b, m, items, n, f),
         NEW v, IsValues(v, items), NEW j \in 0..n, NEW s, s.ok, Stands(s, f, v, j), s.i <= m
  PROVE  MovesOn(ParseRound(b, s), n, f, v, m, j)
  <1> DEFINE t == ParseRound(b, s)
             x == items[j + 1]
  <1>0. /\ n \in Nat /\ m \in Nat /\ m <= Len(f[n]) /\ Len(b) = m
        /\ n = Len(items) /\ \A k \in 1..n : IsItem(items[k])
        /\ \A i \in 1..m : b[i] = f[n][i]
    BY Zenon DEF IsCut
  <1>1. Laid(items, n, f)
    BY ItemsLaid, Zenon
  <1>2. n \in 0..n /\ j \in Nat
    BY <1>0
  <1>3. PICK a, z \in Nat : a = Len(f[j]) /\ z = Len(f[n])
    BY <1>1, <1>2, Zenon DEF Laid
  <1>4. s.i = a + 1 /\ s.i \in Nat /\ a + 1 <= m /\ m <= z
    BY <1>0, <1>3 DEF Stands
  <1>5. j + 1 \in 1..n /\ (j + 1) - 1 = j /\ j + 1 \in 0..n
    <2>1. j # n
      BY <1>0, <1>3, <1>4
    <2> QED
      BY <1>0, <2>1
  <1>6. /\ IsItem(x) /\ Len(x.data) \in Nat /\ Len(Encode(x)) = Len(x.data) + 1
        /\ \A i \in 1..Len(x.data) : Encode(x)[i + 1] = x.data[i]
    <2>1. IsItem(x)
      BY <1>0, <1>5, Zenon
    <2> QED
      BY <2>1, EncodeForm
  <1>7. PICK l \in Nat : l = Len(x.data)
    BY <1>6
  <1> HIDE DEF x
  <1>8. /\ Len(f[j + 1]) = a + 1 + l /\ Len(f[j + 1]) <= z
        /\ \A i \in 1..(l + 1) : f[n][a + i] = Encode(x)[i]
    <2> DEFINE k == j + 1
    <2>1. k \in 1..n /\ k - 1 = j
      BY <1>5
    <2> HIDE DEF k
    <2>2. /\ Len(f[k]) = Len(f[k - 1]) + 1 + Len(items[k].data) /\ Len(f[k]) <= Len(f[n])
          /\ \A i \in 1..Len(Encode(items[k])) : f[n][Len(f[k - 1]) + i] = Encode(items[k])[i]
      BY <1>1, <1>2, <2>1, Zenon DEF Laid
    <2>3. x = items[k]
      BY DEF x, k
    <2>4. /\ Len(f[k]) = Len(f[j]) + 1 + Len(x.data) /\ Len(f[k]) <= Len(f[n])
          /\ \A i \in 1..Len(Encode(x)) : f[n][Len(f[j]) + i] = Encode(x)[i]
      BY <2>1, <2>2, <2>3, Zenon
    <2> QED
      BY <1>3, <1>6, <1>7, <2>4, Zenon DEF k
  <1>9. b[s.i] = Encode(x)[1]
    <2>1. a + 1 \in 1..m /\ 1 \in 1..(l + 1)
      BY <1>0, <1>4
    <2> QED
      BY <1>0, <1>4, <1>8, <2>1, Zenon
  <1>10. Holds(b, s.i, x)
    <2> SUFFICES ASSUME NEW i \in 1..l, s.i + i <= m
                 PROVE  b[s.i + i] = x.data[i]
      BY <1>0, <1>7, Zenon DEF Holds
    <2>1. s.i + i \in 1..m /\ s.i + i = a + (i + 1) /\ i + 1 \in 1..(l + 1)
      BY <1>0, <1>4
    <2>2. b[s.i + i] = f[n][a + (i + 1)] /\ f[n][a + (i + 1)] = Encode(x)[i + 1]
      BY <1>0, <1>8, <2>1, Zenon
    <2> QED
      BY <1>6, <1>7, <2>2, Zenon
  <1>11. /\ t.ok => t.i = s.i + 1 + l /\ t.items = WithValue(s.items, x)
         /\ s.i + l <= m => t.ok
         /\ t = Panic \/ t.ok
    <2>1. Len(b) \in Nat /\ s.i <= Len(b)
      BY <1>0, Zenon
    <2>2. Takes(s, t, x, Len(b))
      BY <1>4, <1>6, <1>9, <1>10, <2>1, RoundTakes, Zenon
    <2> HIDE DEF t
    <2> QED
      BY <1>0, <1>7, <2>2, Zenon DEF Takes
  <1>12. t.ok => Stands(t, f, v, j + 1)
    <2>1. v[j + 1] = WithValue(v[j], x)
      BY <1>0, <1>5, Zenon DEF IsValues, x
    <2>2. s.i + 1 + l = Len(f[j + 1]) + 1
      BY <1>4, <1>8
    <2> HIDE DEF t
    <2> QED
      BY <1>11, <2>1, <2>2, Zenon DEF Stands
  <1>13. m = z => s.i + l <= m
    <2>1. a + 1 + l <= z
      BY <1>8, Zenon
    <2> QED
      BY <1>4, <2>1
  <1> QED
    <2> HIDE DEF t
    <2>1. MovesOn(t, n, f, v, m, j)
      BY <1>3, <1>5, <1>11, <1>12, <1>13, Zenon DEF MovesOn
    <2> QED
      BY <2>1, Zenon DEF t

\* After k rounds: behind an item, for every round one further, or at the end.
IsBehind(s, n, f, v, m, k) ==
  /\ s = Panic \/ s.ok
  /\ s.ok => \E j \in 0..n : Stands(s, f, v, j) /\ (j >= k \/ s.i > m)
  /\ m = Len(f[n]) => s.ok

\* After every round the parser stands behind an item, or has panicked.
LEMMA RoundsPass ==
  ASSUME NEW b, NEW m, NEW items, NEW n, NEW f, IsCut(b, m, items, n, f),
         NEW v, IsValues(v, items), NEW p, IsParse(p, b)
  PROVE  \A k \in 0..m : IsBehind(p[k], n, f, v, m, k)
  <1> DEFINE Right(k) ==
               /\ p[k] = Panic \/ p[k].ok
               /\ p[k].ok => \E j \in 0..n : Stands(p[k], f, v, j) /\ (j >= k \/ p[k].i > m)
               /\ m = Len(f[n]) => p[k].ok
             C == {k \in 0..m : Right(k)}
  <1>0. /\ n \in Nat /\ m \in Nat /\ m <= Len(f[n]) /\ Len(b) = m /\ IsEncoding(f, items)
        /\ Laid(items, n, f)
    BY ItemsLaid, Zenon DEF IsCut
  <1>1. 0 \in C
    <2>1. p[0].ok /\ p[0].i = 1 /\ p[0].items = <<>>
      BY DEF IsParse, ParseBegin
    <2>2. 0 \in 0..m /\ 0 \in 0..n /\ 0 >= 0 /\ 1 = 0 + 1 /\ Len(<<>>) = 0
      BY <1>0
    <2>3. Stands(p[0], f, v, 0)
      BY <1>0, <2>1, <2>2, Zenon DEF Stands, IsEncoding, IsValues
    <2> QED
      BY <2>1, <2>2, <2>3, Zenon
  <1>2. ASSUME NEW k \in 1..m, k - 1 \in C
        PROVE  k \in C
    <2> DEFINE s == p[k - 1]
    <2>1. k \in 0..m /\ k \in 1..Len(b)
      BY <1>0
    <2>2. p[k] = ParseRound(b, s)
      BY <2>1, Zenon DEF IsParse
    <2>3. Right(k - 1)
      BY <1>2, Zenon
    <2> HIDE DEF s
    <2>4. CASE ~s.ok
      <3>1. p[k] = s
        BY <2>2, <2>4, Zenon DEF ParseRound
      <3>2. Right(k)
        BY <2>3, <2>4, <3>1, Zenon DEF s
      <3> QED
        BY <2>1, <3>2, Zenon
    <2>5. CASE s.ok /\ s.i > m
      <3>1. p[k] = s
        BY <1>0, <2>2, <2>5, Zenon DEF ParseRound
      <3>2. PICK j \in 0..n : Stands(s, f, v, j)
        BY <2>3, <2>5, Zenon DEF s
      <3>3. Right(k)
        BY <2>3, <2>5, <3>1, <3>2, Zenon DEF s
      <3> QED
        BY <2>1, <3>3, Zenon
    <2>6. CASE s.ok /\ ~(s.i > m)
      <3>1. PICK j \in 0..n : Stands(s, f, v, j) /\ j >= k - 1
        BY <2>3, <2>6, Zenon DEF s
      <3>2. s.i <= m
        <4>1. Len(f[j]) \in Nat
          BY <1>0, <3>1, Zenon DEF Laid
        <4>2. s.i \in Nat
          BY <3>1, <4>1 DEF Stands
        <4> QED
          BY <1>0, <2>6, <4>2
      <3>3. /\ j + 1 \in 1..n /\ (p[k] = Panic \/ p[k].ok)
            /\ p[k].ok => Stands(p[k], f, v, j + 1)
            /\ m = Len(f[n]) => p[k].ok
        <4>1. MovesOn(p[k], n, f, v, m, j)
          BY <2>2, <2>6, <3>1, <3>2, RoundPasses, Zenon
        <4> QED
          BY <4>1, Zenon DEF MovesOn
      <3>4. j + 1 \in 0..n /\ j + 1 >= k
        BY <1>0, <3>1, <3>3
      <3>5. Right(k)
        BY <3>3, <3>4, Zenon
      <3> QED
        BY <2>1, <3>5, Zenon
    <2> QED
      BY <2>4, <2>5, <2>6, Zenon
  <1>3. \A k \in 0..m : k \in C
    <2> HIDE DEF C
    <2> QED
      BY <1>0, <1>1, <1>2, CountInduction, Zenon
  <1> QED
    BY <1>3, Zenon DEF IsBehind

\* What the end of the parser says of the values.
Gives(parsed, v, n, whole) ==
  /\ parsed.ok => \E j \in 0..n : parsed.items = v[j]
  /\ whole => parsed.ok /\ parsed.items = v[n]

\* What the parser ends with: the values of some of the items, of all if b is whole.
LEMMA ParseEnds ==
  ASSUME NEW b, NEW m, NEW items, NEW n, NEW f, IsCut(b, m, items, n, f),
         NEW v, IsValues(v, items), NEW p, IsParse(p, b)
  PROVE  Gives(p[m], v, n, m = Len(f[n]))
  <1>0. /\ n \in Nat /\ m \in Nat /\ n = Len(items) /\ \A k \in 1..n : IsItem(items[k])
        /\ Laid(items, n, f)
    BY ItemsLaid, Zenon DEF IsCut
  <1>1. m \in 0..m /\ n \in 0..n
    BY <1>0
  <1>2. /\ p[m].ok => \E j \in 0..n : Stands(p[m], f, v, j) /\ (j >= m \/ p[m].i > m)
        /\ m = Len(f[n]) => p[m].ok
    <2>1. IsBehind(p[m], n, f, v, m, m)
      BY <1>1, RoundsPass, Zenon
    <2> QED
      BY <2>1, Zenon DEF IsBehind
  <1>3. p[m].ok => \E j \in 0..n : p[m].items = v[j]
    BY <1>2, Zenon DEF Stands
  <1>4. ASSUME m = Len(f[n])
        PROVE  p[m].items = v[n]
    <2>1. PICK j \in 0..n : Stands(p[m], f, v, j) /\ (j >= m \/ p[m].i > m)
      BY <1>2, <1>4, Zenon
    <2>2. /\ n <= m /\ Len(f[j]) \in Nat
          /\ \A q \in 1..n : /\ Len(f[q]) = Len(f[q - 1]) + 1 + Len(items[q].data)
                             /\ Len(f[q]) <= m
      BY <1>0, <1>1, <1>4, <2>1, Zenon DEF Laid
    <2>3. ~(j < n)
      <3> SUFFICES ASSUME j < n
                   PROVE  FALSE
        OBVIOUS
      <3>1. j + 1 \in 1..n /\ (j + 1) - 1 = j /\ ~(j >= m)
        BY <1>0, <2>2
      <3>2. Len(items[j + 1].data) \in Nat
        BY <1>0, <3>1, EncodeForm, Zenon
      <3>3. PICK a, l \in Nat : a = Len(f[j]) /\ l = Len(items[j + 1].data)
        BY <2>2, <3>2, Zenon
      <3>4. a + 1 + l <= m
        BY <2>2, <3>1, <3>3, Zenon
      <3>5. a + 1 > m
        BY <2>1, <3>1, <3>3, Zenon DEF Stands
      <3> QED
        BY <1>0, <3>4, <3>5
    <2>4. j = n
      BY <1>0, <2>3
    <2> QED
      BY <2>1, <2>4, Zenon DEF Stands
  <1> QED
    BY <1>2, <1>3, <1>4, Zenon DEF Gives

-----------------------------------------------------------------------------
(* Whole descriptors, and the beginnings of them                           *)

\* What the elements of a prefix are.
LEMMA PrefixElements ==
  ASSUME NEW S, NEW s \in Seq(S), NEW t \in Seq(S), IsPrefix(s, t)
  PROVE  Len(s) \in Nat /\ Len(t) \in Nat /\ Len(s) <= Len(t) /\ \A i \in 1..Len(s) : s[i] = t[i]
  <1>1. PICK n, m \in Nat : n = Len(s) /\ m = Len(t) /\ n <= m
    BY LenProperties DEF IsPrefix
  <1>2. n \in 0..Len(s) /\ n \in 0..Len(t)
    BY <1>1
  <1>3. /\ \A i \in 1..n : SubSeq(s, 1, n)[i] = s[i]
        /\ \A i \in 1..n : SubSeq(t, 1, n)[i] = t[i]
    BY <1>2, PrefixForm
  <1>4. SubSeq(s, 1, n) = SubSeq(t, 1, n)
    BY <1>1, Zenon DEF IsPrefix
  <1> QED
    BY <1>1, <1>3, <1>4

\* A sequence is a prefix of itself.
LEMMA PrefixSelf ==
  ASSUME NEW S, NEW s \in Seq(S)
  PROVE  IsPrefix(s, s)
  BY LenProperties DEF IsPrefix

\* The values of n items, of which each first k are a prefix.
AreValues(v, n, S) ==
  \A k \in 0..n : v[k] \in Seq(S) /\ \A j \in 0..k : IsPrefix(v[j], v[k])

\* Values are only added at the end.
LEMMA ValuesGrow ==
  ASSUME NEW items, NEW n \in Nat, n = Len(items), NEW v, IsValues(v, items),
         NEW S, \A k \in 1..n : <<items[k].tag, Value(items[k])>> \in S
  PROVE  AreValues(v, n, S)
  <1> DEFINE Right(k) == \A j \in 0..k : v[j] \in Seq(S) /\ IsPrefix(v[j], v[k])
             C == {k \in 0..n : Right(k)}
  <1>1. 0 \in C
    <2>1. 0 \in 0..n /\ <<>> \in Seq(S) /\ \A j \in 0..0 : j = 0
      OBVIOUS
    <2> QED
      BY <2>1, PrefixSelf, Zenon DEF IsValues
  <1>2. ASSUME NEW k \in 1..n, k - 1 \in C
        PROVE  k \in C
    <2> DEFINE x == items[k]
               old == v[k - 1]
               value == <<x.tag, Value(x)>>
    <2>1. k \in 0..n /\ \A j \in 0..k : j = k \/ j \in 0..(k - 1)
      OBVIOUS
    <2>2. Right(k - 1) /\ value \in S
      BY <1>2, Zenon
    <2>3. v[k] = IF Kept(x.tag) THEN Append(old, value) ELSE old
      BY Zenon DEF IsValues, WithValue
    <2>4. k - 1 \in 0..(k - 1)
      OBVIOUS
    <2> HIDE DEF old, value
    <2>5. Append(old, value) \in Seq(S)
      <3>1. old \in Seq(S)
        BY <2>2, <2>4, Zenon DEF old
      <3> QED
        BY <2>2, <3>1, AppendProperties
    <2>6. v[k] \in Seq(S)
      BY <2>2, <2>3, <2>4, <2>5, Zenon DEF old
    <2>7. \A j \in 0..(k - 1) : IsPrefix(v[j], v[k])
      <3> TAKE j \in 0..(k - 1)
      <3>1. IsPrefix(v[j], old) /\ v[j] \in Seq(S) /\ old \in Seq(S)
        BY <2>2, <2>4, Zenon DEF old
      <3>2. IsPrefix(v[j], Append(old, value))
        BY <2>2, <3>1, PrefixGrows, Zenon
      <3> QED
        BY <2>3, <3>1, <3>2, Zenon
    <2>8. IsPrefix(v[k], v[k])
      BY <2>6, PrefixSelf, Zenon
    <2>9. Right(k)
      BY <2>1, <2>2, <2>6, <2>7, <2>8, Zenon
    <2> QED
      BY <2>1, <2>9, Zenon
  <1>3. \A k \in 0..n : k \in C
    <2> HIDE DEF C
    <2> QED
      BY <1>1, <1>2, CountInduction, Zenon
  <1>4. \A k \in 0..n : k \in 0..k
    OBVIOUS
  <1> QED
    BY <1>3, <1>4, Zenon DEF AreValues

\* The encoding f and the values v of n items, values being in S.
IsRead(items, n, f, v, S) ==
  /\ n \in Nat /\ n = Len(items) /\ \A k \in 1..n : IsItem(items[k])
  /\ IsEncoding(f, items) /\ EncodeAll(items) = f[n] /\ f[n] \in Seq(Nat)
  /\ IsValues(v, items) /\ Values(items) = v[n] /\ AreValues(v, n, S)

\* What there is to know of the items of a descriptor.
LEMMA DescriptorForm ==
  ASSUME NEW I, \A x \in I : IsItem(x), NEW items \in Seq(I)
  PROVE  \E n, f, v, S : IsRead(items, n, f, v, S)
  <1>1. PICK n \in Nat : n = Len(items) /\ \A k \in 1..n : IsItem(items[k])
    <2>1. Len(items) \in Nat /\ \A k \in 1..Len(items) : items[k] \in I
      BY LenProperties, ElementOfSeq
    <2> QED
      BY <2>1, Zenon
  <1>2. PICK f : IsEncoding(f, items) /\ EncodeAll(items) = f[n]
    BY <1>1, EncodeLoop, Zenon
  <1>3. PICK v : IsValues(v, items) /\ Values(items) = v[n]
    BY <1>1, ValueLoop, Zenon
  <1>4. f[n] \in Seq(Nat)
    <2>1. n \in 0..n
      OBVIOUS
    <2>2. Len(items) \in Nat /\ \A k \in 1..Len(items) : IsItem(items[k])
      BY <1>1, Zenon
    <2>3. \A m \in 0..Len(items) : f[m] \in Seq(Nat)
      BY <1>2, <2>2, Places, Zenon
    <2> QED
      BY <1>1, <2>1, <2>3, Zenon
  <1> DEFINE S == {<<items[k].tag, Value(items[k])>> : k \in 1..n}
  <1>5. \A k \in 1..n : <<items[k].tag, Value(items[k])>> \in S
    OBVIOUS
  <1> HIDE DEF S
  <1>6. AreValues(v, n, S)
    BY <1>1, <1>3, <1>5, ValuesGrow, Zenon
  <1> QED
    BY <1>1, <1>2, <1>3, <1>4, <1>6, Zenon DEF IsRead

\* What the parser makes of the first m bytes of a descriptor.
LEMMA CutParsed ==
  ASSUME NEW items, NEW n, NEW f, NEW v, NEW S, IsRead(items, n, f, v, S),
         NEW m \in 0..Len(f[n])
  PROVE  Gives(ParseReport(SubSeq(f[n], 1, m)), v, n, m = Len(f[n]))
  <1> DEFINE b == SubSeq(f[n], 1, m)
  <1>0. /\ n \in Nat /\ n = Len(items) /\ \A k \in 1..n : IsItem(items[k])
        /\ IsEncoding(f, items) /\ f[n] \in Seq(Nat) /\ IsValues(v, items)
    BY Zenon DEF IsRead
  <1>1. Len(f[n]) \in Nat /\ m \in Nat /\ m <= Len(f[n])
    <2>1. Len(f[n]) \in Nat
      BY <1>0, LenProperties
    <2> QED
      BY <2>1
  <1>2. b \in Seq(Nat) /\ Len(b) = m /\ \A i \in 1..m : b[i] = f[n][i]
    BY <1>0, PrefixForm, Zenon
  <1> HIDE DEF b
  <1>3. IsCut(b, m, items, n, f)
    BY <1>0, <1>1, <1>2, Zenon DEF IsCut
  <1>4. PICK p : IsParse(p, b) /\ ParseReport(b) = p[Len(b)]
    BY <1>2, ParseLoop, Zenon
  <1>5. Gives(p[m], v, n, m = Len(f[n]))
    BY <1>0, <1>3, <1>4, ParseEnds, Zenon
  <1> QED
    BY <1>2, <1>4, <1>5, Zenon DEF b

(***************************************************************************)
(* Every descriptor of whole items gives the values of its items, however  *)
(* many and whatever stands in their data (reportparser/parser.go:26).     *)
(***************************************************************************)
THEOREM ItemsAreParsed ==
  ASSUME NEW I, \A x \in I : IsItem(x), NEW items \in Seq(I)
  PROVE  ParsesWholeItems(items)
  <1>0. PICK n, f, v, S : IsRead(items, n, f, v, S)
    BY DescriptorForm, Zenon
  <1>1. /\ n \in Nat /\ n = Len(items) /\ \A k \in 1..n : IsItem(items[k])
        /\ IsEncoding(f, items) /\ EncodeAll(items) = f[n] /\ f[n] \in Seq(Nat)
        /\ IsValues(v, items) /\ Values(items) = v[n] /\ AreValues(v, n, S)
    BY <1>0, Zenon DEF IsRead
  <1>2. Len(f[n]) \in 0..Len(f[n]) /\ SubSeq(f[n], 1, Len(f[n])) = f[n]
    <2>1. PICK m \in Nat : m = Len(f[n])
      BY <1>1, LenProperties
    <2>2. m \in 0..m
      OBVIOUS
    <2>3. /\ SubSeq(f[n], 1, m) \in Seq(Nat) /\ Len(SubSeq(f[n], 1, m)) = m
          /\ \A i \in 1..m : SubSeq(f[n], 1, m)[i] = f[n][i]
      BY <1>1, <2>1, <2>2, PrefixForm, Zenon
    <2>4. SubSeq(f[n], 1, m) = f[n]
      BY <1>1, <2>1, <2>3, SeqEqual, Zenon
    <2> QED
      BY <2>1, <2>2, <2>4, Zenon
  <1>3. Gives(ParseReport(f[n]), v, n, TRUE)
    <2>1. \A m \in 0..Len(f[n]) :
            Gives(ParseReport(SubSeq(f[n], 1, m)), v, n, m = Len(f[n]))
      BY <1>0, CutParsed, Zenon
    <2>2. Gives(ParseReport(f[n]), v, n, Len(f[n]) = Len(f[n]))
      BY <1>2, <2>1, Zenon
    <2> QED
      BY <2>2, Zenon DEF Gives
  <1> QED
    BY <1>1, <1>3, Zenon DEF ParsesWholeItems, Gives

(***************************************************************************)
(* A descriptor that is cut off anywhere makes the parser panic or gives   *)
(* the values of its first items, and no other (reportparser/parser.go:80).*)
(***************************************************************************)
THEOREM TruncationIsHarmless ==
  ASSUME NEW I, \A x \in I : IsItem(x), NEW items \in Seq(I)
  PROVE  TruncationInventsNothing(items)
  <1>0. PICK n, f, v, S : IsRead(items, n, f, v, S)
    BY DescriptorForm, Zenon
  <1>1. /\ n \in Nat /\ n = Len(items) /\ \A k \in 1..n : IsItem(items[k])
        /\ IsEncoding(f, items) /\ EncodeAll(items) = f[n] /\ f[n] \in Seq(Nat)
        /\ IsValues(v, items) /\ Values(items) = v[n] /\ AreValues(v, n, S)
    BY <1>0, Zenon DEF IsRead
  <1>2. ASSUME NEW m \in 0..Len(f[n]), ParseReport(SubSeq(f[n], 1, m)).ok
        PROVE  IsPrefix(ParseReport(SubSeq(f[n], 1, m)).items, v[n])
    <2>1. PICK j \in 0..n : ParseReport(SubSeq(f[n], 1, m)).items = v[j]
      <3>1. Gives(ParseReport(SubSeq(f[n], 1, m)), v, n, m = Len(f[n]))
        BY <1>0, CutParsed, Zenon
      <3> QED
        BY <1>2, <3>1, Zenon DEF Gives
    <2>2. n \in 0..n
      BY <1>1
    <2>3. IsPrefix(v[j], v[n])
      BY <1>1, <2>2, Zenon DEF AreValues
    <2> QED
      BY <2>1, <2>3, Zenon
  <1> QED
    BY <1>1, <1>2, Zenon DEF TruncationInventsNothing

-----------------------------------------------------------------------------
(* The usage of a device                                                   *)

\* An item that sets the field of its tag.
Sets(x, tag) == x.tag = tag /\ Value(x)[1] # 0

\* u is the value of the first of k items that sets the field, or zero.
IsFirstOf(u, items, k, tag) ==
  \/ u = 0 /\ \A i \in 1..k : ~Sets(items[i], tag)
  \/ \E i \in 1..k : /\ Sets(items[i], tag) /\ u = Value(items[i])[1]
                     /\ \A j \in 1..(i - 1) : ~Sets(items[j], tag)

\* The field after one more item.
LEMMA FirstAdded ==
  ASSUME NEW items, NEW k \in Nat \ {0}, NEW tag, NEW u, IsFirstOf(u, items, k - 1, tag),
         NEW w, w = IF items[k].tag = tag /\ u = 0 THEN Value(items[k])[1] ELSE u
  PROVE  IsFirstOf(w, items, k, tag)
  <1>1. /\ \A i \in 1..k : i = k \/ i \in 1..(k - 1)
        /\ \A i \in 1..(k - 1) : i \in 1..k
        /\ k \in 1..k
    OBVIOUS
  <1>2. CASE u = 0 /\ \A i \in 1..(k - 1) : ~Sets(items[i], tag)
    <2>1. CASE Sets(items[k], tag)
      BY <1>1, <1>2, <2>1, Zenon DEF IsFirstOf, Sets
    <2>2. CASE ~Sets(items[k], tag)
      BY <1>1, <1>2, <2>2, Zenon DEF IsFirstOf, Sets
    <2> QED
      BY <2>1, <2>2, Zenon
  <1>3. CASE \E i \in 1..(k - 1) : /\ Sets(items[i], tag) /\ u = Value(items[i])[1]
                                   /\ \A j \in 1..(i - 1) : ~Sets(items[j], tag)
    BY <1>1, <1>3, Zenon DEF IsFirstOf, Sets
  <1> QED
    BY <1>2, <1>3, Zenon DEF IsFirstOf

\* A field is the first value of its tag that is not zero.
LEMMA FieldForm ==
  ASSUME NEW items, NEW n \in Nat, n = Len(items), NEW v, IsValues(v, items),
         NEW S, AreValues(v, n, S), NEW tag, Kept(tag)
  PROVE  IsFirstOf(FirstNonzero(v[n], tag), items, n, tag)
  <1>1. n \in 0..n
    OBVIOUS
  <1>2. v[n] \in Seq(S)
    BY <1>1, Zenon DEF AreValues
  <1>3. PICK u : IsField(u, v[n], tag) /\ FirstNonzero(v[n], tag) = u[Len(v[n])]
    BY <1>2, FieldLoop, Zenon
  <1> DEFINE C == {k \in 0..n : IsFirstOf(u[Len(v[k])], items, k, tag)}
  <1>4. 0 \in C
    <2>1. 0 \in 0..n /\ Len(<<>>) = 0 /\ \A i \in 1..0 : FALSE
      OBVIOUS
    <2> QED
      BY <1>3, <2>1, Zenon DEF IsField, IsValues, IsFirstOf
  <1>5. ASSUME NEW k \in 1..n, k - 1 \in C
        PROVE  k \in C
    <2> DEFINE x == items[k]
               c == Len(v[k - 1])
               value == <<x.tag, Value(x)>>
    <2>1. k \in 0..n /\ k - 1 \in 0..n /\ k \in Nat \ {0}
      OBVIOUS
    <2>2. v[k] = IF Kept(x.tag) THEN Append(v[k - 1], value) ELSE v[k - 1]
      BY Zenon DEF IsValues, WithValue
    <2>3. /\ v[k - 1] \in Seq(S) /\ v[k] \in Seq(S) /\ IsPrefix(v[k], v[n])
      BY <1>1, <2>1, Zenon DEF AreValues
    <2>4. IsFirstOf(u[c], items, k - 1, tag)
      BY <1>5, Zenon
    <2>5. u[Len(v[k])] = IF x.tag = tag /\ u[c] = 0 THEN Value(x)[1] ELSE u[c]
      <3>1. CASE ~Kept(x.tag)
        <4>1. x.tag # tag
          BY <3>1, Zenon
        <4> QED
          BY <2>2, <3>1, <4>1, Zenon
      <3>2. CASE Kept(x.tag)
        <4>1. v[k] = Append(v[k - 1], value)
          BY <2>2, <3>2, Zenon
        <4> HIDE DEF value
        <4>2. PICK d \in Nat : d = c
          BY <2>3, LenProperties
        <4>3. Len(v[k]) = d + 1 /\ v[k][d + 1] = value
          BY <2>3, <4>1, <4>2, LenProperties, AppendProperties
        <4>4. Len(v[k]) <= Len(v[n]) /\ Len(v[n]) \in Nat
              /\ \A i \in 1..Len(v[k]) : v[k][i] = v[n][i]
          BY <1>2, <2>3, PrefixElements, Zenon
        <4>5. d + 1 \in 1..Len(v[k]) /\ d + 1 \in 1..Len(v[n]) /\ (d + 1) - 1 = d
          BY <4>3, <4>4
        <4>6. v[n][d + 1] = value
          BY <4>3, <4>4, <4>5, Zenon
        <4>7. value[1] = x.tag /\ value[2] = Value(x)
          BY DEF value
        <4>8. u[d + 1] = IF value[1] = tag /\ u[d] = 0 THEN value[2][1] ELSE u[d]
          BY <1>3, <4>5, <4>6, Zenon DEF IsField
        <4> QED
          BY <4>2, <4>3, <4>7, <4>8, Zenon
      <3> QED
        BY <3>1, <3>2, Zenon
    <2>6. IsFirstOf(u[Len(v[k])], items, k, tag)
      BY <2>1, <2>4, <2>5, FirstAdded, Zenon
    <2> QED
      BY <2>1, <2>6, Zenon
  <1>6. \A k \in 0..n : k \in C
    <2> HIDE DEF C
    <2> QED
      BY <1>4, <1>5, CountInduction, Zenon
  <1> QED
    BY <1>1, <1>3, <1>6, Zenon

(***************************************************************************)
(* The usage page and the usage of a device are the first in its           *)
(* descriptor that are not zero, of however many (hid_linux.go:128).       *)
(***************************************************************************)
THEOREM UsageIsFound ==
  ASSUME NEW I, \A x \in I : IsItem(x), NEW items \in Seq(I)
  PROVE  UsageIsTheFirst(items)
  <1>0. PICK n, f, v, S : IsRead(items, n, f, v, S)
    BY DescriptorForm, Zenon
  <1>1. /\ n \in Nat /\ n = Len(items) /\ \A k \in 1..n : IsItem(items[k])
        /\ IsEncoding(f, items) /\ EncodeAll(items) = f[n] /\ f[n] \in Seq(Nat)
        /\ IsValues(v, items) /\ Values(items) = v[n] /\ AreValues(v, n, S)
    BY <1>0, Zenon DEF IsRead
  <1> DEFINE first(tag) == {i \in DOMAIN items :
                              /\ items[i].tag = tag /\ Value(items[i])[1] # 0
                              /\ \A j \in 1..(i - 1) :
                                   items[j].tag = tag => Value(items[j])[1] = 0}
             usage == FillDeviceInfoUsage(EncodeAll(items))
             is(field, tag) == IF first(tag) = {} THEN field = 0
                               ELSE \A i \in first(tag) : field = Value(items[i])[1]
  <1>2. ParseReport(EncodeAll(items)).items = v[n]
    BY <1>1, ItemsAreParsed, Zenon DEF ParsesWholeItems
  <1>3. usage = [UsagePage |-> FirstNonzero(v[n], GlobalUsagePage),
                 Usage |-> FirstNonzero(v[n], LocalUsage)]
    BY <1>2, Zenon DEF FillDeviceInfoUsage
  <1>4. DOMAIN items = 1..n
    BY <1>1, LenProperties
  <1>5. ASSUME NEW tag, NEW field, IsFirstOf(field, items, n, tag)
        PROVE  is(field, tag)
    <2>1. \A i \in 1..n : i \in first(tag) <=>
            Sets(items[i], tag) /\ \A j \in 1..(i - 1) : ~Sets(items[j], tag)
      BY <1>4, Zenon DEF Sets
    <2>2. first(tag) \subseteq 1..n
      BY <1>4, Zenon
    <2> HIDE DEF first
    <2>3. CASE field = 0 /\ \A i \in 1..n : ~Sets(items[i], tag)
      BY <2>1, <2>2, <2>3, Zenon
    <2>4. CASE \E i \in 1..n : /\ Sets(items[i], tag) /\ field = Value(items[i])[1]
                               /\ \A j \in 1..(i - 1) : ~Sets(items[j], tag)
      <3>1. PICK i \in 1..n : /\ Sets(items[i], tag) /\ field = Value(items[i])[1]
                              /\ \A j \in 1..(i - 1) : ~Sets(items[j], tag)
        BY <2>4, Zenon
      <3>2. ASSUME NEW j \in first(tag)
            PROVE  j = i
        <4>1. j \in 1..n /\ Sets(items[j], tag) /\ \A l \in 1..(j - 1) : ~Sets(items[l], tag)
          BY <2>1, <2>2, Zenon
        <4>2. j \notin 1..(i - 1) /\ i \notin 1..(j - 1)
          BY <3>1, <4>1, Zenon
        <4>3. i \in Nat /\ j \in 1..n
          BY <4>1
        <4> QED
          BY <4>2, <4>3
      <3>3. i \in first(tag)
        BY <2>1, <3>1, Zenon
      <3> QED
        BY <3>1, <3>2, <3>3, Zenon
    <2> QED
      BY <1>5, <2>3, <2>4, Zenon DEF IsFirstOf
  <1>6. Kept(GlobalUsagePage) /\ Kept(LocalUsage)
    BY DEF Kept, HalfTags
  <1>7. /\ IsFirstOf(FirstNonzero(v[n], GlobalUsagePage), items, n, GlobalUsagePage)
        /\ IsFirstOf(FirstNonzero(v[n], LocalUsage), items, n, LocalUsage)
    BY <1>1, <1>6, FieldForm, Zenon
  <1>8. usage.UsagePage = FirstNonzero(v[n], GlobalUsagePage)
        /\ usage.Usage = FirstNonzero(v[n], LocalUsage)
    <2> HIDE DEF usage
    <2> QED
      BY <1>3
  <1>9. is(usage.UsagePage, GlobalUsagePage) /\ is(usage.Usage, LocalUsage)
    <2> HIDE DEF usage, is
    <2> QED
      BY <1>5, <1>7, <1>8, Zenon
  <1> QED
    BY <1>9, Zenon DEF UsageIsTheFirst

-----------------------------------------------------------------------------
(* All inputs                                                              *)

\* What an input is made of, whatever its length.
InputInv ==
  /\ kind = "descriptor" => given \in Seq(Items)
  /\ kind = "report" => given \in Seq(ByteValues)
  /\ kind = "text" => given \in Seq(Units)
  /\ kind = "lines" => given \in Seq(Lines)
  /\ kind = "length" => given \in Lengths
  /\ kind = "enumerate" => given \in [options : Seq(Options), devices : Seq(Devices)]

\* A sequence of a smaller set is one of a larger set.
LEMMA SeqOfMore ==
  ASSUME NEW S, NEW T, S \subseteq T, NEW s \in Seq(S)
  PROVE  s \in Seq(T)
  <1>1. s \in [1..Len(s) -> S] /\ Len(s) \in Nat
    BY LenProperties
  <1>2. s \in [1..Len(s) -> T]
    BY <1>1
  <1> QED
    BY <1>1, <1>2, FunctionIsSeq

\* Every input is made of its elements.
LEMMA InputsForm == PureSpec => []InputInv
  <1>1. PureInit => InputInv
    <2>1. \A S : <<>> \in Seq(S)
      OBVIOUS
    <2>2. kind = "length" /\ PureInit => given \in Lengths
      BY DEF PureInit, Elements
    <2>3. kind \in {"descriptor", "report", "text", "lines"} /\ PureInit => given = <<>>
      BY DEF PureInit, Elements
    <2>4. kind = "enumerate" /\ PureInit => given = [options |-> <<>>, devices |-> <<>>]
      BY DEF PureInit, Elements
    <2>5. [options |-> <<>>, devices |-> <<>>]
            \in [options : Seq(Options), devices : Seq(Devices)]
      BY <2>1
    <2> QED
      BY <2>1, <2>2, <2>3, <2>4, <2>5, Zenon DEF InputInv
  <1>2. InputInv /\ [PureNext]_<<kind, given>> => InputInv'
    <2> SUFFICES ASSUME InputInv, [PureNext]_<<kind, given>>
                 PROVE  InputInv'
      OBVIOUS
    <2>1. CASE UNCHANGED kind /\ Grow
      <3>1. PICK x \in Elements[kind] : given' = Append(given, x)
        BY <2>1 DEF Grow
      <3>2. kind \in {"descriptor", "report", "text", "lines"} /\ kind' = kind
        BY <2>1 DEF Grow, Elements
      <3>3. CASE kind = "report"
        <4>1. x \in ByteValues
          BY <3>1, <3>3 DEF Elements
        <4>2. given' \in Seq(ByteValues)
          BY <3>1, <3>3, <4>1, AppendProperties DEF InputInv
        <4> QED
          BY <3>2, <3>3, <4>2 DEF InputInv
      <3>4. CASE kind = "text"
        <4>1. x \in Units
          BY <3>1, <3>4 DEF Elements
        <4>2. given' \in Seq(Units)
          BY <3>1, <3>4, <4>1, AppendProperties DEF InputInv
        <4> QED
          BY <3>2, <3>4, <4>2 DEF InputInv
      <3>5. CASE kind = "lines"
        <4>1. x \in Lines
          BY <3>1, <3>5 DEF Elements
        <4>2. given' \in Seq(Lines)
          BY <3>1, <3>5, <4>1, AppendProperties DEF InputInv
        <4> QED
          BY <3>2, <3>5, <4>2 DEF InputInv
      <3>6. CASE kind = "descriptor"
        <4>1. x \in Items
          BY <3>1, <3>6 DEF Elements
        <4>2. given' \in Seq(Items)
          BY <3>1, <3>6, <4>1, AppendProperties DEF InputInv
        <4> QED
          BY <3>2, <3>6, <4>2 DEF InputInv
      <3> QED
        BY <3>2, <3>3, <3>4, <3>5, <3>6
    <2>2. CASE UNCHANGED kind /\ AddOption
      <3>1. PICK o \in Options : given' = [given EXCEPT !.options = Append(@, o)]
        BY <2>2 DEF AddOption
      <3>2. given \in [options : Seq(Options), devices : Seq(Devices)] /\ kind' = "enumerate"
        BY <2>2 DEF AddOption, InputInv
      <3>3. Append(given.options, o) \in Seq(Options)
        BY <3>2, AppendProperties
      <3>4. given' \in [options : Seq(Options), devices : Seq(Devices)]
        BY <3>1, <3>2, <3>3
      <3> QED
        BY <3>2, <3>4 DEF InputInv
    <2>3. CASE UNCHANGED kind /\ AddDevice
      <3>1. PICK d \in Devices : given' = [given EXCEPT !.devices = Append(@, d)]
        BY <2>3 DEF AddDevice
      <3>2. given \in [options : Seq(Options), devices : Seq(Devices)] /\ kind' = "enumerate"
        BY <2>3 DEF AddDevice, InputInv
      <3>3. Append(given.devices, d) \in Seq(Devices)
        BY <3>2, AppendProperties
      <3>4. given' \in [options : Seq(Options), devices : Seq(Devices)]
        BY <3>1, <3>2, <3>3
      <3> QED
        BY <3>2, <3>4 DEF InputInv
    <2>4. CASE UNCHANGED <<kind, given>>
      BY <2>4 DEF InputInv
    <2> QED
      BY <2>1, <2>2, <2>3, <2>4 DEF PureNext
  <1> QED
    BY <1>1, <1>2, PTL DEF PureSpec

(***************************************************************************)
(* The three platforms send the same output reports, return the same input *)
(* and feature reports and give the kernel the length they mean, for       *)
(* reports, buffers and devices of every size.                             *)
(***************************************************************************)
THEOREM PlatformsCorrect == PureSpec => []PlatformsAgree
  <1>1. InputInv => PlatformsAgree
    <2> SUFFICES ASSUME InputInv
                 PROVE  OutputsAgree /\ InputsAgree /\ FeaturesAgree /\ LengthsKept
      BY DEF PlatformsAgree
    <2>1. \A s \in Seq(ByteValues) : s \in Seq(Nat)
      BY PureCodeAssumption, SeqOfMore, Zenon DEF PureCodeAssumption
    <2>2. OutputsAgree
      <3>1. \A size \in 0..MaxBytes : size \in Nat
        BY PureCodeAssumption DEF PureCodeAssumption
      <3> QED
        BY <2>1, <3>1, OutputAgrees, Zenon DEF InputInv, OutputsAgree
    <2>3. InputsAgree
      <3> SUFFICES ASSUME kind = "report", given # <<>>
                   PROVE  SameInput([id |-> Head(given), payload |-> Tail(given)], MaxBytes)
        BY DEF InputsAgree
      <3>1. given \in Seq(Nat)
        BY <2>1 DEF InputInv
      <3>2. Head(given) \in Nat /\ Tail(given) \in Seq(Nat)
        BY <3>1, TailForm
      <3> QED
        BY <3>2, InputAgrees, PureCodeAssumption, Zenon DEF PureCodeAssumption
    <2>4. FeaturesAgree
      <3>1. \A stored \in BoundedSeq(ByteValues, MaxBytes) : stored \in Seq(Nat)
        <4> TAKE stored \in BoundedSeq(ByteValues, MaxBytes)
        <4>1. PICK m \in 0..MaxBytes : stored \in [1..m -> ByteValues]
          BY Zenon DEF BoundedSeq, SeqOf
        <4>2. m \in Nat
          BY PureCodeAssumption DEF PureCodeAssumption
        <4> QED
          BY <2>1, <4>1, <4>2, FunctionIsSeq, Zenon
      <3> QED
        BY <2>1, <3>1, FeatureAgrees, Zenon DEF InputInv, FeaturesAgree
    <2>5. LengthsKept
      BY PureCodeAssumption, LengthKept, Zenon DEF PureCodeAssumption, InputInv, LengthsKept
    <2> QED
      BY <2>2, <2>3, <2>4, <2>5
  <1> QED
    BY <1>1, InputsForm, PTL

(***************************************************************************)
(* Kernel messages, identities and Windows strings are understood, however *)
(* long they are.                                                          *)
(***************************************************************************)
THEOREM TextCorrect == PureSpec => []TextUnderstood
  <1>1. InputInv => TextUnderstood
    <2> SUFFICES ASSUME InputInv
                 PROVE  UeventsUnderstood /\ IdentitiesWhole /\ StringsSurvive
      BY DEF TextUnderstood
    <2>1. UeventsUnderstood
      BY UeventsAreUnderstood, Zenon DEF UeventsUnderstood
    <2>2. IdentitiesWhole
      <3>1. \A s \in Seq(Lines) : s \in Seq(Seq(Nat))
        BY PureCodeAssumption, SeqOfMore, Zenon DEF PureCodeAssumption
      <3> QED
        BY <3>1, IdentitiesAreWhole, Zenon DEF InputInv, IdentitiesWhole
    <2>3. StringsSurvive
      <3>1. \A s \in Seq(Units) : s \in Seq(Nat)
        BY PureCodeAssumption, SeqOfMore, Zenon DEF PureCodeAssumption
      <3>2. 1 \in Nat
        OBVIOUS
      <3> QED
        BY <3>1, <3>2, StringsDecoded, Zenon DEF InputInv, StringsSurvive
    <2> QED
      BY <2>1, <2>2, <2>3
  <1> QED
    BY <1>1, InputsForm, PTL

(***************************************************************************)
(* The iterators stop when they are told to, find what is wanted and lose  *)
(* nothing to the dictionary, whatever the options and the devices.        *)
(***************************************************************************)
THEOREM IteratorsCorrect == PureSpec => []IteratorsSound
  <1>1. InputInv => IteratorsSound
    <2> SUFFICES ASSUME InputInv, kind = "enumerate"
                 PROVE  /\ \A stop \in 1..(Len(given.devices) + 1) :
                              NoYieldAfterBreak(given.options, stop, given.devices)
                        /\ FindsWhatIsWanted(given.options, given.devices)
                        /\ DictionaryLosesNothing(given.options, given.devices)
      BY Zenon DEF IteratorsSound, BreaksRespected, WantedFound, DictionarySound
    <2>1. given.options \in Seq(Options) /\ given.devices \in Seq(Devices)
      BY DEF InputInv
    <2>2. \A d \in Devices : d.fails \in {"never", "early", "late"}
      BY PureCodeAssumption, Zenon DEF PureCodeAssumption
    <2>3. \A stop \in 1..(Len(given.devices) + 1) : stop \in Nat \ {0}
      OBVIOUS
    <2>4. \A stop \in 1..(Len(given.devices) + 1) :
            NoYieldAfterBreak(given.options, stop, given.devices)
      BY <2>1, <2>3, BreaksAreRespected
    <2>5. FindsWhatIsWanted(given.options, given.devices)
      BY <2>1, <2>2, WantedAreFound
    <2>6. DictionaryLosesNothing(given.options, given.devices)
      BY <2>1, DictionaryIsSound
    <2> QED
      BY <2>4, <2>5, <2>6
  <1> QED
    BY <1>1, InputsForm, PTL

(***************************************************************************)
(* Descriptors give the values of their items and the first usage, however *)
(* many items they have; cut off anywhere they give no value that is not   *)
(* theirs.                                                                 *)
(***************************************************************************)
THEOREM DescriptorsCorrect == PureSpec => []DescriptorsParsed
  <1>1. InputInv => DescriptorsParsed
    <2> SUFFICES ASSUME InputInv, kind = "descriptor"
                 PROVE  /\ ParsesWholeItems(given)
                        /\ TruncationInventsNothing(given)
                        /\ UsageIsTheFirst(given)
      BY Zenon DEF DescriptorsParsed, Parses, Truncated, FirstUsage
    <2>1. given \in Seq(Items) /\ \A x \in Items : IsItem(x)
      BY PureCodeAssumption, Zenon DEF InputInv, PureCodeAssumption
    <2> QED
      BY <2>1, ItemsAreParsed, TruncationIsHarmless, UsageIsFound, Zenon
  <1> QED
    BY <1>1, InputsForm, PTL

=============================================================================
