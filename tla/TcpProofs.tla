------------------------------- MODULE TcpProofs -------------------------------
(***************************************************************************)
(* Theorems about the delayed responses of the Modbus/TCP server, for any  *)
(* number of connections and requests, any settings and limits.            *)
(***************************************************************************)
EXTENDS TcpResponses, SequenceTheorems, FiniteSetTheorems, WellFoundedInduction, TLAPS

-----------------------------------------------------------------------------
(* A list in due order.                                                    *)

InDueOrder(seq) == \A i, j \in 1 .. Len(seq) : i <= j => seq[i].due <= seq[j].due

LEMMA PendingFields ==
  \A p \in Pending : p.socket \in Sockets /\ p.request \in Requests /\ p.due \in Nat
BY DEF Pending

\* The first response that is not due yet ends the prefix of those that are.
LEMMA DueByBounds ==
  ASSUME NEW seq \in Seq(Pending), InDueOrder(seq), NEW d \in Nat
  PROVE  /\ dueBy(seq, d) \in 0 .. Len(seq)
         /\ \A i \in 1 .. Len(seq) : i <= dueBy(seq, d) <=> seq[i].due <= d
<1> DEFINE Q(n) == \A i \in 1 .. Len(seq) : i <= n <=> seq[i].due <= d
           S == {i \in 1 .. Len(seq) : seq[i].due > d}
<1>1. Len(seq) \in Nat /\ \A i \in 1 .. Len(seq) : seq[i].due \in Nat
  BY PendingFields
<1>2. \E n \in 0 .. Len(seq) : Q(n)
  <2>1. CASE S = {}
    <3>1. Q(Len(seq)) BY <1>1, <2>1
    <3>2. Len(seq) \in 0 .. Len(seq) BY <1>1
    <3> HIDE DEF Q
    <3>3. QED BY <3>1, <3>2
  <2>2. CASE S # {}
    <3>1. PICK m \in S : \A y \in S : ~(<<y, m>> \in OpToRel(<, Nat))
      <4>1. S \subseteq Nat OBVIOUS
      <4>2. QED BY <2>2, <4>1, NatLessThanWellFounded, WFMin
    <3>2. \A y \in S : m <= y
      <4> SUFFICES ASSUME NEW y \in S PROVE m <= y
        OBVIOUS
      <4>1. y \in Nat /\ m \in Nat OBVIOUS
      <4>2. ~(y < m) BY <3>1, <4>1 DEF OpToRel
      <4>3. QED BY <4>1, <4>2
    <3>3. m \in 1 .. Len(seq) /\ seq[m].due > d OBVIOUS
    <3>4. m - 1 \in 0 .. Len(seq) BY <1>1, <3>3
    <3>5. ASSUME NEW i \in 1 .. Len(seq) PROVE i <= m - 1 <=> seq[i].due <= d
      <4>1. CASE i < m
        <5>1. i \notin S BY <1>1, <3>2, <3>3, <4>1
        <5>2. seq[i].due <= d BY <1>1, <5>1
        <5>3. QED BY <1>1, <3>3, <4>1, <5>2
      <4>2. CASE m <= i
        <5>1. seq[m].due <= seq[i].due BY <3>3, <4>2 DEF InDueOrder
        <5>2. ~(seq[i].due <= d) BY <1>1, <3>3, <5>1
        <5>3. QED BY <1>1, <3>3, <4>2, <5>2
      <4>3. QED BY <1>1, <3>3, <4>1, <4>2
    <3>6. QED BY <3>4, <3>5
  <2>3. QED BY <2>1, <2>2
<1>3. dueBy(seq, d) = CHOOSE n \in 0 .. Len(seq) : Q(n) BY DEF dueBy
<1> HIDE DEF Q
<1>4. dueBy(seq, d) \in 0 .. Len(seq) /\ Q(dueBy(seq, d)) BY <1>2, <1>3
<1>5. QED BY <1>4 DEF Q

\* Enqueueing adds one response and keeps the order.
LEMMA Inserted ==
  ASSUME NEW seq \in Seq(Pending), InDueOrder(seq), NEW p \in Pending
  PROVE  /\ inserted(seq, p) \in Seq(Pending)
         /\ Len(inserted(seq, p)) = Len(seq) + 1
         /\ InDueOrder(inserted(seq, p))
<1> DEFINE n == dueBy(seq, p.due)
           front == SubSeq(seq, 1, n)
           back == SubSeq(seq, n + 1, Len(seq))
           new == front \o <<p>> \o back
<1>1. p.due \in Nat /\ \A i \in 1 .. Len(seq) : seq[i].due \in Nat BY PendingFields
<1>2. n \in 0 .. Len(seq) /\ \A i \in 1 .. Len(seq) : i <= n <=> seq[i].due <= p.due
  BY <1>1, DueByBounds
<1>3. inserted(seq, p) = new BY DEF inserted
<1> HIDE DEF n
<1>4. front \in Seq(Pending) /\ Len(front) = n /\ \A i \in 1 .. n : front[i] = seq[i] BY <1>2
<1>5. /\ back \in Seq(Pending) /\ Len(back) = Len(seq) - n
      /\ \A i \in 1 .. Len(seq) - n : back[i] = seq[i + n]
  BY <1>2
<1> HIDE DEF front, back
<1>6. /\ new \in Seq(Pending) /\ Len(new) = Len(seq) + 1
      /\ \A i \in 1 .. n : new[i] = seq[i]
      /\ new[n + 1] = p
      /\ \A i \in n + 2 .. Len(seq) + 1 : new[i] = seq[i - 1]
  <2> DEFINE head == front \o <<p>>
  <2>1. /\ head \in Seq(Pending) /\ Len(head) = n + 1
        /\ \A i \in 1 .. n : head[i] = front[i]
        /\ head[n + 1] = p
    BY <1>2, <1>4
  <2> HIDE DEF head
  <2>2. new = head \o back BY DEF head
  <2> HIDE DEF new
  <2>3. new \in Seq(Pending) /\ Len(new) = Len(seq) + 1
    <3>1. new \in Seq(Pending) /\ Len(new) = Len(head) + Len(back)
      BY <1>5, <2>1, <2>2, ConcatProperties
    <3>2. Len(seq) \in Nat /\ n \in Nat BY <1>2
    <3>3. QED BY <1>5, <2>1, <3>1, <3>2
  <2>4. \A i \in 1 .. n + 1 : new[i] = head[i] BY <1>2, <1>5, <2>1, <2>2
  <2>5. \A i \in 1 .. Len(seq) - n : new[i + (n + 1)] = back[i] BY <1>2, <1>5, <2>1, <2>2
  <2>6. ASSUME NEW i \in n + 2 .. Len(seq) + 1 PROVE new[i] = seq[i - 1]
    <3>1. i - (n + 1) \in 1 .. Len(seq) - n /\ i - (n + 1) + (n + 1) = i BY <1>2
    <3>2. new[i] = back[i - (n + 1)] BY <2>5, <3>1
    <3>3. back[i - (n + 1)] = seq[i - (n + 1) + n] BY <1>5, <3>1
    <3>4. i - (n + 1) + n = i - 1 BY <1>2
    <3>5. QED BY <3>2, <3>3, <3>4
  <2>7. QED BY <1>2, <1>4, <2>1, <2>3, <2>4, <2>6
<1> HIDE DEF new
<1>7. ASSUME NEW i \in 1 .. Len(new), NEW j \in 1 .. Len(new), i < j
      PROVE  new[i].due <= new[j].due
  <2>1. CASE j <= n BY <1>2, <1>6, <1>7, <2>1 DEF InDueOrder
  <2>2. CASE j = n + 1
    <3>1. i \in 1 .. n /\ i \in 1 .. Len(seq) BY <1>2, <1>7, <2>2
    <3>2. QED BY <1>2, <1>6, <2>2, <3>1
  <2>3. CASE j > n + 1
    <3>1. j - 1 \in 1 .. Len(seq) /\ new[j] = seq[j - 1] /\ ~(j - 1 <= n)
      BY <1>2, <1>6, <2>3
    <3>2. CASE i <= n
      <4>1. i \in 1 .. Len(seq) /\ i <= j - 1 BY <1>2, <2>3, <3>2
      <4>2. new[i] = seq[i] BY <1>6, <3>2
      <4>3. QED BY <3>1, <4>1, <4>2 DEF InDueOrder
    <3>3. CASE i = n + 1
      <4>1. ~(seq[j - 1].due <= p.due) BY <1>2, <3>1
      <4>2. QED BY <1>1, <1>6, <3>1, <3>3, <4>1
    <3>4. CASE i > n + 1
      <4>1. i - 1 \in 1 .. Len(seq) /\ i - 1 <= j - 1 /\ new[i] = seq[i - 1]
        BY <1>2, <1>6, <1>7, <3>4
      <4>2. QED BY <3>1, <4>1 DEF InDueOrder
    <3>5. QED BY <1>2, <3>2, <3>3, <3>4
  <2>4. QED BY <1>2, <2>1, <2>2, <2>3
<1>8. \A i \in 1 .. Len(new) : new[i].due <= new[i].due
  <2>1. \A i \in 1 .. Len(new) : new[i] \in Pending BY <1>6
  <2>2. QED BY <2>1, PendingFields
<1>9. InDueOrder(new)
  <2> SUFFICES ASSUME NEW i \in 1 .. Len(new), NEW j \in 1 .. Len(new), i <= j
               PROVE  new[i].due <= new[j].due
    BY DEF InDueOrder
  <2>1. i < j \/ i = j BY <1>6
  <2>2. QED BY <1>7, <1>8, <2>1
<1>10. QED BY <1>3, <1>6, <1>9

\* What is left after a prefix is sent is in order.
LEMMA Rest ==
  ASSUME NEW seq \in Seq(Pending), InDueOrder(seq), NEW n \in 0 .. Len(seq)
  PROVE  LET left == SubSeq(seq, n + 1, Len(seq))
         IN left \in Seq(Pending) /\ Len(left) = Len(seq) - n /\ InDueOrder(left)
<1> DEFINE left == SubSeq(seq, n + 1, Len(seq))
<1>1. /\ left \in Seq(Pending) /\ Len(left) = Len(seq) - n
      /\ \A i \in 1 .. Len(seq) - n : left[i] = seq[i + n]
  OBVIOUS
<1> HIDE DEF left
<1>2. ASSUME NEW i \in 1 .. Len(left), NEW j \in 1 .. Len(left), i <= j
      PROVE  left[i].due <= left[j].due
  <2>1. i + n \in 1 .. Len(seq) /\ j + n \in 1 .. Len(seq) /\ i + n <= j + n BY <1>1, <1>2
  <2>2. left[i] = seq[i + n] /\ left[j] = seq[j + n] BY <1>1
  <2>3. QED BY <2>1, <2>2 DEF InDueOrder
<1>3. QED BY <1>1, <1>2 DEF InDueOrder, left

-----------------------------------------------------------------------------
(* The timer.                                                              *)

Covers(t, seq) == \A i \in 1 .. Len(seq) : t # Off /\ t <= seq[i].due

LEMMA ArmedTimer ==
  ASSUME NEW seq \in Seq(Pending), InDueOrder(seq), NEW left \in Nat \cup {Off}
  PROVE  /\ armDelayedResponseTimer(seq, left) \in Nat \cup {Off}
         /\ Covers(armDelayedResponseTimer(seq, left), seq)
<1> DEFINE t == armDelayedResponseTimer(seq, left)
<1>1. CASE seq = <<>> BY <1>1 DEF armDelayedResponseTimer, Covers
<1>2. CASE seq # <<>>
  <2>1. 1 \in 1 .. Len(seq) /\ seq[1] \in Pending BY <1>2
  <2>2. \A i \in 1 .. Len(seq) : seq[i].due \in Nat /\ seq[1].due <= seq[i].due
    BY <2>1, PendingFields DEF InDueOrder
  <2>3. t \in Nat /\ t <= seq[1].due
    BY <1>2, <2>1, <2>2 DEF armDelayedResponseTimer
  <2>4. t # Off BY <2>3, OffAssumption
  <2> HIDE DEF t
  <2>5. ASSUME NEW i \in 1 .. Len(seq) PROVE t <= seq[i].due
    BY <2>1, <2>2, <2>3
  <2>6. Covers(t, seq) BY <2>4, <2>5 DEF Covers
  <2>7. QED BY <2>3, <2>6 DEF t
<1>3. QED BY <1>1, <1>2

-----------------------------------------------------------------------------
(* The inductive invariant.                                                *)

BuffersOK ==
  /\ buffer \in [Sockets -> Seq(Requests)]
  /\ reading \in Sockets \cup {NoSocket}
  /\ reading # NoSocket => buffer[reading] # <<>>

ListOK ==
  /\ pending \in Seq(Pending)
  /\ InDueOrder(pending)
  /\ count = Len(pending)
  /\ count <= MaxDelayed
  /\ timer \in Nat \cup {Off}
  /\ Covers(timer, pending)

IInv == BuffersOK /\ setting \in Settings /\ ListOK

LEMMA SettingFields ==
  ASSUME NEW x \in Settings
  PROVE  x.delays \subseteq Nat
BY SettingsAssumption

LEMMA InitIInv == Init => IInv
<1> SUFFICES ASSUME Init PROVE IInv
  OBVIOUS
<1>1. pending = <<>> /\ count = 0 /\ timer = Off BY DEF Init
<1>2. ListOK BY <1>1, LimitsAssumption DEF ListOK, InDueOrder, Covers
<1>3. BuffersOK BY DEF Init, BuffersOK, Nothing
<1>4. setting \in Settings BY DEF Init
<1>5. QED BY <1>2, <1>3, <1>4 DEF IInv

LEMMA ListUnchanged ==
  ASSUME ListOK, UNCHANGED <<pending, count, timer>>
  PROVE  ListOK'
BY DEF ListOK, InDueOrder, Covers

LEMMA ProcessBuffers ==
  ASSUME IInv, NEW s \in Sockets, taken(s), goesOn(s) \/ reading' = NoSocket
  PROVE  BuffersOK' /\ Head(buffer[s]) \in Requests
<1>1. /\ buffer \in [Sockets -> Seq(Requests)] /\ reading = s
      /\ s # NoSocket /\ buffer[s] # <<>> /\ buffer[s] \in Seq(Requests)
  BY OffAssumption DEF IInv, BuffersOK, taken
<1>2. Head(buffer[s]) \in Requests /\ Tail(buffer[s]) \in Seq(Requests) BY <1>1
<1>3. buffer' = [buffer EXCEPT ![s] = Tail(buffer[s])] BY DEF taken
<1>4. buffer' \in [Sockets -> Seq(Requests)] /\ buffer'[s] = Tail(buffer[s])
  BY <1>1, <1>2, <1>3
<1>5. reading' = NoSocket \/ (reading' = s /\ buffer'[s] # <<>>) BY <1>4 DEF goesOn
<1>6. QED BY <1>2, <1>4, <1>5 DEF BuffersOK

LEMMA AnswerKeepsList ==
  ASSUME IInv, NEW s \in Sockets, NEW delay \in Nat, answerRequest(s, delay)
  PROVE  ListOK'
<1>1. Head(buffer[s]) \in Requests BY ProcessBuffers DEF answerRequest
<1> DEFINE p == [socket |-> s, request |-> Head(buffer[s]), due |-> delay]
<1>2. p \in Pending BY <1>1 DEF Pending
<1>3. ListOK BY DEF IInv
<1>4. CASE UNCHANGED <<pending, count, timer>> BY <1>3, <1>4, ListUnchanged
<1>5. CASE /\ count < MaxDelayed
           /\ pending' = inserted(pending, p)
           /\ count' = count + 1
           /\ timer' = armDelayedResponseTimer(pending', timer)
  <2>1. pending \in Seq(Pending) /\ InDueOrder(pending) /\ count = Len(pending)
        /\ timer \in Nat \cup {Off}
    BY <1>3 DEF ListOK
  <2> HIDE DEF p
  <2>2. /\ pending' \in Seq(Pending) /\ Len(pending') = Len(pending) + 1
        /\ InDueOrder(pending')
    BY <1>2, <1>5, <2>1, Inserted
  <2>3. timer' \in Nat \cup {Off} /\ Covers(timer', pending')
    BY <1>5, <2>1, <2>2, ArmedTimer
  <2>4. Len(pending) \in Nat /\ MaxDelayed \in Nat BY <2>1, LimitsAssumption
  <2>5. count' = Len(pending') /\ count' <= MaxDelayed BY <1>5, <2>1, <2>2, <2>4
  <2>6. QED BY <2>2, <2>3, <2>5 DEF ListOK, InDueOrder, Covers
<1>6. count >= MaxDelayed \/ count < MaxDelayed
  BY <1>3, LimitsAssumption DEF ListOK
<1>7. QED BY <1>4, <1>5, <1>6 DEF answerRequest

LEMMA FlushKeepsList ==
  ASSUME ListOK, flushDelayedResponses
  PROVE  ListOK'
<1> DEFINE n == dueBy(pending, 0)
<1>1. pending \in Seq(Pending) /\ InDueOrder(pending) /\ count = Len(pending)
      /\ count <= MaxDelayed
  BY DEF ListOK
<1>2. n \in 0 .. Len(pending) BY <1>1, DueByBounds
<1>3. pending' = SubSeq(pending, n + 1, Len(pending)) BY DEF flushDelayedResponses, notDue
<1>4. count' = count - Len(SubSeq(pending, 1, n)) BY DEF flushDelayedResponses, dueNow
<1> HIDE DEF n
<1>5. pending' \in Seq(Pending) /\ Len(pending') = Len(pending) - n /\ InDueOrder(pending')
  BY <1>1, <1>2, <1>3, Rest
<1>6. Len(SubSeq(pending, 1, n)) = n BY <1>1, <1>2
<1>7. Len(pending) \in Nat /\ MaxDelayed \in Nat BY <1>1, LimitsAssumption
<1>8. count' = Len(pending') /\ count' <= MaxDelayed BY <1>1, <1>2, <1>4, <1>5, <1>6, <1>7
<1>9. timer' = armDelayedResponseTimer(pending', Off) BY DEF flushDelayedResponses
<1>10. timer' \in Nat \cup {Off} /\ Covers(timer', pending') BY <1>5, <1>9, ArmedTimer
<1>11. QED BY <1>5, <1>8, <1>10 DEF ListOK, InDueOrder, Covers

LEMMA TickKeepsList ==
  ASSUME ListOK, Tick
  PROVE  ListOK'
<1>1. /\ pending \in Seq(Pending) /\ InDueOrder(pending) /\ count = Len(pending)
      /\ count <= MaxDelayed /\ Covers(timer, pending) /\ timer \in Nat
  BY DEF ListOK, Tick
<1>2. \A i \in 1 .. Len(pending) : pending[i] \in Pending /\ pending[i].due \in Nat
  BY <1>1, PendingFields
<1>3. \A t \in Nat : less(t) \in Nat
  BY DEF less
<1>4. pending' = [i \in 1 .. Len(pending) |-> [pending[i] EXCEPT !.due = less(pending[i].due)]]
  BY <1>1 DEF Tick
<1>5. ASSUME NEW i \in 1 .. Len(pending)
      PROVE  pending'[i] \in Pending /\ pending'[i].due = less(pending[i].due)
  BY <1>2, <1>3, <1>4 DEF Pending
<1>6. pending' \in Seq(Pending) /\ Len(pending') = Len(pending)
  <2>1. Len(pending) \in Nat BY <1>1
  <2>2. QED BY <1>4, <1>5, <2>1
<1>7. \A x, y \in Nat : x <= y => less(x) <= less(y) BY DEF less
<1>8. InDueOrder(pending')
  BY <1>1, <1>2, <1>5, <1>6, <1>7 DEF InDueOrder
<1>9. timer' = less(timer) BY DEF Tick
<1>10. Covers(timer', pending')
  <2> SUFFICES ASSUME NEW i \in 1 .. Len(pending) PROVE timer' # Off /\ timer' <= pending'[i].due
    BY <1>6 DEF Covers
  <2>1. timer <= pending[i].due BY <1>1 DEF Covers
  <2>2. timer' <= pending'[i].due BY <1>1, <1>2, <1>5, <1>7, <1>9, <2>1
  <2>3. timer' \in Nat BY <1>1, <1>3, <1>9
  <2>4. QED BY <2>2, <2>3, OffAssumption
<1>11. QED BY <1>1, <1>3, <1>6, <1>8, <1>9, <1>10 DEF ListOK, InDueOrder, Covers, Tick

LEMMA NextIInv == IInv /\ [Next]_vars => IInv'
<1> SUFFICES ASSUME IInv, [Next]_vars PROVE IInv'
  OBVIOUS
<1>1. BuffersOK /\ setting \in Settings /\ ListOK BY DEF IInv
<1>2. ASSUME UNCHANGED <<buffer, reading, setting, pending, count, timer>> PROVE IInv'
  BY <1>1, <1>2, ListUnchanged DEF IInv, BuffersOK
<1>3. CASE openServer BY <1>2, <1>3 DEF openServer
<1>4. CASE close
  <2>1. ListOK' BY <1>4, LimitsAssumption DEF close, ListOK, InDueOrder, Covers
  <2>2. BuffersOK' BY <1>1, <1>4 DEF close, BuffersOK
  <2>3. QED BY <1>1, <1>4, <2>1, <2>2 DEF IInv, close
<1>5. ASSUME NEW s \in Sockets, on_newConnection(s) PROVE IInv'
  BY <1>2, <1>5 DEF on_newConnection
<1>6. ASSUME NEW s \in Sockets, disconnected(s) PROVE IInv'
  <2>1. ListOK' BY <1>1, <1>6, ListUnchanged DEF disconnected
  <2>2. BuffersOK' BY <1>1, <1>6 DEF disconnected, BuffersOK
  <2>3. QED BY <1>1, <1>6, <2>1, <2>2 DEF IInv, disconnected
<1>7. ASSUME NEW s \in Sockets, NEW batch \in Batches, readyRead(s, batch) PROVE IInv'
  <2>1. PICK n \in 1 .. MaxBatch : batch \in [1 .. n -> Requests] BY DEF Batches
  <2>2. n \in Nat /\ n >= 1 BY LimitsAssumption
  <2>3. batch \in Seq(Requests) /\ Len(batch) >= 1 BY <2>1, <2>2
  <2>4. buffer[s] \in Seq(Requests) BY <1>1 DEF BuffersOK
  <2>5. buffer[s] \o batch \in Seq(Requests) /\ buffer[s] \o batch # <<>> BY <2>3, <2>4
  <2>6. buffer' = [buffer EXCEPT ![s] = buffer[s] \o batch] /\ reading' = s
    BY <1>7 DEF readyRead
  <2>7. BuffersOK' BY <1>1, <2>5, <2>6 DEF BuffersOK
  <2>8. ListOK' BY <1>1, <1>7, ListUnchanged DEF readyRead
  <2>9. QED BY <1>1, <1>7, <2>7, <2>8 DEF IInv, readyRead
<1>8. ASSUME NEW s \in Sockets, process(s) PROVE IInv'
  <2>1. BuffersOK' BY <1>8, ProcessBuffers DEF process, skipRequest, muteRequest, answerRequest
  <2>2. setting' \in Settings BY <1>1, <1>8 DEF process, skipRequest, muteRequest, answerRequest
  <2>3. CASE skipRequest(s) \/ muteRequest(s)
    <3>1. ListOK' BY <1>1, <2>3, ListUnchanged DEF skipRequest, muteRequest
    <3>2. QED BY <2>1, <2>2, <3>1 DEF IInv
  <2>4. ASSUME NEW delay \in setting.delays, answerRequest(s, delay) PROVE IInv'
    <3>1. delay \in Nat BY <1>1, SettingFields
    <3>2. ListOK' BY <2>4, <3>1, AnswerKeepsList
    <3>3. QED BY <2>1, <2>2, <3>2 DEF IInv
  <2>5. QED BY <1>8, <2>3, <2>4 DEF process
<1>9. ASSUME NEW x \in Settings, setDefinitions(x) PROVE IInv'
  BY <1>1, <1>9, ListUnchanged DEF setDefinitions, IInv, BuffersOK
<1>10. CASE timeout
  BY <1>1, <1>10, FlushKeepsList DEF timeout, IInv, BuffersOK
<1>11. CASE Tick
  BY <1>1, <1>11, TickKeepsList DEF Tick, IInv, BuffersOK
<1>12. CASE UNCHANGED vars BY <1>2, <1>12 DEF vars
<1>13. QED
  BY <1>3, <1>4, <1>5, <1>6, <1>7, <1>8, <1>9, <1>10, <1>11, <1>12 DEF Next

LEMMA InvariantHolds == Spec => []IInv
BY InitIInv, NextIInv, PTL DEF Spec

-----------------------------------------------------------------------------
\* The count the limit is compared with is the length of the list, through
\* flushes, lost connections and a closed server (_delayedResponseCount).
THEOREM CountIsLength == Spec => []CountIsExact
<1>1. IInv => CountIsExact BY DEF IInv, ListOK, CountIsExact
<1>2. QED BY <1>1, InvariantHolds, PTL

\* The list of delayed responses never outgrows its limit
\* (_maxDelayedResponses).
THEOREM ListIsBounded == Spec => [](Len(pending) <= MaxDelayed)
<1>1. IInv => Len(pending) <= MaxDelayed BY DEF IInv, ListOK
<1>2. QED BY <1>1, InvariantHolds, PTL

\* The timer is on as long as a response waits, and set for no later than the
\* first of them (armDelayedResponseTimer).
THEOREM TimerIsInTime == Spec => []TimerCovers
<1>1. IInv => TimerCovers
  <2> SUFFICES ASSUME IInv PROVE TimerCovers
    OBVIOUS
  <2>1. pending \in Seq(Pending) /\ Covers(timer, pending) BY DEF IInv, ListOK
  <2>2. DOMAIN pending = 1 .. Len(pending) BY <2>1
  <2>3. QED BY <2>1, <2>2 DEF Covers, TimerCovers
<1>2. QED BY <1>1, InvariantHolds, PTL
-----------------------------------------------------------------------------
(* What a list owes a socket: how many responses, and to which requests.   *)

owing(s, seq) == {seq[i].request : i \in placesOf(s, seq)}

\* A list is its first responses and the others.
LEMMA Split ==
  ASSUME NEW seq \in Seq(Pending), NEW n \in 0 .. Len(seq)
  PROVE  LET front == SubSeq(seq, 1, n)
             back == SubSeq(seq, n + 1, Len(seq))
         IN front \in Seq(Pending) /\ back \in Seq(Pending) /\ seq = front \o back
<1> DEFINE front == SubSeq(seq, 1, n)
           back == SubSeq(seq, n + 1, Len(seq))
<1>1. Len(seq) \in Nat OBVIOUS
<1>2. front \in Seq(Pending) /\ Len(front) = n /\ \A i \in 1 .. n : front[i] = seq[i] BY <1>1
<1>3. /\ back \in Seq(Pending) /\ Len(back) = Len(seq) - n
      /\ \A i \in 1 .. Len(seq) - n : back[i] = seq[i + n]
  BY <1>1
<1> HIDE DEF front, back
<1>4. /\ front \o back \in Seq(Pending) /\ Len(front \o back) = Len(seq)
      /\ \A i \in 1 .. n : (front \o back)[i] = front[i]
      /\ \A i \in 1 .. Len(seq) - n : (front \o back)[i + n] = back[i]
  BY <1>1, <1>2, <1>3
<1>5. ASSUME NEW i \in 1 .. Len(seq) PROVE (front \o back)[i] = seq[i]
  <2>1. CASE i <= n
    <3>1. i \in 1 .. n BY <1>1, <2>1
    <3>2. QED BY <1>2, <1>4, <3>1
  <2>2. CASE i > n
    <3>1. i - n \in 1 .. Len(seq) - n /\ i - n + n = i BY <1>1, <2>2
    <3>2. PICK j \in 1 .. Len(seq) - n : j + n = i BY <3>1
    <3>3. (front \o back)[j + n] = back[j] BY <1>4
    <3>4. back[j] = seq[j + n] BY <1>3
    <3>5. QED BY <3>2, <3>3, <3>4
  <2>3. i <= n \/ i > n BY <1>1
  <2>4. QED BY <2>1, <2>2, <2>3
<1>6. seq = front \o back BY <1>4, <1>5, SeqEqual
<1>7. QED BY <1>2, <1>3, <1>6 DEF front, back

LEMMA Places ==
  ASSUME NEW seq \in Seq(Pending), NEW s
  PROVE  /\ placesOf(s, seq) \subseteq 1 .. Len(seq)
         /\ IsFiniteSet(placesOf(s, seq))
         /\ Cardinality(placesOf(s, seq)) \in Nat
<1>1. Len(seq) \in Nat OBVIOUS
<1>2. placesOf(s, seq) \in SUBSET (1 .. Len(seq)) BY DEF placesOf
<1>3. IsFiniteSet(1 .. Len(seq)) BY <1>1, FS_Interval
<1>4. IsFiniteSet(placesOf(s, seq)) BY <1>2, <1>3, FS_Subset
<1>5. QED BY <1>2, <1>4, FS_CardinalityType

\* Numbering a finite set of numbers from below reaches every number up to its
\* size, and gives each element a number of its own.
LEMMA Ranks ==
  ASSUME NEW S \in SUBSET Nat, IsFiniteSet(S)
  PROVE  LET rank(i) == Cardinality({j \in S : j <= i})
         IN /\ \A i \in S : rank(i) \in 1 .. Cardinality(S)
            /\ \A k \in 1 .. Cardinality(S) : \E i \in S : rank(i) = k
            /\ \A i, j \in S : rank(i) = rank(j) => i = j
<1> DEFINE below(i) == {j \in S : j <= i}
           rank(i) == Cardinality(below(i))
           n == Cardinality(S)
           f == [i \in S |-> rank(i)]
<1>1. n \in Nat BY FS_CardinalityType
<1>2. ASSUME NEW i \in S
      PROVE  IsFiniteSet(below(i)) /\ rank(i) \in 1 .. n
  <2>1. below(i) \in SUBSET S OBVIOUS
  <2> HIDE DEF below
  <2>2. IsFiniteSet(below(i)) /\ rank(i) <= n BY <2>1, FS_Subset
  <2>3. rank(i) \in Nat BY <2>2, FS_CardinalityType
  <2>4. below(i) # {} BY <1>2 DEF below
  <2>5. rank(i) # 0 BY <2>2, <2>4, FS_EmptySet
  <2>6. QED BY <1>1, <2>2, <2>3, <2>5
<1>3. ASSUME NEW i \in S, NEW j \in S, rank(i) = rank(j), i <= j PROVE i = j
  <2>1. below(i) \in SUBSET below(j)
    <3>1. \A k \in S : k <= i => k <= j BY <1>3
    <3>2. QED BY <3>1
  <2>2. j \in below(j) OBVIOUS
  <2>3. j \in below(i) => j <= i OBVIOUS
  <2> HIDE DEF below
  <2>4. below(i) = below(j) BY <1>2, <1>3, <2>1, FS_Subset
  <2>5. QED BY <1>3, <2>2, <2>3, <2>4
<1>4. ASSUME NEW i \in S, NEW j \in S, rank(i) = rank(j) PROVE i = j
  <2>1. i <= j \/ j <= i OBVIOUS
  <2> HIDE DEF rank
  <2>2. QED BY <1>3, <1>4, <2>1
<1> HIDE DEF rank, n
<1>5. f \in [S -> 1 .. n] BY <1>2
<1>6. f \in Injection(S, 1 .. n) BY <1>4, <1>5 DEF Injection, IsInjective
<1>7. IsFiniteSet(1 .. n) /\ Cardinality(1 .. n) = n BY <1>1, FS_Interval
<1>8. f \in Surjection(S, 1 .. n)
  <2> HIDE DEF f
  <2>1. Cardinality(S) = Cardinality(1 .. n) BY <1>7 DEF n
  <2>2. QED BY <1>6, <1>7, <2>1, FS_Injection
<1>9. \A k \in 1 .. n : \E i \in S : rank(i) = k BY <1>8 DEF Surjection
<1>10. QED BY <1>2, <1>4, <1>9 DEF rank, n

\* requestsTo lists what is owed, as often as the list has it.
LEMMA ListsWhatIsOwed ==
  ASSUME NEW seq \in Seq(Pending), NEW s
  PROVE  /\ requestsTo(s, seq) \in Seq(Requests)
         /\ Len(requestsTo(s, seq)) = Cardinality(placesOf(s, seq))
         /\ Range(requestsTo(s, seq)) = owing(s, seq)
<1> DEFINE S == placesOf(s, seq)
           n == Cardinality(S)
           rank(i) == Cardinality({j \in S : j <= i})
           at(k) == CHOOSE i \in S : rank(i) = k
           list == [k \in 1 .. n |-> seq[at(k)].request]
<1>1. S \subseteq 1 .. Len(seq) /\ IsFiniteSet(S) /\ n \in Nat BY Places
<1>2. /\ \A i \in S : rank(i) \in 1 .. n
      /\ \A k \in 1 .. n : \E i \in S : rank(i) = k
      /\ \A i, j \in S : rank(i) = rank(j) => i = j
  <2>1. S \in SUBSET Nat BY <1>1
  <2> HIDE DEF S
  <2>2. QED BY <1>1, <2>1, Ranks
<1>3. requestsTo(s, seq) = list BY DEF requestsTo
<1>4. \A i \in S : seq[i].request \in Requests BY <1>1, PendingFields
<1>5. owing(s, seq) = {seq[i].request : i \in S} BY DEF owing
<1> HIDE DEF S, n, rank
<1>6. \A k \in 1 .. n : at(k) \in S /\ rank(at(k)) = k
  <2> TAKE k \in 1 .. n
  <2>1. \E i \in S : rank(i) = k BY <1>2
  <2>2. QED BY <2>1
<1>7. \A i \in S : at(rank(i)) = i
  <2> SUFFICES ASSUME NEW i \in S PROVE at(rank(i)) = i
    OBVIOUS
  <2>1. rank(i) \in 1 .. n BY <1>2
  <2>2. at(rank(i)) \in S /\ rank(at(rank(i))) = rank(i) BY <1>6, <2>1
  <2> HIDE DEF at
  <2>3. QED BY <1>2, <2>2
<1> HIDE DEF at
<1>8. list \in Seq(Requests) /\ Len(list) = n
  <2>1. list \in [1 .. n -> Requests] BY <1>4, <1>6
  <2>2. QED BY <1>1, <2>1
<1>9. Range(list) = {seq[i].request : i \in S}
  <2>1. Range(list) = {seq[at(k)].request : k \in 1 .. n} BY DEF Range
  <2>2. \A k \in 1 .. n : \E i \in S : seq[at(k)].request = seq[i].request BY <1>6
  <2>3. \A i \in S : \E k \in 1 .. n : seq[i].request = seq[at(k)].request
    <3> SUFFICES ASSUME NEW i \in S
                 PROVE  \E k \in 1 .. n : seq[i].request = seq[at(k)].request
      OBVIOUS
    <3>1. rank(i) \in 1 .. n /\ at(rank(i)) = i BY <1>2, <1>7
    <3>2. QED BY <3>1
  <2>4. QED BY <2>1, <2>2, <2>3
<1>10. QED BY <1>3, <1>5, <1>8, <1>9 DEF S, n

\* What two lists owe, one after the other.
LEMMA OwingJoined ==
  ASSUME NEW a \in Seq(Pending), NEW b \in Seq(Pending), NEW s
  PROVE  /\ Cardinality(placesOf(s, a \o b))
              = Cardinality(placesOf(s, a)) + Cardinality(placesOf(s, b))
         /\ owing(s, a \o b) = owing(s, a) \cup owing(s, b)
<1> DEFINE A == placesOf(s, a)
           B == placesOf(s, b)
           m == Len(a)
           C == {i + m : i \in B}
           f == [i \in B |-> i + m]
<1>1. m \in Nat /\ A \subseteq 1 .. m /\ B \subseteq 1 .. Len(b) /\ Len(b) \in Nat
      /\ IsFiniteSet(A) /\ IsFiniteSet(B)
  BY Places
<1>2. /\ a \o b \in Seq(Pending) /\ Len(a \o b) = m + Len(b)
      /\ \A i \in 1 .. m : (a \o b)[i] = a[i]
      /\ \A i \in 1 .. Len(b) : (a \o b)[i + m] = b[i]
  OBVIOUS
<1>3. placesOf(s, a \o b) = A \cup C
  <2>1. ASSUME NEW i \in placesOf(s, a \o b) PROVE i \in A \cup C
    <3>1. i \in 1 .. m + Len(b) /\ (a \o b)[i].socket = s BY <1>2, <2>1 DEF placesOf
    <3>2. CASE i <= m
      <4>1. i \in 1 .. m /\ a[i].socket = s BY <1>1, <1>2, <3>1, <3>2
      <4>2. QED BY <4>1 DEF placesOf
    <3>3. CASE i > m
      <4>1. i - m \in 1 .. Len(b) /\ i - m + m = i BY <1>1, <3>1, <3>3
      <4>2. b[i - m].socket = s BY <1>2, <3>1, <4>1
      <4>3. i - m \in B BY <4>1, <4>2 DEF placesOf
      <4>4. QED BY <4>1, <4>3
    <3>4. QED BY <1>1, <3>1, <3>2, <3>3
  <2>2. ASSUME NEW i \in A PROVE i \in placesOf(s, a \o b)
    <3>1. i \in 1 .. m /\ a[i].socket = s BY <2>2 DEF placesOf
    <3>2. i \in 1 .. m + Len(b) BY <1>1, <3>1
    <3>3. QED BY <1>2, <3>1, <3>2 DEF placesOf
  <2>3. ASSUME NEW i \in B PROVE i + m \in placesOf(s, a \o b)
    <3>1. i \in 1 .. Len(b) /\ b[i].socket = s BY <2>3 DEF placesOf
    <3>2. i + m \in 1 .. m + Len(b) BY <1>1, <3>1
    <3>3. QED BY <1>2, <3>1, <3>2 DEF placesOf
  <2>4. QED BY <2>1, <2>2, <2>3
<1> HIDE DEF A, B, m
<1>4. IsFiniteSet(C) /\ Cardinality(C) = Cardinality(B)
  <2>1. \A i, j \in B : i + m = j + m => i = j BY <1>1
  <2>2. f \in Bijection(B, C) BY <2>1 DEF Bijection, Injection, Surjection, IsInjective
  <2>3. ExistsBijection(B, C) BY <2>2 DEF ExistsBijection
  <2> HIDE DEF C
  <2>4. QED BY <1>1, <2>3, FS_Bijection
<1>5. A \cap C = {} BY <1>1
<1>6. Cardinality(A \cup C) = Cardinality(A) + Cardinality(B)
  <2>1. /\ Cardinality(A) \in Nat /\ Cardinality(C) \in Nat
        /\ Cardinality(A \cap C) = 0
    BY <1>1, <1>4, <1>5, FS_CardinalityType, FS_EmptySet
  <2> HIDE DEF C
  <2>2. Cardinality(A \cup C) = Cardinality(A) + Cardinality(C) - Cardinality(A \cap C)
    BY <1>1, <1>4, FS_Union
  <2>3. QED BY <1>4, <2>1, <2>2
<1>7. owing(s, a \o b) = owing(s, a) \cup owing(s, b)
  <2>1. owing(s, a \o b) = {(a \o b)[i].request : i \in A \cup C} BY <1>3 DEF owing
  <2>2. owing(s, a) = {a[i].request : i \in A} /\ owing(s, b) = {b[i].request : i \in B}
    BY DEF owing, A, B
  <2>3. \A i \in A : (a \o b)[i] = a[i] BY <1>1, <1>2
  <2>4. \A i \in B : (a \o b)[i + m] = b[i] BY <1>1, <1>2
  <2>5. owing(s, a \o b) = {(a \o b)[i].request : i \in A}
                             \cup {(a \o b)[i + m].request : i \in B}
    BY <2>1
  <2>6. {(a \o b)[i].request : i \in A} = {a[i].request : i \in A} BY <2>3
  <2>7. {(a \o b)[i + m].request : i \in B} = {b[i].request : i \in B} BY <2>4
  <2>8. QED BY <2>2, <2>5, <2>6, <2>7
<1>8. QED BY <1>3, <1>6, <1>7 DEF A, B

LEMMA OwingOne ==
  ASSUME NEW p \in Pending, NEW s
  PROVE  /\ Cardinality(placesOf(s, <<p>>)) = IF p.socket = s THEN 1 ELSE 0
         /\ owing(s, <<p>>) = IF p.socket = s THEN {p.request} ELSE {}
<1>1. placesOf(s, <<p>>) = IF p.socket = s THEN {1} ELSE {} BY DEF placesOf
<1>2. Cardinality({1}) = 1 /\ Cardinality({}) = 0 BY FS_Singleton, FS_EmptySet
<1>3. QED BY <1>1, <1>2 DEF owing

-----------------------------------------------------------------------------
(* The connections.                                                        *)

ConnectionsOK == open \subseteq Sockets /\ reading \in open \cup {NoSocket}

LEMMA ConnectionsHold == Spec => []ConnectionsOK
<1>1. Init => ConnectionsOK BY DEF Init, ConnectionsOK
<1>2. ConnectionsOK /\ [Next]_vars => ConnectionsOK'
  <2> SUFFICES ASSUME ConnectionsOK, [Next]_vars PROVE ConnectionsOK'
    OBVIOUS
  <2>1. CASE openServer BY <2>1 DEF openServer, ConnectionsOK
  <2>2. CASE close BY <2>2 DEF close, ConnectionsOK
  <2>3. ASSUME NEW s \in Sockets, on_newConnection(s) PROVE ConnectionsOK'
    BY <2>3 DEF on_newConnection, ConnectionsOK
  <2>4. ASSUME NEW s \in Sockets, disconnected(s) PROVE ConnectionsOK'
    BY <2>4 DEF disconnected, ConnectionsOK
  <2>5. ASSUME NEW s \in Sockets, NEW batch, readyRead(s, batch) PROVE ConnectionsOK'
    BY <2>5 DEF readyRead, ConnectionsOK
  <2>6. ASSUME NEW s \in Sockets, process(s) PROVE ConnectionsOK'
    <3>1. reading = s /\ open' = open /\ reading' \in {NoSocket, s}
      BY <2>6 DEF process, skipRequest, muteRequest, answerRequest, taken, goesOn
    <3>2. s \in open BY <3>1, OffAssumption DEF ConnectionsOK
    <3>3. QED BY <3>1, <3>2 DEF ConnectionsOK
  <2>7. ASSUME NEW x \in Settings, setDefinitions(x) PROVE ConnectionsOK'
    BY <2>7 DEF setDefinitions, ConnectionsOK
  <2>8. CASE timeout BY <2>8 DEF timeout, ConnectionsOK
  <2>9. CASE Tick BY <2>9 DEF Tick, ConnectionsOK
  <2>10. CASE UNCHANGED vars BY <2>10 DEF vars, ConnectionsOK
  <2>11. QED
    BY <2>1, <2>2, <2>3, <2>4, <2>5, <2>6, <2>7, <2>8, <2>9, <2>10 DEF Next
<1>3. QED BY <1>1, <1>2, PTL DEF Spec

-----------------------------------------------------------------------------
(* The refinement.  A step answers what it takes off the list, and keeps   *)
(* on the list what it does not answer; only close() may drop responses of *)
(* a socket it leaves connected.                                           *)

\* What one socket is owed after a step, and what the step has written to it,
\* is what it was owed before and one new request, if any.
LEMMA SocketServed ==
  ASSUME NEW s \in open', NEW list \in Seq(Pending), NEW left \in Seq(Pending),
         NEW sent \in Seq(Requests), NEW new \in {<<>>} \cup {<<r>> : r \in Requests},
         s \in Sockets, owedBar[s] = requestsTo(s, list),
         owedBar'[s] = requestsTo(s, left), out'[s] = sent,
         Cardinality(placesOf(s, list)) + Len(new)
           = Len(sent) + Cardinality(placesOf(s, left)),
         owing(s, list) \cup Range(new) = Range(sent) \cup owing(s, left)
  PROVE  Channel!Serve(s)
<1> DEFINE before == requestsTo(s, list)
           after == requestsTo(s, left)
<1>1. /\ before \in Seq(Requests) /\ Len(before) = Cardinality(placesOf(s, list))
      /\ Range(before) = owing(s, list)
  BY ListsWhatIsOwed
<1>2. /\ after \in Seq(Requests) /\ Len(after) = Cardinality(placesOf(s, left))
      /\ Range(after) = owing(s, left)
  BY ListsWhatIsOwed
<1> HIDE DEF before, after
<1>3. new \in Seq(Requests)
  <2>1. CASE new = <<>> BY <2>1
  <2>2. ASSUME NEW r \in Requests, new = <<r>> PROVE new \in Seq(Requests) BY <2>2
  <2>3. QED BY <2>1, <2>2
<1>4. ASSUME NEW x \in Seq(Requests), NEW y \in Seq(Requests)
      PROVE  Len(x \o y) = Len(x) + Len(y) /\ Range(x \o y) = Range(x) \cup Range(y)
  <2>1. /\ x \o y \in Seq(Requests) /\ Len(x \o y) = Len(x) + Len(y)
        /\ \A i \in 1 .. Len(x) : (x \o y)[i] = x[i]
        /\ \A i \in 1 .. Len(y) : (x \o y)[i + Len(x)] = y[i]
    OBVIOUS
  <2>2. Len(x) \in Nat /\ Len(y) \in Nat OBVIOUS
  <2>3. ASSUME NEW i \in 1 .. Len(x) + Len(y) PROVE (x \o y)[i] \in Range(x) \cup Range(y)
    <3>1. CASE i <= Len(x)
      <4>1. i \in 1 .. Len(x) BY <2>2, <3>1
      <4>2. QED BY <2>1, <4>1 DEF Range
    <3>2. CASE i > Len(x)
      <4>1. i - Len(x) \in 1 .. Len(y) /\ i - Len(x) + Len(x) = i BY <2>2, <3>2
      <4>2. (x \o y)[i] = y[i - Len(x)] BY <2>1, <4>1
      <4>3. QED BY <4>1, <4>2 DEF Range
    <3>3. QED BY <2>2, <3>1, <3>2
  <2>4. /\ Range(x) = {x[i] : i \in 1 .. Len(x)} /\ Range(y) = {y[i] : i \in 1 .. Len(y)}
        /\ Range(x \o y) = {(x \o y)[i] : i \in 1 .. Len(x \o y)}
    <3>1. \A z \in Seq(Requests) : Range(z) = {z[i] : i \in 1 .. Len(z)} BY DEF Range
    <3>2. QED BY <2>1, <3>1
  <2>5. ASSUME NEW i \in 1 .. Len(x) PROVE x[i] \in Range(x \o y)
    <3>1. i \in 1 .. Len(x \o y) BY <2>1, <2>2
    <3>2. QED BY <2>1, <2>4, <3>1
  <2>6. ASSUME NEW i \in 1 .. Len(y) PROVE y[i] \in Range(x \o y)
    <3>1. i + Len(x) \in 1 .. Len(x \o y) BY <2>1, <2>2
    <3>2. (x \o y)[i + Len(x)] \in Range(x \o y) BY <2>4, <3>1
    <3>3. QED BY <2>1, <3>2
  <2>7. Range(x \o y) = {(x \o y)[i] : i \in 1 .. Len(x) + Len(y)} BY <2>1, <2>4
  <2>8. Range(x \o y) \subseteq Range(x) \cup Range(y) BY <2>3, <2>7
  <2>9. Range(x) \cup Range(y) \subseteq Range(x \o y) BY <2>4, <2>5, <2>6
  <2>10. QED BY <2>1, <2>8, <2>9
<1>5. Len(before \o new) = Len(sent \o after) /\ Range(before \o new) = Range(sent \o after)
  <2>1. Len(before \o new) = Len(before) + Len(new)
        /\ Range(before \o new) = Range(before) \cup Range(new)
    BY <1>1, <1>3, <1>4
  <2>2. Len(sent \o after) = Len(sent) + Len(after)
        /\ Range(sent \o after) = Range(sent) \cup Range(after)
    BY <1>2, <1>4
  <2>3. QED BY <1>1, <1>2, <2>1, <2>2
<1>6. Channel!Same(before \o new, sent \o after)
  <2>1. \A x : Channel!Range(x) = Range(x) BY DEF Channel!Range, Range
  <2>2. QED BY <1>5, <2>1 DEF Channel!Same
<1>7. QED BY <1>6 DEF Channel!Serve, before, after

\* What the list stands for, before and after a step.
LEMMA OwedBar ==
  ASSUME NEW s \in Sockets
  PROVE  /\ s \in open => owedBar[s] = requestsTo(s, pending)
         /\ s \notin open => owedBar[s] = <<>>
         /\ s \in open' => owedBar'[s] = requestsTo(s, pending')
         /\ s \notin open' => owedBar'[s] = <<>>
BY DEF owedBar

LEMMA OwingNothing ==
  ASSUME NEW s
  PROVE  /\ Cardinality(placesOf(s, <<>>)) = 0
         /\ owing(s, <<>>) = {}
<1>1. placesOf(s, <<>>) = {} BY DEF placesOf
<1>2. QED BY <1>1, FS_EmptySet DEF owing

\* The list after a step and what the step has written to a socket, against
\* the list before it and a new request.
Accounts(s, list, new, sent, left) ==
  /\ Cardinality(placesOf(s, list)) + Len(new) = Len(sent) + Cardinality(placesOf(s, left))
  /\ owing(s, list) \cup Range(new) = Range(sent) \cup owing(s, left)

News == {<<>>} \cup {<<r>> : r \in Requests}

LEMMA StepServes ==
  ASSUME IInv, IInv', ConnectionsOK',
         \A s \in open' : s \notin open => placesOf(s, pending) = {},
         \A s \in open' : /\ out'[s] \in Seq(Requests)
                          /\ \E new \in News : Accounts(s, pending, new, out'[s], pending'),
         \A s \in Sockets \ open' : out'[s] = <<>>
  PROVE  Channel!Next
<1>1. pending \in Seq(Pending) /\ pending' \in Seq(Pending) BY DEF IInv, ListOK
<1>2. open' \subseteq Sockets BY DEF ConnectionsOK
<1>3. ASSUME NEW s \in Sockets \ open' PROVE Channel!Gone(s)
  <2>1. owedBar'[s] = <<>> BY OwedBar
  <2>2. QED BY <1>3, <2>1 DEF Channel!Gone
<1>4. ASSUME NEW s \in open' PROVE Channel!Serve(s)
  <2>1. PICK list, left, sent : list = pending /\ left = pending' /\ sent = out'[s]
    OBVIOUS
  <2>2. list \in Seq(Pending) /\ left \in Seq(Pending) /\ s \in Sockets /\ sent \in Seq(Requests)
    BY <1>1, <1>2, <2>1
  <2>3. PICK new \in News : Accounts(s, list, new, sent, left)
    <3>1. \E new \in News : Accounts(s, pending, new, out'[s], pending') BY <1>4
    <3>2. QED BY <2>1, <3>1
  <2>4. owedBar'[s] = requestsTo(s, left) BY <2>1, <2>2, OwedBar
  <2>5. owedBar[s] = requestsTo(s, list)
    <3>1. CASE s \in open BY <2>1, <2>2, <3>1, OwedBar
    <3>2. CASE s \notin open
      <4>1. placesOf(s, list) = {} BY <2>1, <3>2
      <4>2. /\ requestsTo(s, list) \in Seq(Requests)
            /\ Len(requestsTo(s, list)) = Cardinality(placesOf(s, list))
        BY <2>2, ListsWhatIsOwed
      <4>3. requestsTo(s, list) = <<>> BY <4>1, <4>2, FS_EmptySet
      <4>4. QED BY <2>2, <3>2, <4>3, OwedBar
    <3>3. QED BY <3>1, <3>2
  <2>6. QED BY <2>1, <2>2, <2>3, <2>4, <2>5, SocketServed DEF Accounts, News
<1>5. QED BY <1>2, <1>3, <1>4 DEF Channel!Next

LEMMA NothingOfNone ==
  /\ <<>> \in Seq(Requests) /\ <<>> \in News
  /\ Len(<<>>) = 0 /\ Range(<<>>) = {}
BY DEF News, Range

\* A step that answers nothing and keeps the list, but for the time that is
\* left.
LEMMA QuietStepServes ==
  ASSUME IInv, IInv', ConnectionsOK', out' = Nothing,
         \A s \in open' : s \notin open => placesOf(s, pending) = {},
         \A s \in open' : /\ placesOf(s, pending') = placesOf(s, pending)
                          /\ owing(s, pending') = owing(s, pending)
  PROVE  Channel!Next
<1>1. open' \subseteq Sockets BY DEF ConnectionsOK
<1>2. \A s \in Sockets : out'[s] = <<>> BY DEF Nothing
<1>3. ASSUME NEW s \in open' PROVE Accounts(s, pending, <<>>, out'[s], pending')
  <2>1. Cardinality(placesOf(s, pending)) \in Nat BY Places DEF IInv, ListOK
  <2>2. out'[s] = <<>> BY <1>1, <1>2
  <2>3. QED BY <2>1, <2>2, NothingOfNone DEF Accounts
<1>4. QED BY <1>1, <1>2, <1>3, NothingOfNone, StepServes

\* A response is written at once, or it is entered in the list.
LEMMA AnswerServes ==
  ASSUME IInv, IInv', ConnectionsOK, ConnectionsOK', NEW s \in Sockets, NEW delay \in Nat,
         answerRequest(s, delay)
  PROVE  Channel!Next
<1> DEFINE r == Head(buffer[s])
<1>1. r \in Requests BY ProcessBuffers DEF answerRequest
<1>2. open' = open /\ s \in open
  <2>1. reading = s /\ open' = open BY DEF answerRequest, taken
  <2>2. QED BY <2>1, OffAssumption DEF ConnectionsOK
<1>3. pending \in Seq(Pending) /\ InDueOrder(pending) /\ open \subseteq Sockets
  BY DEF IInv, ListOK, ConnectionsOK
<1>4. Len(<<r>>) = 1 /\ Range(<<r>>) = {r} /\ <<r>> \in Seq(Requests) /\ <<r>> \in News
  BY <1>1 DEF Range, News
<1>5. \A t \in Sockets : Cardinality(placesOf(t, pending)) \in Nat BY <1>3, Places
<1> DEFINE p == [socket |-> s, request |-> r, due |-> delay]
<1>6. CASE out' = [Nothing EXCEPT ![s] = <<r>>] /\ pending' = pending
  <2>1. out'[s] = <<r>> /\ \A t \in Sockets \ {s} : out'[t] = <<>> BY <1>6 DEF Nothing
  <2> HIDE DEF r
  <2>2. Accounts(s, pending, <<r>>, out'[s], pending')
    <3>1. \A list : Cardinality(placesOf(s, list)) \in Nat => Accounts(s, list, <<r>>, <<r>>, list)
      BY <1>4 DEF Accounts
    <3>2. Accounts(s, pending, <<r>>, <<r>>, pending) BY <1>5, <3>1
    <3>3. QED BY <1>6, <2>1, <3>2
  <2>3. ASSUME NEW t \in Sockets \ {s} PROVE Accounts(t, pending, <<>>, out'[t], pending')
    BY <1>5, <1>6, <2>1, NothingOfNone DEF Accounts
  <2>4. ASSUME NEW t \in open'
        PROVE  /\ out'[t] \in Seq(Requests)
               /\ \E new \in News : Accounts(t, pending, new, out'[t], pending')
    <3>1. CASE t = s BY <1>4, <2>1, <2>2, <3>1
    <3>2. CASE t # s
      <4>1. t \in Sockets \ {s} BY <1>2, <1>3, <3>2
      <4>2. QED BY <2>1, <2>3, <4>1, NothingOfNone
    <3>3. QED BY <3>1, <3>2
  <2>5. \A t \in Sockets \ open' : out'[t] = <<>> BY <1>2, <2>1
  <2>6. QED BY <1>2, <2>4, <2>5, StepServes
<1>7. CASE out' = Nothing /\ pending' = inserted(pending, p)
  <2>1. p \in Pending /\ p.socket = s /\ p.request = r /\ p.due \in Nat BY <1>1 DEF Pending
  <2> HIDE DEF p, r
  <2> DEFINE n == dueBy(pending, p.due)
             front == SubSeq(pending, 1, n)
             back == SubSeq(pending, n + 1, Len(pending))
  <2>2. n \in 0 .. Len(pending) BY <1>3, <2>1, DueByBounds
  <2>3. pending' = front \o <<p>> \o back BY <1>7 DEF inserted
  <2> HIDE DEF n
  <2>4. front \in Seq(Pending) /\ back \in Seq(Pending) /\ pending = front \o back
    BY <1>3, <2>2, Split
  <2> HIDE DEF front, back
  <2>5. <<p>> \in Seq(Pending) /\ front \o <<p>> \in Seq(Pending)
    BY <2>1, <2>4, ConcatProperties
  <2>6. ASSUME NEW t \in Sockets
        PROVE  /\ Cardinality(placesOf(t, pending'))
                    = Cardinality(placesOf(t, pending)) + (IF t = s THEN 1 ELSE 0)
               /\ owing(t, pending') = owing(t, pending) \cup (IF t = s THEN {r} ELSE {})
    <3>1. /\ Cardinality(placesOf(t, front \o back))
               = Cardinality(placesOf(t, front)) + Cardinality(placesOf(t, back))
          /\ owing(t, front \o back) = owing(t, front) \cup owing(t, back)
      BY <2>4, <2>5, OwingJoined
    <3>2. /\ Cardinality(placesOf(t, front \o <<p>>))
               = Cardinality(placesOf(t, front)) + Cardinality(placesOf(t, <<p>>))
          /\ owing(t, front \o <<p>>) = owing(t, front) \cup owing(t, <<p>>)
      BY <2>4, <2>5, OwingJoined
    <3>3. /\ Cardinality(placesOf(t, front \o <<p>> \o back))
               = Cardinality(placesOf(t, front \o <<p>>)) + Cardinality(placesOf(t, back))
          /\ owing(t, front \o <<p>> \o back)
               = owing(t, front \o <<p>>) \cup owing(t, back)
      BY <2>4, <2>5, OwingJoined
    <3>4. /\ Cardinality(placesOf(t, <<p>>)) = IF t = s THEN 1 ELSE 0
          /\ owing(t, <<p>>) = IF t = s THEN {r} ELSE {}
      BY <2>1, OwingOne
    <3>5. Cardinality(placesOf(t, front)) \in Nat /\ Cardinality(placesOf(t, back)) \in Nat
      BY <2>4, Places
    <3>6. Cardinality(placesOf(t, pending'))
            = Cardinality(placesOf(t, pending)) + Cardinality(placesOf(t, <<p>>))
      <4>1. Cardinality(placesOf(t, <<p>>)) \in Nat BY <3>4
      <4>2. QED BY <2>3, <2>4, <3>1, <3>2, <3>3, <3>5, <4>1
    <3>7. owing(t, pending') = owing(t, pending) \cup owing(t, <<p>>)
      BY <2>3, <2>4, <3>1, <3>2, <3>3
    <3>8. QED BY <3>4, <3>6, <3>7
  <2>7. \A t \in Sockets : out'[t] = <<>> BY <1>7 DEF Nothing
  <2>8. ASSUME NEW t \in open'
        PROVE  /\ out'[t] \in Seq(Requests)
               /\ \E new \in News : Accounts(t, pending, new, out'[t], pending')
    <3>1. t \in Sockets /\ out'[t] = <<>> BY <1>2, <1>3, <2>7
    <3>2. CASE t = s
      <4>1. Accounts(t, pending, <<r>>, <<>>, pending')
        BY <1>4, <1>5, <2>6, <3>1, <3>2, NothingOfNone DEF Accounts
      <4>2. QED BY <1>4, <3>1, <4>1, NothingOfNone
    <3>3. CASE t # s
      <4>1. Accounts(t, pending, <<>>, <<>>, pending')
        BY <1>5, <2>6, <3>1, <3>3, NothingOfNone DEF Accounts
      <4>2. QED BY <3>1, <4>1, NothingOfNone
    <3>4. QED BY <3>2, <3>3
  <2>9. QED BY <1>2, <2>7, <2>8, StepServes
<1>8. QED BY <1>6, <1>7 DEF answerRequest

\* What is due is written to the sockets that are still there.
LEMMA TimeoutServes ==
  ASSUME IInv, IInv', ConnectionsOK, ConnectionsOK', timeout
  PROVE  Channel!Next
<1> DEFINE n == dueBy(pending, 0)
           sent == SubSeq(pending, 1, n)
           left == SubSeq(pending, n + 1, Len(pending))
<1>1. pending \in Seq(Pending) /\ InDueOrder(pending) /\ open \subseteq Sockets
  BY DEF IInv, ListOK, ConnectionsOK
<1>2. n \in 0 .. Len(pending) BY <1>1, DueByBounds
<1>3. /\ open' = open /\ pending' = left
      /\ out' = [s \in Sockets |-> IF s \in open THEN requestsTo(s, sent) ELSE <<>>]
  BY DEF timeout, flushDelayedResponses, dueNow, notDue
<1> HIDE DEF n
<1>4. sent \in Seq(Pending) /\ left \in Seq(Pending) /\ pending = sent \o left
  BY <1>1, <1>2, Split
<1> HIDE DEF sent, left
<1>5. ASSUME NEW s \in open'
      PROVE  out'[s] \in Seq(Requests) /\ Accounts(s, pending, <<>>, out'[s], pending')
  <2>1. out'[s] = requestsTo(s, sent) BY <1>1, <1>3
  <2>2. /\ requestsTo(s, sent) \in Seq(Requests)
        /\ Len(requestsTo(s, sent)) = Cardinality(placesOf(s, sent))
        /\ Range(requestsTo(s, sent)) = owing(s, sent)
    BY <1>4, ListsWhatIsOwed
  <2>3. /\ Cardinality(placesOf(s, sent \o left))
             = Cardinality(placesOf(s, sent)) + Cardinality(placesOf(s, left))
        /\ owing(s, sent \o left) = owing(s, sent) \cup owing(s, left)
    BY <1>4, OwingJoined
  <2>4. Cardinality(placesOf(s, sent)) \in Nat /\ Cardinality(placesOf(s, left)) \in Nat
    BY <1>4, Places
  <2>5. Accounts(s, sent \o left, <<>>, requestsTo(s, sent), left)
    BY <2>2, <2>3, <2>4, NothingOfNone DEF Accounts
  <2>6. QED BY <1>3, <1>4, <2>1, <2>2, <2>5
<1>6. \A s \in Sockets \ open' : out'[s] = <<>> BY <1>3
<1>7. QED BY <1>3, <1>5, <1>6, NothingOfNone, StepServes

\* Time takes nothing off the list.
LEMMA TickServes ==
  ASSUME IInv, IInv', ConnectionsOK', Tick
  PROVE  Channel!Next
<1>1. pending \in Seq(Pending) BY DEF IInv, ListOK
<1>2. /\ open' = open /\ out' = Nothing
      /\ pending' = [i \in 1 .. Len(pending) |-> [pending[i] EXCEPT !.due = less(pending[i].due)]]
  BY <1>1 DEF Tick
<1>3. Len(pending') = Len(pending) /\ Len(pending) \in Nat
  <2>1. pending' \in Seq(Pending) BY DEF IInv, ListOK
  <2>2. DOMAIN pending' = 1 .. Len(pending) BY <1>2
  <2>3. QED BY <1>1, <2>1, <2>2
<1>4. ASSUME NEW i \in 1 .. Len(pending)
      PROVE  pending'[i].socket = pending[i].socket /\ pending'[i].request = pending[i].request
  <2>1. pending[i] \in Pending BY <1>1
  <2>2. pending'[i] = [pending[i] EXCEPT !.due = less(pending[i].due)] BY <1>2
  <2>3. QED BY <2>1, <2>2 DEF Pending
<1>5. ASSUME NEW s
      PROVE  placesOf(s, pending') = placesOf(s, pending) /\ owing(s, pending') = owing(s, pending)
  <2>1. placesOf(s, pending') = placesOf(s, pending) BY <1>3, <1>4 DEF placesOf
  <2>2. placesOf(s, pending) \subseteq 1 .. Len(pending) BY DEF placesOf
  <2>3. QED BY <1>4, <2>1, <2>2 DEF owing
<1>6. QED BY <1>2, <1>5, QuietStepServes

\* The server that closes, with a socket it leaves connected.
Skipping == close /\ open' # {}

LEMMA NextServes ==
  IInv /\ IInv' /\ ConnectionsOK /\ ConnectionsOK' /\ [Next]_vars
    => [Channel!Next \/ Skipping]_(Channel!vars)
<1> SUFFICES ASSUME IInv, IInv', ConnectionsOK, ConnectionsOK', [Next]_vars
             PROVE  Channel!Next \/ Skipping \/ UNCHANGED Channel!vars
  OBVIOUS
<1>1. CASE UNCHANGED vars BY <1>1 DEF vars, Channel!vars, owedBar
<1>2. ASSUME open' \subseteq open, pending' = pending, out' = Nothing PROVE Channel!Next
  BY <1>2, QuietStepServes
<1>3. CASE openServer BY <1>2, <1>3 DEF openServer
<1>4. CASE close /\ open' = {}
  <2>1. out' = Nothing BY <1>4 DEF close
  <2>2. QED BY <1>4, <2>1, QuietStepServes
<1>5. ASSUME NEW s \in Sockets, on_newConnection(s) PROVE Channel!Next
  <2>1. open' = open \cup {s} /\ out' = Nothing /\ pending' = pending
    BY <1>5 DEF on_newConnection
  <2>2. \A i \in DOMAIN pending : pending[i].socket # s BY <1>5 DEF on_newConnection
  <2>3. pending \in Seq(Pending) BY DEF IInv, ListOK
  <2>4. placesOf(s, pending) = {} BY <2>2, <2>3 DEF placesOf
  <2>5. QED BY <2>1, <2>4, QuietStepServes
<1>6. ASSUME NEW s \in Sockets, disconnected(s) PROVE Channel!Next
  BY <1>2, <1>6 DEF disconnected
<1>7. ASSUME NEW s \in Sockets, NEW batch, readyRead(s, batch) PROVE Channel!Next
  BY <1>2, <1>7 DEF readyRead
<1>8. ASSUME NEW s \in Sockets, process(s) PROVE Channel!Next
  <2>1. CASE skipRequest(s) BY <1>2, <2>1 DEF skipRequest
  <2>2. CASE muteRequest(s) BY <1>2, <2>2 DEF muteRequest
  <2>3. ASSUME NEW delay \in setting.delays, answerRequest(s, delay) PROVE Channel!Next
    <3>1. delay \in Nat BY SettingFields DEF IInv
    <3>2. QED BY <2>3, <3>1, AnswerServes
  <2>4. QED BY <1>8, <2>1, <2>2, <2>3 DEF process
<1>9. ASSUME NEW x \in Settings, setDefinitions(x) PROVE Channel!Next
  BY <1>2, <1>9 DEF setDefinitions
<1>10. CASE timeout BY <1>10, TimeoutServes
<1>11. CASE Tick BY <1>11, TickServes
<1>12. QED
  BY <1>1, <1>3, <1>4, <1>5, <1>6, <1>7, <1>8, <1>9, <1>10, <1>11 DEF Next, Skipping

LEMMA InitServes == Init => Channel!Init
<1> SUFFICES ASSUME Init PROVE Channel!Init
  OBVIOUS
<1>1. open = {} /\ out = [s \in Sockets |-> <<>>] BY DEF Init, Nothing
<1>2. owedBar = [s \in Sockets |-> <<>>] BY <1>1 DEF owedBar
<1>3. QED BY <1>1, <1>2 DEF Channel!Init

-----------------------------------------------------------------------------
\* For any number of clients: a request that is processed is answered once, on
\* its own connection, or dropped with that connection, but for the responses
\* that close() drops of clients its loop skips (sendTcpResponse,
\* enqueueDelayedResponse, flushDelayedResponses, close).
THEOREM OnlyCloseDropsAnswers ==
  Spec => Channel!Init /\ [][Channel!Next \/ Skipping]_(Channel!vars)
<1>1. Init => IInv BY InitIInv
<1>2. IInv /\ [Next]_vars => IInv' BY NextIInv
<1>3. QED BY <1>1, <1>2, ConnectionsHold, InitServes, NextServes, PTL DEF Spec

\* With at most two clients nothing is excepted: then the loop of close()
\* reaches every one of them.
THEOREM AnswersComplete ==
  ASSUME IsFiniteSet(Sockets), Cardinality(Sockets) < 3
  PROVE  Spec => AnswersAreComplete
<1>1. ConnectionsOK /\ [Channel!Next \/ Skipping]_(Channel!vars) => [Channel!Next]_(Channel!vars)
  <2> SUFFICES ASSUME ConnectionsOK, Skipping PROVE FALSE
    OBVIOUS
  <2>1. open \in SUBSET Sockets BY DEF ConnectionsOK
  <2>2. IsFiniteSet(open) /\ Cardinality(open) <= Cardinality(Sockets) BY <2>1, FS_Subset
  <2>3. Cardinality(open) \in Nat /\ Cardinality(Sockets) \in Nat BY <2>2, FS_CardinalityType
  <2>4. Cardinality(open) < 3 BY <2>2, <2>3
  <2>5. QED BY <2>4 DEF Skipping, close
<1>2. QED BY <1>1, ConnectionsHold, OnlyCloseDropsAnswers, PTL DEF AnswersAreComplete, Channel!Spec
=============================================================================
