----------------------------- MODULE RtuTcpProofs -----------------------------
(***************************************************************************)
(* Theorems about the delayed responses of the RTU over TCP server, for    *)
(* any number of sockets and requests, any delays and any number of        *)
(* responses in a queue.                                                   *)
(***************************************************************************)
EXTENDS RtuTcpResponses, WellFoundedInduction, TLAPS

-----------------------------------------------------------------------------
(* Minimum and maximum of sets of naturals.                                *)

LEMMA MinOfNats ==
  ASSUME NEW S, S \subseteq Nat, S # {}
  PROVE  Min(S) \in S /\ \A y \in S : Min(S) <= y
<1>1. PICK x \in S : \A y \in S : ~(<<y, x>> \in OpToRel(<, Nat))
  BY NatLessThanWellFounded, WFMin
<1>2. \A y \in S : x <= y
  <2> SUFFICES ASSUME NEW y \in S PROVE x <= y
    OBVIOUS
  <2>1. x \in Nat /\ y \in Nat OBVIOUS
  <2>2. ~(y < x) BY <1>1, <2>1 DEF OpToRel
  <2>3. QED BY <2>1, <2>2
<1>3. QED BY <1>2 DEF Min

LEMMA MaxUpTo ==
  ASSUME NEW n \in Nat, NEW S, S \subseteq 0 .. n, S # {}
  PROVE  Max(S) \in S /\ \A y \in S : Max(S) >= y
<1> DEFINE T == {n - x : x \in S}
<1>1. T \subseteq Nat /\ T # {} OBVIOUS
<1>2. Min(T) \in T /\ \A y \in T : Min(T) <= y BY <1>1, MinOfNats
<1>3. PICK m \in S : Min(T) = n - m BY <1>2
<1>4. \A y \in S : m >= y
  <2> SUFFICES ASSUME NEW y \in S PROVE m >= y
    OBVIOUS
  <2>1. n - m <= n - y BY <1>2, <1>3
  <2>2. m \in Int /\ y \in Int OBVIOUS
  <2>3. QED BY <2>1, <2>2
<1>5. QED BY <1>4 DEF Max

-----------------------------------------------------------------------------
(* One queue.                                                              *)

\* A sequence that has the elements of a and then those of b.
LEMMA IsConcatenation ==
  ASSUME NEW S, NEW a \in Seq(S), NEW b \in Seq(S), NEW c \in Seq(S),
         Len(c) = Len(a) + Len(b),
         \A i \in 1 .. Len(a) : c[i] = a[i],
         \A i \in 1 .. Len(b) : c[i + Len(a)] = b[i]
  PROVE  c = a \o b
<1>1. a \o b \in Seq(S) /\ Len(a \o b) = Len(c) OBVIOUS
<1>2. ASSUME NEW i \in 1 .. Len(c) PROVE (a \o b)[i] = c[i]
  <2>1. CASE i <= Len(a) BY <2>1
  <2>2. CASE i > Len(a)
    <3>1. (a \o b)[i] = b[i - Len(a)] BY <2>2
    <3>2. i - Len(a) \in 1 .. Len(b) /\ (i - Len(a)) + Len(a) = i BY <2>2
    <3>3. c[(i - Len(a)) + Len(a)] = b[i - Len(a)] BY <3>2
    <3>4. QED BY <3>1, <3>2, <3>3
  <2>3. QED BY <2>1, <2>2
<1>3. QED BY <1>1, <1>2

InDueOrder(seq) == \A i, j \in DOMAIN seq : i <= j => seq[i].due <= seq[j].due

LEMMA DueNowBounds ==
  ASSUME NEW seq \in Seq(Pending)
  PROVE  dueNow(seq) \in 0 .. Len(seq)
<1> DEFINE S == {n \in 0 .. Len(seq) : \A i \in 1 .. n : seq[i].due = 0}
<1>1. 0 \in S /\ S \subseteq 0 .. Len(seq) /\ Len(seq) \in Nat OBVIOUS
<1>2. Max(S) \in S
  <2> HIDE DEF S
  <2>1. S # {} BY <1>1
  <2>2. QED BY <1>1, <2>1, MaxUpTo
<1>3. QED BY <1>2 DEF dueNow

LEMMA PendingFields == \A x \in Pending : x.due \in Nat /\ x.request \in Requests
BY DEF Pending

LEMMA RequestsOfType ==
  ASSUME NEW seq \in Seq(Pending)
  PROVE  /\ requestsOf(seq) \in Seq(Requests)
         /\ Len(requestsOf(seq)) = Len(seq)
         /\ \A i \in 1 .. Len(seq) : requestsOf(seq)[i] = seq[i].request
<1>1. DOMAIN seq = 1 .. Len(seq) /\ Len(seq) \in Nat OBVIOUS
<1>2. \A i \in 1 .. Len(seq) : seq[i].request \in Requests BY PendingFields
<1>3. requestsOf(seq) = [i \in 1 .. Len(seq) |-> seq[i].request] BY <1>1 DEF requestsOf
<1>4. QED BY <1>1, <1>2, <1>3

LEMMA Tails ==
  ASSUME NEW seq \in Seq(Pending), NEW k \in 0 .. Len(seq)
  PROVE  LET left == SubSeq(seq, k + 1, Len(seq))
         IN /\ left \in Seq(Pending)
            /\ Len(left) = Len(seq) - k
            /\ \A i \in 1 .. Len(seq) - k : left[i] = seq[i + k]
OBVIOUS

LEMMA TailInDueOrder ==
  ASSUME NEW seq \in Seq(Pending), NEW k \in 0 .. Len(seq), InDueOrder(seq)
  PROVE  InDueOrder(SubSeq(seq, k + 1, Len(seq)))
<1> DEFINE left == SubSeq(seq, k + 1, Len(seq))
<1>1. /\ left \in Seq(Pending) /\ Len(left) = Len(seq) - k
      /\ \A i \in 1 .. Len(seq) - k : left[i] = seq[i + k]
  BY Tails
<1> HIDE DEF left
<1>2. ASSUME NEW i \in 1 .. Len(left), NEW j \in 1 .. Len(left), i <= j
      PROVE  left[i].due <= left[j].due
  <2>1. i + k \in 1 .. Len(seq) /\ j + k \in 1 .. Len(seq) /\ i + k <= j + k BY <1>1, <1>2
  <2>2. seq[i + k].due <= seq[j + k].due BY <2>1 DEF InDueOrder
  <2>3. left[i] = seq[i + k] /\ left[j] = seq[j + k] BY <1>1
  <2>4. QED BY <2>2, <2>3
<1>3. DOMAIN left = 1 .. Len(left) BY <1>1
<1>4. QED BY <1>2, <1>3 DEF InDueOrder, left

\* What is sent and what is left make up the queue.
LEMMA SentAndLeft ==
  ASSUME NEW seq \in Seq(Pending)
  PROVE  LET left == SubSeq(seq, dueNow(seq) + 1, Len(seq))
         IN /\ left \in Seq(Pending)
            /\ sent(seq) \in Seq(Requests)
            /\ requestsOf(seq) = sent(seq) \o requestsOf(left)
<1> DEFINE k == dueNow(seq)
           left == SubSeq(seq, k + 1, Len(seq))
           front == SubSeq(seq, 1, k)
<1>1. k \in 0 .. Len(seq) BY DueNowBounds
<1> HIDE DEF k
<1>2. front \in Seq(Pending) /\ Len(front) = k /\ \A i \in 1 .. k : front[i] = seq[i]
  BY <1>1
<1>3. /\ left \in Seq(Pending) /\ Len(left) = Len(seq) - k
      /\ \A i \in 1 .. Len(seq) - k : left[i] = seq[i + k]
  BY <1>1, Tails
<1> HIDE DEF left, front
<1>4. requestsOf(front) \in Seq(Requests) /\ Len(requestsOf(front)) = k
      /\ \A i \in 1 .. k : requestsOf(front)[i] = seq[i].request
  BY <1>2, RequestsOfType
<1>5. requestsOf(left) \in Seq(Requests) /\ Len(requestsOf(left)) = Len(seq) - k
      /\ \A i \in 1 .. Len(seq) - k : requestsOf(left)[i] = seq[i + k].request
  BY <1>3, RequestsOfType
<1>6. \A i \in 1 .. Len(requestsOf(front)) : requestsOf(seq)[i] = requestsOf(front)[i]
  BY <1>1, <1>4, RequestsOfType
<1>7. ASSUME NEW i \in 1 .. Len(requestsOf(left))
      PROVE  requestsOf(seq)[i + Len(requestsOf(front))] = requestsOf(left)[i]
  <2>1. i \in 1 .. Len(seq) - k /\ i + k \in 1 .. Len(seq) BY <1>1, <1>5
  <2>2. requestsOf(seq)[i + k] = seq[i + k].request BY <2>1, RequestsOfType
  <2>3. QED BY <2>1, <2>2, <1>4, <1>5
<1>8. requestsOf(seq) = requestsOf(front) \o requestsOf(left)
  <2>1. Len(requestsOf(seq)) = Len(requestsOf(front)) + Len(requestsOf(left))
    BY <1>1, <1>4, <1>5, RequestsOfType
  <2>2. requestsOf(seq) \in Seq(Requests) BY RequestsOfType
  <2>3. QED BY <1>4, <1>5, <1>6, <1>7, <2>1, <2>2, IsConcatenation
<1>9. QED BY <1>3, <1>4, <1>8 DEF sent, k, left, front

\* A response due at d that is added to a queue keeps it in due order.
LEMMA AppendInDueOrder ==
  ASSUME NEW seq \in Seq(Pending), InDueOrder(seq), NEW p \in Pending,
         seq # <<>> => p.due >= seq[Len(seq)].due
  PROVE  InDueOrder(Append(seq, p))
<1> DEFINE longer == Append(seq, p)
<1>1. /\ longer \in Seq(Pending) /\ Len(longer) = Len(seq) + 1
      /\ \A i \in 1 .. Len(seq) : longer[i] = seq[i]
      /\ longer[Len(seq) + 1] = p
  OBVIOUS
<1> HIDE DEF longer
<1>2. ASSUME NEW i \in 1 .. Len(longer), NEW j \in 1 .. Len(longer), i <= j
      PROVE  longer[i].due <= longer[j].due
  <2>1. CASE j <= Len(seq) BY <1>1, <1>2, <2>1 DEF InDueOrder
  <2>2. CASE i = Len(seq) + 1
    <3>1. i = j BY <1>1, <1>2, <2>2
    <3>2. p.due \in Nat BY PendingFields
    <3>3. QED BY <1>1, <2>2, <3>1, <3>2
  <2>3. CASE i <= Len(seq) /\ j = Len(seq) + 1
    <3>1. i \in 1 .. Len(seq) /\ Len(seq) \in 1 .. Len(seq) /\ seq # <<>> BY <1>2, <2>3
    <3>2. seq[i].due <= seq[Len(seq)].due BY <3>1 DEF InDueOrder
    <3>3. seq[i].due \in Nat /\ seq[Len(seq)].due \in Nat /\ p.due \in Nat BY <3>1, PendingFields
    <3>4. longer[i].due <= longer[j].due BY <1>1, <2>3, <3>1, <3>2, <3>3
    <3>5. QED BY <3>4
  <2>4. QED BY <1>1, <1>2, <2>1, <2>2, <2>3
<1>3. QED BY <1>1, <1>2 DEF InDueOrder, longer

-----------------------------------------------------------------------------
(* The timer, started for all queues.                                      *)

Queues == [Sockets -> Seq(Pending)]

\* The timer t expires by the time any response of the queues q becomes due.
Covers(t, q) == \A s \in Sockets : \A i \in DOMAIN q[s] : t # Off /\ t <= q[s][i].due

LEMMA ArmedTimer ==
  ASSUME NEW q \in Queues, \A s \in Sockets : InDueOrder(q[s]), armPendingResponseTimer(q)
  PROVE  timer' \in Nat \cup {Off} /\ Covers(timer', q)
<1>1. heads(q) \subseteq Nat
  <2> SUFFICES ASSUME NEW s \in Sockets, q[s] # <<>> PROVE q[s][1].due \in Nat
    BY DEF heads
  <2>1. q[s] \in Seq(Pending) BY DEF Queues
  <2>2. q[s][1] \in Pending BY <2>1
  <2>3. QED BY <2>2 DEF Pending
<1>2. CASE heads(q) = {}
  <2>1. \A s \in Sockets : q[s] = <<>> BY <1>2 DEF heads
  <2>2. timer' = Off BY <1>2 DEF armPendingResponseTimer
  <2>3. QED BY <2>1, <2>2 DEF Covers
<1>3. CASE heads(q) # {}
  <2>1. timer' = Min(heads(q)) BY <1>3 DEF armPendingResponseTimer
  <2>2. timer' \in Nat /\ \A y \in heads(q) : timer' <= y BY <1>1, <1>3, <2>1, MinOfNats
  <2>3. ASSUME NEW s \in Sockets, NEW i \in DOMAIN q[s] PROVE timer' <= q[s][i].due
    <3>1. q[s] \in Seq(Pending) BY DEF Queues
    <3>2. q[s] # <<>> /\ 1 \in DOMAIN q[s] /\ 1 <= i /\ i \in Nat BY <3>1
    <3>3. q[s][1].due \in heads(q) BY <3>2 DEF heads
    <3>4. q[s][1].due <= q[s][i].due BY <3>2 DEF InDueOrder
    <3>5. q[s][1] \in Pending /\ q[s][i] \in Pending BY <3>1, <3>2
    <3>6. q[s][1].due \in Nat /\ q[s][i].due \in Nat BY <3>5, PendingFields
    <3>7. QED BY <2>2, <3>3, <3>4, <3>6
  <2>4. QED BY <2>2, <2>3, OffAssumption DEF Covers
<1>4. QED BY <1>2, <1>3

\* Flushing the queues q: they keep their type and order, the timer is right,
\* and what is sent and what is left make up each queue.
LEMMA Flushed ==
  ASSUME NEW q \in Queues, \A s \in Sockets : InDueOrder(q[s]), flushPendingResponses(q)
  PROVE  /\ queue' \in Queues
         /\ \A s \in Sockets : InDueOrder(queue'[s])
         /\ timer' \in Nat \cup {Off} /\ Covers(timer', queue')
         /\ out' \in [Sockets -> Seq(Requests)]
         /\ \A s \in Sockets : requestsOf(q[s]) = out'[s] \o requestsOf(queue'[s])
         /\ \A s \in Sockets : q[s] = <<>> => queue'[s] = <<>> /\ out'[s] = <<>>
<1>1. /\ queue' = [s \in Sockets |-> SubSeq(q[s], dueNow(q[s]) + 1, Len(q[s]))]
      /\ out' = [s \in Sockets |-> sent(q[s])]
      /\ armPendingResponseTimer(queue')
  BY DEF flushPendingResponses
<1>2. ASSUME NEW s \in Sockets
      PROVE  /\ queue'[s] \in Seq(Pending) /\ out'[s] \in Seq(Requests)
             /\ requestsOf(q[s]) = out'[s] \o requestsOf(queue'[s])
             /\ InDueOrder(queue'[s])
  <2>1. q[s] \in Seq(Pending) /\ InDueOrder(q[s]) BY DEF Queues
  <2>2. dueNow(q[s]) \in 0 .. Len(q[s]) BY <2>1, DueNowBounds
  <2>3. queue'[s] = SubSeq(q[s], dueNow(q[s]) + 1, Len(q[s])) /\ out'[s] = sent(q[s]) BY <1>1
  <2>4. InDueOrder(queue'[s]) BY <2>1, <2>2, <2>3, TailInDueOrder
  <2>5. QED BY <2>1, <2>3, <2>4, SentAndLeft
<1>3. queue' \in Queues /\ out' \in [Sockets -> Seq(Requests)] BY <1>1, <1>2 DEF Queues
<1>4. timer' \in Nat \cup {Off} /\ Covers(timer', queue') BY <1>1, <1>2, <1>3, ArmedTimer
<1>5. ASSUME NEW s \in Sockets, q[s] = <<>> PROVE queue'[s] = <<>> /\ out'[s] = <<>>
  <2>1. dueNow(q[s]) \in 0 .. Len(q[s]) /\ Len(q[s]) = 0 BY <1>5, DueNowBounds DEF Queues
  <2>2. dueNow(q[s]) = 0 BY <2>1
  <2>3. queue'[s] = SubSeq(q[s], 1, 0) BY <1>1, <2>1, <2>2
  <2>4. out'[s] = requestsOf(SubSeq(q[s], 1, 0)) BY <1>1, <2>2 DEF sent
  <2>5. SubSeq(q[s], 1, 0) = <<>> BY <1>5
  <2>6. requestsOf(<<>>) = <<>> BY DEF requestsOf
  <2>7. QED BY <2>3, <2>4, <2>5, <2>6
<1>6. QED BY <1>2, <1>3, <1>4, <1>5

-----------------------------------------------------------------------------
(* The inductive invariant.  TimerCovers is not inductive without the due  *)
(* order of every queue, because the timer looks at the heads only.        *)

QueuesInDueOrder == \A s \in Sockets : InDueOrder(queue[s])

IInv == TypeOK /\ OnlyOpenQueues /\ QueuesInDueOrder /\ TimerCovers

LEMMA NoQueuesType == NoQueues \in Queues /\ NoQueues \in [Sockets -> Seq(Requests)]
BY DEF NoQueues, Queues

LEMMA InitIInv == Init => IInv
<1> SUFFICES ASSUME Init PROVE IInv
  OBVIOUS
<1>1. up = FALSE /\ open = {} /\ queue = NoQueues /\ timer = Off /\ out = NoQueues BY DEF Init
<1>2. \A s \in Sockets : queue[s] = <<>> BY <1>1 DEF NoQueues
<1>3. TypeOK BY <1>1, NoQueuesType DEF TypeOK, Queues
<1>4. QED BY <1>2, <1>3 DEF IInv, OnlyOpenQueues, QueuesInDueOrder, TimerCovers, InDueOrder

LEMMA DueAtBounds ==
  ASSUME TypeOK, NEW s \in Sockets, NEW delay \in Delays
  PROVE  dueAt(s, delay) \in Nat
         /\ (queue[s] # <<>> => dueAt(s, delay) >= queue[s][Len(queue[s])].due)
<1>1. delay \in Nat BY DelaysAssumption
<1>2. CASE queue[s] = <<>> BY <1>1, <1>2 DEF dueAt
<1>3. CASE queue[s] # <<>>
  <2>1. queue[s] \in Seq(Pending) BY DEF TypeOK
  <2>2. queue[s][Len(queue[s])] \in Pending BY <1>3, <2>1
  <2> DEFINE last == queue[s][Len(queue[s])].due
  <2>3. last \in Nat BY <2>2, PendingFields
  <2> HIDE DEF last
  <2>4. /\ Max({delay, last}) \in {delay, last}
        /\ \A y \in {delay, last} : Max({delay, last}) >= y
    <3>1. delay \in 0 .. delay + last /\ last \in 0 .. delay + last /\ delay + last \in Nat
      BY <1>1, <2>3
    <3>2. {delay, last} \subseteq 0 .. delay + last /\ {delay, last} # {} BY <3>1
    <3>3. QED BY <3>1, <3>2, MaxUpTo
  <2>5. dueAt(s, delay) = Max({delay, last}) BY <1>3 DEF dueAt, last
  <2>6. QED BY <1>1, <2>3, <2>4, <2>5 DEF last
<1>4. QED BY <1>2, <1>3

\* The queues processFrame flushes.
framed(s, r, delay) ==
  [queue EXCEPT ![s] = Append(@, [request |-> r, due |-> dueAt(s, delay)])]

LEMMA FramedQueues ==
  ASSUME IInv, NEW s \in Sockets, NEW r \in Requests, NEW delay \in Delays
  PROVE  /\ framed(s, r, delay) \in Queues
         /\ \A t \in Sockets : InDueOrder(framed(s, r, delay)[t])
<1> DEFINE p == [request |-> r, due |-> dueAt(s, delay)]
<1>1. dueAt(s, delay) \in Nat
      /\ (queue[s] # <<>> => dueAt(s, delay) >= queue[s][Len(queue[s])].due)
  BY DueAtBounds DEF IInv
<1>2. p \in Pending /\ p.due = dueAt(s, delay) BY <1>1 DEF Pending
<1> HIDE DEF p
<1>3. queue \in Queues BY DEF IInv, TypeOK, Queues
<1>4. framed(s, r, delay) = [queue EXCEPT ![s] = Append(queue[s], p)] BY <1>3 DEF framed, p, Queues
<1>5. queue[s] \in Seq(Pending) /\ Append(queue[s], p) \in Seq(Pending)
  BY <1>2, <1>3 DEF Queues
<1>6. InDueOrder(Append(queue[s], p))
  BY <1>1, <1>2, <1>5, AppendInDueOrder DEF IInv, QueuesInDueOrder
<1>7. \A t \in Sockets : framed(s, r, delay)[t] = IF t = s THEN Append(queue[s], p) ELSE queue[t]
  BY <1>3, <1>4 DEF Queues
<1>8. framed(s, r, delay) \in Queues BY <1>3, <1>4, <1>5 DEF Queues
<1>9. QED BY <1>6, <1>7, <1>8 DEF IInv, QueuesInDueOrder

LEMMA ProcessFrameIInv ==
  ASSUME IInv, NEW s \in Sockets, NEW r \in Requests, NEW delay \in Delays,
         processFrame(s, r, delay)
  PROVE  IInv'
<1>1. /\ s \in open /\ up' = up /\ open' = open
      /\ flushPendingResponses(framed(s, r, delay))
  BY DEF processFrame, framed
<1>2. /\ framed(s, r, delay) \in Queues
      /\ \A t \in Sockets : InDueOrder(framed(s, r, delay)[t])
  BY FramedQueues
<1>3. /\ queue' \in Queues
      /\ \A t \in Sockets : InDueOrder(queue'[t])
      /\ timer' \in Nat \cup {Off} /\ Covers(timer', queue')
      /\ out' \in [Sockets -> Seq(Requests)]
      /\ \A t \in Sockets : framed(s, r, delay)[t] = <<>> => queue'[t] = <<>>
  BY <1>1, <1>2, Flushed
<1>4. \A t \in Sockets \ open : framed(s, r, delay)[t] = <<>>
  BY <1>1 DEF framed, IInv, TypeOK, OnlyOpenQueues
<1>5. QED
  BY <1>1, <1>3, <1>4
  DEF IInv, TypeOK, OnlyOpenQueues, QueuesInDueOrder, TimerCovers, Covers, Queues

LEMMA TimeoutIInv == ASSUME IInv, timeout PROVE IInv'
<1>1. up' = up /\ open' = open /\ flushPendingResponses(queue) BY DEF timeout
<1>2. queue \in Queues /\ \A s \in Sockets : InDueOrder(queue[s])
  BY DEF IInv, TypeOK, QueuesInDueOrder, Queues
<1>3. /\ queue' \in Queues
      /\ \A t \in Sockets : InDueOrder(queue'[t])
      /\ timer' \in Nat \cup {Off} /\ Covers(timer', queue')
      /\ out' \in [Sockets -> Seq(Requests)]
      /\ \A t \in Sockets : queue[t] = <<>> => queue'[t] = <<>>
  BY <1>1, <1>2, Flushed
<1>4. QED
  BY <1>1, <1>3
  DEF IInv, TypeOK, OnlyOpenQueues, QueuesInDueOrder, TimerCovers, Covers, Queues

LEMMA DisconnectedIInv == ASSUME IInv, NEW s \in Sockets, disconnected(s) PROVE IInv'
<1>1. /\ open' = open \ {s} /\ up' = up /\ out' = NoQueues
      /\ queue' = [queue EXCEPT ![s] = <<>>] /\ armPendingResponseTimer(queue')
  BY DEF disconnected
<1>2. queue' \in Queues BY <1>1 DEF IInv, TypeOK, Queues
<1>3. \A t \in Sockets : queue'[t] = IF t = s THEN <<>> ELSE queue[t]
  BY <1>1 DEF IInv, TypeOK
<1>4. \A t \in Sockets : InDueOrder(queue'[t])
  BY <1>3 DEF IInv, QueuesInDueOrder, InDueOrder
<1>5. timer' \in Nat \cup {Off} /\ Covers(timer', queue') BY <1>1, <1>2, <1>4, ArmedTimer
<1>6. OnlyOpenQueues' BY <1>1, <1>3 DEF IInv, OnlyOpenQueues
<1>7. TypeOK' BY <1>1, <1>2, <1>5, NoQueuesType DEF IInv, TypeOK, Queues
<1>8. QED BY <1>4, <1>5, <1>6, <1>7 DEF IInv, QueuesInDueOrder, TimerCovers, Covers

LEMMA IsASeq == ASSUME NEW S, NEW n \in Nat PROVE [1 .. n -> S] \subseteq Seq(S)
OBVIOUS

\* A millisecond less for every response keeps their order, and the timer ahead
\* of them.
LEMMA TickIInv == ASSUME IInv, Tick PROVE IInv'
<1>1. /\ timer \in Nat /\ timer' = less(timer) /\ up' = up /\ open' = open /\ out' = NoQueues
      /\ queue' = [s \in Sockets |->
            [i \in DOMAIN queue[s] |-> [queue[s][i] EXCEPT !.due = less(@)]]]
  BY DEF Tick, IInv, TypeOK
<1>2. \A n \in Nat : less(n) \in Nat /\ \A k \in Nat : k <= n => less(k) <= less(n)
  BY DEF less
<1>3. ASSUME NEW s \in Sockets
      PROVE  /\ queue'[s] \in Seq(Pending) /\ DOMAIN queue'[s] = DOMAIN queue[s]
             /\ \A i \in DOMAIN queue[s] : queue'[s][i].due = less(queue[s][i].due)
             /\ \A i \in DOMAIN queue[s] : queue[s][i].due \in Nat
  <2>1. queue[s] \in Seq(Pending) BY DEF IInv, TypeOK
  <2>2. \A i \in DOMAIN queue[s] : queue[s][i] \in Pending BY <2>1
  <2>3. queue'[s] = [i \in DOMAIN queue[s] |-> [queue[s][i] EXCEPT !.due = less(@)]] BY <1>1
  <2>4. ASSUME NEW i \in DOMAIN queue[s]
        PROVE  queue'[s][i] \in Pending /\ queue'[s][i].due = less(queue[s][i].due)
    <3>1. queue'[s][i] = [queue[s][i] EXCEPT !.due = less(@)] BY <2>3
    <3>2. queue[s][i] \in Pending /\ less(queue[s][i].due) \in Nat BY <1>2, <2>2, PendingFields
    <3>3. QED BY <3>1, <3>2 DEF Pending
  <2>5. DOMAIN queue[s] = 1 .. Len(queue[s]) /\ Len(queue[s]) \in Nat BY <2>1
  <2>6. queue'[s] \in [1 .. Len(queue[s]) -> Pending]
    <3>1. DOMAIN queue'[s] = 1 .. Len(queue[s]) BY <2>3, <2>5
    <3>2. queue'[s] = [i \in DOMAIN queue[s] |-> queue'[s][i]] BY <2>3, Zenon
    <3>3. QED BY <2>4, <2>5, <3>2
  <2>7. queue'[s] \in Seq(Pending)
    <3>1. \A f : f \in [1 .. Len(queue[s]) -> Pending] => f \in Seq(Pending)
      BY <2>5, IsASeq
    <3>2. QED BY <2>6, <3>1
  <2>8. QED BY <2>2, <2>3, <2>4, <2>7, PendingFields
<1>4. queue' \in Queues BY <1>1, <1>3 DEF Queues
<1>5. timer' \in Nat BY <1>1, <1>2
<1>6. TypeOK' BY <1>1, <1>4, <1>5, NoQueuesType DEF IInv, TypeOK, Queues
<1>7. OnlyOpenQueues'
  <2> SUFFICES ASSUME NEW s \in Sockets \ open PROVE queue'[s] = <<>>
    BY <1>1 DEF OnlyOpenQueues
  <2>1. queue[s] = <<>> BY DEF IInv, OnlyOpenQueues
  <2>2. DOMAIN queue'[s] = {} /\ queue'[s] \in Seq(Pending) BY <1>3, <2>1
  <2>3. \A q \in Seq(Pending) : DOMAIN q = {} => q = <<>> OBVIOUS
  <2>4. QED BY <2>2, <2>3
<1>8. QueuesInDueOrder'
  <2> SUFFICES ASSUME NEW s \in Sockets,
                      NEW i \in DOMAIN queue'[s], NEW j \in DOMAIN queue'[s], i <= j
               PROVE  queue'[s][i].due <= queue'[s][j].due
    BY DEF QueuesInDueOrder, InDueOrder
  <2>1. i \in DOMAIN queue[s] /\ j \in DOMAIN queue[s] BY <1>3
  <2>2. queue[s][i].due <= queue[s][j].due BY <2>1 DEF IInv, QueuesInDueOrder, InDueOrder
  <2>3. queue[s][i].due \in Nat /\ queue[s][j].due \in Nat BY <1>3, <2>1
  <2>4. less(queue[s][i].due) <= less(queue[s][j].due) BY <1>2, <2>2, <2>3
  <2>5. QED BY <1>3, <2>1, <2>4
<1>9. TimerCovers'
  <2> SUFFICES ASSUME NEW s \in Sockets, NEW i \in DOMAIN queue[s]
               PROVE  timer' # Off /\ timer' <= queue'[s][i].due
    BY <1>3 DEF TimerCovers
  <2>1. timer <= queue[s][i].due BY DEF IInv, TimerCovers
  <2>2. QED BY <1>1, <1>2, <1>3, <1>5, <2>1, OffAssumption
<1>10. QED BY <1>6, <1>7, <1>8, <1>9 DEF IInv

LEMMA NextIInv == IInv /\ [Next]_vars => IInv'
<1> SUFFICES ASSUME IInv, [Next]_vars PROVE IInv'
  OBVIOUS
<1>1. CASE UNCHANGED vars
  BY <1>1 DEF vars, IInv, TypeOK, OnlyOpenQueues, QueuesInDueOrder, TimerCovers
<1>2. CASE openServer
  BY <1>2, NoQueuesType DEF openServer, IInv, TypeOK, OnlyOpenQueues, QueuesInDueOrder, TimerCovers
<1>3. CASE close
  <2>1. up' = FALSE /\ open' = {} /\ queue' = NoQueues /\ timer' = Off /\ out' = NoQueues
    BY <1>3 DEF close
  <2>2. \A s \in Sockets : queue'[s] = <<>> BY <2>1 DEF NoQueues
  <2>3. TypeOK' BY <2>1, NoQueuesType DEF TypeOK, Queues
  <2>4. QED BY <2>2, <2>3
        DEF IInv, OnlyOpenQueues, QueuesInDueOrder, TimerCovers, InDueOrder
<1>4. ASSUME NEW s \in Sockets, on_newConnection(s) PROVE IInv'
  BY <1>4, NoQueuesType
  DEF on_newConnection, IInv, TypeOK, OnlyOpenQueues, QueuesInDueOrder, TimerCovers
<1>5. QED
  BY <1>1, <1>2, <1>3, <1>4, ProcessFrameIInv, TimeoutIInv, DisconnectedIInv, TickIInv DEF Next

\* The timer always expires by the time any queued response becomes due: that
\* it is started for the heads of the queues only is enough, because a response
\* never becomes due before the one ahead of it (enqueueResponse,
\* armPendingResponseTimer).
THEOREM TimerIsInTime == Spec => []TimerCovers
<1>1. Init => IInv BY InitIInv
<1>2. IInv /\ [Next]_vars => IInv' BY NextIInv
<1>3. IInv => TimerCovers BY DEF IInv
<1>4. QED BY <1>1, <1>2, <1>3, PTL DEF Spec

\* Nothing is kept for a connection that is closed, so nothing of it can reach
\* a later connection.
THEOREM ClosedIsOwedNothing == Spec => []OnlyOpenQueues
<1>1. Init => IInv BY InitIInv
<1>2. IInv /\ [Next]_vars => IInv' BY NextIInv
<1>3. IInv => OnlyOpenQueues BY DEF IInv
<1>4. QED BY <1>1, <1>2, <1>3, PTL DEF Spec

-----------------------------------------------------------------------------
(* The refinement.  Every step either serves its requests, or owes and     *)
(* answers nothing on the connections it closes.                           *)

LEMMA EmptyRequests == requestsOf(<<>>) = <<>>
BY DEF requestsOf

LEMMA Owed ==
  ASSUME TypeOK
  PROVE  \A s \in Sockets : owedBar[s] = requestsOf(queue[s]) /\ owedBar[s] \in Seq(Requests)
BY RequestsOfType DEF owedBar, TypeOK

LEMMA OwedNext ==
  ASSUME TypeOK'
  PROVE  \A s \in Sockets : owedBar'[s] = requestsOf(queue'[s]) /\ owedBar'[s] \in Seq(Requests)
BY RequestsOfType DEF owedBar, TypeOK

\* A step that keeps what is owed on the connections that remain, and then
\* answers the first of it.
LEMMA StepServes ==
  ASSUME TypeOK, IInv',
         \A s \in open' : \E new \in {<<>>} \cup {<<r>> : r \in Requests} :
           requestsOf(queue[s]) \o new = out'[s] \o requestsOf(queue'[s]),
         \A s \in Sockets \ open' : out'[s] = <<>>
  PROVE  Channel!Next
<1>1. TypeOK' /\ OnlyOpenQueues' BY DEF IInv
<1>2. open' \subseteq Sockets BY <1>1 DEF TypeOK
<1>3. ASSUME NEW s \in open' PROVE Channel!Serve(s)
  <2>1. owedBar[s] = requestsOf(queue[s]) BY <1>2, Owed
  <2>2. owedBar'[s] = requestsOf(queue'[s]) BY <1>1, <1>2, OwedNext
  <2>3. QED BY <2>1, <2>2 DEF Channel!Serve, Channel!Same
<1>4. ASSUME NEW s \in Sockets \ open' PROVE Channel!Gone(s)
  <2>1. queue'[s] = <<>> BY <1>1 DEF OnlyOpenQueues
  <2>2. owedBar'[s] = <<>> BY <1>1, <2>1, OwedNext, EmptyRequests
  <2>3. QED BY <2>2 DEF Channel!Gone
<1>5. QED BY <1>2, <1>3, <1>4 DEF Channel!Next

\* A step that answers nothing.
LEMMA QuietStepServes ==
  ASSUME TypeOK, IInv', out' = NoQueues,
         \A s \in open' : requestsOf(queue'[s]) = requestsOf(queue[s])
  PROVE  Channel!Next
<1>1. \A s \in Sockets : out'[s] = <<>> BY DEF NoQueues
<1>2. open' \subseteq Sockets BY DEF IInv, TypeOK
<1>3. ASSUME NEW s \in open'
      PROVE  requestsOf(queue[s]) \o <<>> = out'[s] \o requestsOf(queue'[s])
  <2>1. requestsOf(queue[s]) \in Seq(Requests) BY <1>2, Owed
  <2>2. \A x \in Seq(Requests) : x \o <<>> = <<>> \o x OBVIOUS
  <2>3. QED BY <1>1, <1>2, <2>1, <2>2
<1>4. QED BY <1>1, <1>3, StepServes

LEMMA ProcessFrameServes ==
  ASSUME IInv, IInv', NEW s \in Sockets, NEW r \in Requests, NEW delay \in Delays,
         processFrame(s, r, delay)
  PROVE  Channel!Next
<1> DEFINE q == framed(s, r, delay)
           p == [request |-> r, due |-> dueAt(s, delay)]
<1>1. /\ s \in open /\ up' = up /\ open' = open /\ flushPendingResponses(q)
  BY DEF processFrame, framed
<1>2. q \in Queues /\ \A t \in Sockets : InDueOrder(q[t]) BY FramedQueues
<1>3. \A t \in Sockets : q[t] = IF t = s THEN Append(queue[t], p) ELSE queue[t]
  BY DEF framed, IInv, TypeOK
<1> HIDE DEF q
<1>4. /\ \A t \in Sockets : requestsOf(q[t]) = out'[t] \o requestsOf(queue'[t])
      /\ \A t \in Sockets : q[t] = <<>> => out'[t] = <<>>
  BY <1>1, <1>2, Flushed
<1>5. requestsOf(q[s]) = requestsOf(queue[s]) \o <<r>>
  <2>1. dueAt(s, delay) \in Nat BY DueAtBounds DEF IInv
  <2>2. p \in Pending /\ p.request = r BY <2>1 DEF Pending
  <2>3. queue[s] \in Seq(Pending) /\ q[s] = Append(queue[s], p) BY <1>3 DEF IInv, TypeOK
  <2> HIDE DEF p
  <2>4. q[s] \in Seq(Pending) BY <2>2, <2>3
  <2>5. /\ Len(q[s]) = Len(queue[s]) + 1
        /\ \A i \in 1 .. Len(queue[s]) : q[s][i] = queue[s][i]
        /\ q[s][Len(queue[s]) + 1] = p
    BY <2>2, <2>3
  <2>6. requestsOf(q[s]) \in Seq(Requests) /\ Len(requestsOf(q[s])) = Len(queue[s]) + 1
        /\ \A i \in 1 .. Len(queue[s]) + 1 : requestsOf(q[s])[i] = q[s][i].request
    BY <2>4, <2>5, RequestsOfType
  <2>7. requestsOf(queue[s]) \in Seq(Requests) /\ Len(requestsOf(queue[s])) = Len(queue[s])
        /\ \A i \in 1 .. Len(queue[s]) : requestsOf(queue[s])[i] = queue[s][i].request
    BY <2>3, RequestsOfType
  <2>8. <<r>> \in Seq(Requests) /\ Len(<<r>>) = 1 /\ <<r>>[1] = r OBVIOUS
  <2>9. \A i \in 1 .. 1 : requestsOf(q[s])[i + Len(requestsOf(queue[s]))] = <<r>>[i]
    BY <2>2, <2>3, <2>5, <2>6, <2>7
  <2>10. \A i \in 1 .. Len(requestsOf(queue[s])) : requestsOf(q[s])[i] = requestsOf(queue[s])[i]
    BY <2>3, <2>5, <2>6, <2>7
  <2>11. QED BY <2>6, <2>7, <2>8, <2>9, <2>10, IsConcatenation
<1>6. ASSUME NEW t \in open'
      PROVE  \E new \in {<<>>} \cup {<<x>> : x \in Requests} :
               requestsOf(queue[t]) \o new = out'[t] \o requestsOf(queue'[t])
  <2>1. t \in Sockets BY <1>1 DEF IInv, TypeOK
  <2>2. CASE t = s BY <1>4, <1>5, <2>1, <2>2
  <2>3. CASE t # s
    <3>1. requestsOf(queue[t]) \in Seq(Requests) BY <2>1, Owed DEF IInv
    <3>2. \A x \in Seq(Requests) : x \o <<>> = x OBVIOUS
    <3>3. requestsOf(queue[t]) = out'[t] \o requestsOf(queue'[t]) BY <1>3, <1>4, <2>1, <2>3
    <3>4. requestsOf(queue[t]) \o <<>> = out'[t] \o requestsOf(queue'[t]) BY <3>1, <3>2, <3>3
    <3>5. QED BY <3>4
  <2>4. QED BY <2>2, <2>3
<1>7. \A t \in Sockets \ open' : out'[t] = <<>>
  BY <1>1, <1>3, <1>4 DEF IInv, OnlyOpenQueues
<1>8. QED BY <1>6, <1>7, StepServes DEF IInv

LEMMA TimeoutServes == ASSUME IInv, IInv', timeout PROVE Channel!Next
<1>1. open' = open /\ flushPendingResponses(queue) BY DEF timeout
<1>2. queue \in Queues /\ \A s \in Sockets : InDueOrder(queue[s])
  BY DEF IInv, TypeOK, QueuesInDueOrder, Queues
<1>3. /\ \A t \in Sockets : requestsOf(queue[t]) = out'[t] \o requestsOf(queue'[t])
      /\ \A t \in Sockets : queue[t] = <<>> => out'[t] = <<>>
  BY <1>1, <1>2, Flushed
<1>4. ASSUME NEW t \in open'
      PROVE  requestsOf(queue[t]) \o <<>> = out'[t] \o requestsOf(queue'[t])
  <2>1. t \in Sockets BY <1>1 DEF IInv, TypeOK
  <2>2. requestsOf(queue[t]) \in Seq(Requests) BY <2>1, Owed DEF IInv
  <2>3. \A x \in Seq(Requests) : x \o <<>> = x OBVIOUS
  <2>4. QED BY <1>3, <2>1, <2>2, <2>3
<1>5. \A t \in Sockets \ open' : out'[t] = <<>> BY <1>1, <1>3 DEF IInv, OnlyOpenQueues
<1>6. QED BY <1>4, <1>5, StepServes DEF IInv

LEMMA TickServes == ASSUME IInv, IInv', Tick PROVE Channel!Next
<1>1. /\ open' = open /\ out' = NoQueues
      /\ queue' = [s \in Sockets |->
            [i \in DOMAIN queue[s] |-> [queue[s][i] EXCEPT !.due = less(@)]]]
  BY DEF Tick
<1>2. ASSUME NEW s \in open' PROVE requestsOf(queue'[s]) = requestsOf(queue[s])
  <2>1. s \in Sockets BY <1>1 DEF IInv, TypeOK
  <2>2. queue[s] \in Seq(Pending) BY <2>1 DEF IInv, TypeOK
  <2>3. queue'[s] = [i \in DOMAIN queue[s] |-> [queue[s][i] EXCEPT !.due = less(@)]]
    BY <1>1, <2>1
  <2>4. \A i \in DOMAIN queue[s] : queue'[s][i].request = queue[s][i].request
    <3> SUFFICES ASSUME NEW i \in DOMAIN queue[s]
                 PROVE  queue'[s][i].request = queue[s][i].request
      OBVIOUS
    <3>1. queue[s][i] \in Pending BY <2>2
    <3>2. queue'[s][i] = [queue[s][i] EXCEPT !.due = less(@)] BY <2>3
    <3>3. QED BY <3>1, <3>2 DEF Pending
  <2>5. DOMAIN queue'[s] = DOMAIN queue[s] BY <2>3
  <2>6. QED BY <2>4, <2>5 DEF requestsOf
<1>3. QED BY <1>1, <1>2, QuietStepServes DEF IInv

LEMMA DisconnectedServes ==
  ASSUME IInv, IInv', NEW s \in Sockets, disconnected(s) PROVE Channel!Next
<1>1. open' = open \ {s} /\ out' = NoQueues /\ queue' = [queue EXCEPT ![s] = <<>>]
  BY DEF disconnected
<1>2. \A t \in open' : queue'[t] = queue[t] BY <1>1 DEF IInv, TypeOK
<1>3. QED BY <1>1, <1>2, QuietStepServes DEF IInv

LEMMA NextServes == IInv /\ IInv' /\ [Next]_vars => [Channel!Next]_(Channel!vars)
<1> SUFFICES ASSUME IInv, IInv', [Next]_vars PROVE [Channel!Next]_(Channel!vars)
  OBVIOUS
<1>1. CASE UNCHANGED vars BY <1>1 DEF vars, Channel!vars, owedBar
<1>2. CASE openServer
  <2>1. out' = NoQueues /\ queue' = queue BY <1>2 DEF openServer
  <2>2. QED BY <2>1, QuietStepServes DEF IInv
<1>3. CASE close
  <2>1. out' = NoQueues /\ open' = {} BY <1>3 DEF close
  <2>2. QED BY <2>1, QuietStepServes DEF IInv
<1>4. ASSUME NEW s \in Sockets, on_newConnection(s) PROVE Channel!Next
  <2>1. out' = NoQueues /\ queue' = queue BY <1>4 DEF on_newConnection
  <2>2. QED BY <2>1, QuietStepServes DEF IInv
<1>5. QED
  BY <1>1, <1>2, <1>3, <1>4, ProcessFrameServes, TimeoutServes, TickServes, DisconnectedServes
  DEF Next

\* Whatever delays are set, and whatever connections come and go, a client of
\* the RTU over TCP server gets the answers in the order of its requests, each
\* once (processFrame, enqueueResponse, flushPendingResponses, on_disconnected).
THEOREM AnswersComeInOrder == Spec => AnswersInOrder
<1>1. Init => IInv BY InitIInv
<1>2. IInv /\ [Next]_vars => IInv' BY NextIInv
<1>3. Init => Channel!Init
  <2> SUFFICES ASSUME Init PROVE Channel!Init
    OBVIOUS
  <2>1. open = {} /\ queue = NoQueues /\ out = NoQueues BY DEF Init
  <2>2. owedBar = [s \in Sockets |-> <<>>] BY <2>1, EmptyRequests DEF owedBar, NoQueues
  <2>3. QED BY <2>1, <2>2 DEF Channel!Init, NoQueues
<1>4. IInv /\ IInv' /\ [Next]_vars => [Channel!Next]_(Channel!vars) BY NextServes
<1>5. QED BY <1>1, <1>2, <1>3, <1>4, PTL DEF Spec, AnswersInOrder, Channel!Spec
=============================================================================
