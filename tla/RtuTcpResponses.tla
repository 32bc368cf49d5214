--------------------------- MODULE RtuTcpResponses ---------------------------
(***************************************************************************)
(* The delayed responses of ModbusRtuTcpServer.  RTU frames carry no       *)
(* transaction id, so a client can only match responses by their order:    *)
(* every connection has a queue, and a response never becomes due before   *)
(* the one ahead of it.                                                    *)
(*                                                                         *)
(* Times are the milliseconds left, and stop at 0: the code compares due   *)
(* times with now and with each other only.                                *)
(***************************************************************************)
EXTENDS Naturals, Sequences, FiniteSetsExt

CONSTANTS
  Sockets,
  Requests,  \* a request that is nowhere in the server may come again
  Delays,    \* response delays the user may set, random ones included
  Early,     \* how much too early a coarse QTimer may fire
  Off

ASSUME DelaysAssumption == Delays \subseteq Nat /\ Early \in Nat
ASSUME OffAssumption == Off \notin Nat

VARIABLES
  up,     \* the server listens
  open,   \* _connections
  queue,  \* _pendingResponses
  timer,  \* _pendingResponseTimer: the time left, or Off
  out     \* what the last step has written to each socket

vars == <<up, open, queue, timer, out>>

Pending == [request : Requests, due : Nat]

TypeOK ==
  /\ up \in BOOLEAN
  /\ open \subseteq Sockets
  /\ queue \in [Sockets -> Seq(Pending)]
  /\ timer \in Nat \cup {Off}
  /\ out \in [Sockets -> Seq(Requests)]

NoQueues == [s \in Sockets |-> <<>>]

Init ==
  /\ up = FALSE
  /\ open = {}
  /\ queue = NoQueues
  /\ timer = Off
  /\ out = NoQueues

heads(q) == {q[s][1].due : s \in {t \in Sockets : q[t] # <<>>}}

\* The timer is started again for the first response that becomes due.
armPendingResponseTimer(q) ==
  timer' = IF heads(q) = {} THEN Off ELSE Min(heads(q))

\* Every queue is sent from its head as long as the head is due.
dueNow(seq) == Max({n \in 0 .. Len(seq) : \A i \in 1 .. n : seq[i].due = 0})
requestsOf(seq) == [i \in DOMAIN seq |-> seq[i].request]

\* Bug: of the responses that are due the newest is sent first.
sentNewestFirst(seq) == [i \in 1 .. dueNow(seq) |-> seq[dueNow(seq) + 1 - i].request]

sent(seq) == requestsOf(SubSeq(seq, 1, dueNow(seq)))

\* Bug: the timer is not started for the responses that are left.
flushPendingResponsesUnarmed(q) ==
  /\ out' = [s \in Sockets |-> sent(q[s])]
  /\ queue' = [s \in Sockets |-> SubSeq(q[s], dueNow(q[s]) + 1, Len(q[s]))]
  /\ timer' = IF timer = 0 THEN Off ELSE timer

flushPendingResponses(q) ==
  /\ out' = [s \in Sockets |-> sent(q[s])]
  /\ queue' = [s \in Sockets |-> SubSeq(q[s], dueNow(q[s]) + 1, Len(q[s]))]
  /\ armPendingResponseTimer(queue')

queued(r) == \E s \in Sockets : \E i \in DOMAIN queue[s] : queue[s][i].request = r

\* Bug: a response may become due before the one ahead of it.
dueAtUnchained(s, delay) == delay

dueAt(s, delay) ==
  IF queue[s] = <<>> THEN delay
  ELSE Max({delay, queue[s][Len(queue[s])].due})

-----------------------------------------------------------------------------
openServer ==
  /\ ~up
  /\ up' = TRUE
  /\ out' = NoQueues
  /\ UNCHANGED <<open, queue, timer>>

on_newConnection(s) ==
  /\ up
  /\ s \notin open
  /\ open' = open \cup {s}
  /\ out' = NoQueues
  /\ UNCHANGED <<up, queue, timer>>

\* A frame that gets a response: it is queued, and what is due is sent.
processFrame(s, r, delay) ==
  /\ s \in open
  /\ ~queued(r)
  /\ flushPendingResponses(
       [queue EXCEPT ![s] = Append(@, [request |-> r, due |-> dueAt(s, delay)])])
  /\ UNCHANGED <<up, open>>

timeout ==
  /\ timer # Off
  /\ timer <= Early
  /\ flushPendingResponses(queue)
  /\ UNCHANGED <<up, open>>

\* Bug: the queue of a lost connection is kept.
disconnectedKeepingQueue(s) ==
  /\ s \in open
  /\ open' = open \ {s}
  /\ armPendingResponseTimer(queue)
  /\ out' = NoQueues
  /\ UNCHANGED <<up, queue>>

disconnected(s) ==
  /\ s \in open
  /\ open' = open \ {s}
  /\ queue' = [queue EXCEPT ![s] = <<>>]
  /\ armPendingResponseTimer(queue')
  /\ out' = NoQueues
  /\ UNCHANGED up

\* Closing stops the timer and drops every queue; a socket that still has
\* bytes to write reads no more.
close ==
  /\ up
  /\ up' = FALSE
  /\ open' = {}
  /\ queue' = NoQueues
  /\ timer' = Off
  /\ out' = NoQueues

less(t) == IF t = 0 THEN 0 ELSE t - 1

\* A millisecond passes.
Tick ==
  /\ timer # Off
  /\ \/ timer > 0
     \/ \E s \in Sockets : \E i \in DOMAIN queue[s] : queue[s][i].due > 0
  /\ timer' = less(timer)
  /\ queue' = [s \in Sockets |->
       [i \in DOMAIN queue[s] |-> [queue[s][i] EXCEPT !.due = less(@)]]]
  /\ out' = NoQueues
  /\ UNCHANGED <<up, open>>

-----------------------------------------------------------------------------
Next ==
  \/ openServer
  \/ close
  \/ \E s \in Sockets :
       \/ on_newConnection(s)
       \/ disconnected(s)
       \/ \E r \in Requests, delay \in Delays : processFrame(s, r, delay)
  \/ timeout
  \/ Tick

\* Time goes on, and the event loop delivers a timer that has expired.
Fairness == WF_vars(Tick) /\ WF_vars(timer = 0 /\ timeout)

Spec == Init /\ [][Next]_vars /\ Fairness

-----------------------------------------------------------------------------
\* No response waits longer than the timer: it expires by the time any queued
\* response, not only one at the head of a queue, becomes due.
TimerCovers ==
  \A s \in Sockets : \A i \in DOMAIN queue[s] : timer # Off /\ timer <= queue[s][i].due

\* A response that is queued leaves the queue.
EveryResponseLeaves == \A r \in Requests : queued(r) ~> ~queued(r)

\* A closed connection is owed nothing: no response of an old connection can
\* reach a new one.
OnlyOpenQueues == \A s \in Sockets \ open : queue[s] = <<>>

\* What the queues stand for.
owedBar == [s \in Sockets |-> requestsOf(queue[s])]

Channel == INSTANCE ResponseChannel WITH owed <- owedBar, Ordered <- TRUE

\* Whatever delays are set and changed, every client is answered once and in
\* the order of its requests (enqueueResponse, flushPendingResponses).
AnswersInOrder == Channel!Spec
=============================================================================
