----------------------------- MODULE TcpResponses -----------------------------
(***************************************************************************)
(* The delayed responses of ModbusTcpServer.  All connections share one    *)
(* list, ordered by due time; a client tells responses apart by their      *)
(* transaction id.  The list has a limit: what does not fit is answered    *)
(* with "server device busy" at once.                                      *)
(*                                                                         *)
(* The requests one socket has delivered are processed one after the other *)
(* without a return to the event loop (reading).                           *)
(*                                                                         *)
(* Times are the milliseconds left, and stop at 0.                         *)
(***************************************************************************)
EXTENDS Naturals, Sequences, Functions, FiniteSetsExt

CONSTANTS
  Sockets,
  NoSocket,
  Requests,    \* a request that is nowhere in the server may come again
  Settings,    \* noResponse and the response delays the user may set
  MaxDelayed,  \* _maxDelayedResponses
  MaxBatch,    \* requests that arrive at once
  Early,       \* how much too early a coarse QTimer may fire
  Off

ASSUME SettingsAssumption ==
  Settings \subseteq [noResponse : BOOLEAN, delays : SUBSET Nat]
ASSUME LimitsAssumption == MaxDelayed \in Nat /\ MaxBatch \in Nat /\ Early \in Nat
ASSUME OffAssumption == Off \notin Nat /\ NoSocket \notin Sockets

VARIABLES
  up,       \* the server listens
  open,     \* the sockets that are connected
  buffer,   \* the requests received on a socket and not yet processed
  reading,  \* the socket whose buffer is being processed
  pending,  \* _delayedResponses, by due time
  count,    \* _delayedResponseCount
  timer,    \* _delayedResponseTimer: the time left, or Off
  setting,  \* the error simulations in force
  out       \* what the last step has written to each socket

vars == <<up, open, buffer, reading, pending, count, timer, setting, out>>

Pending == [socket : Sockets, request : Requests, due : Nat]

TypeOK ==
  /\ up \in BOOLEAN
  /\ open \subseteq Sockets
  /\ buffer \in [Sockets -> Seq(Requests)]
  /\ reading \in open \cup {NoSocket}
  /\ pending \in Seq(Pending)
  /\ count \in Nat
  /\ timer \in Nat \cup {Off}
  /\ setting \in Settings
  /\ out \in [Sockets -> Seq(Requests)]

Nothing == [s \in Sockets |-> <<>>]

Init ==
  /\ up = FALSE
  /\ open = {}
  /\ buffer = Nothing
  /\ reading = NoSocket
  /\ pending = <<>>
  /\ count = 0
  /\ timer = Off
  /\ setting \in {x \in Settings : ~x.noResponse /\ x.delays = {0}}
  /\ out = Nothing

\* The places of a list that are for a socket, and the requests found there,
\* in their order.
placesOf(s, seq) == {i \in 1 .. Len(seq) : seq[i].socket = s}

requestsTo(s, seq) ==
  LET rank(i) == Cardinality({j \in placesOf(s, seq) : j <= i})
  IN [k \in 1 .. Cardinality(placesOf(s, seq)) |->
        seq[CHOOSE i \in placesOf(s, seq) : rank(i) = k].request]

inBuffer(r) == \E s \in Sockets : \E i \in DOMAIN buffer[s] : buffer[s][i] = r
isPending(r) == \E i \in DOMAIN pending : pending[i].request = r

-----------------------------------------------------------------------------
(* The list of delayed responses and its timer.                            *)

\* Bug: a timer that runs already is left alone.
armDelayedResponseTimerOnce(seq, left) ==
  IF seq = <<>> THEN Off ELSE IF left = Off THEN seq[1].due ELSE left

\* The timer is started unless it expires soon enough already.
armDelayedResponseTimer(seq, left) ==
  IF seq = <<>> THEN Off
  ELSE IF left = Off \/ left > seq[1].due THEN seq[1].due
  ELSE left

\* How many responses of a list, which is ordered by due time, are due by d.
dueBy(seq, d) ==
  CHOOSE n \in 0 .. Len(seq) : \A i \in 1 .. Len(seq) : i <= n <=> seq[i].due <= d

\* Bug: of the responses due at one time the last one only is kept.
insertedAlone(seq, p) ==
  SubSeq(seq, 1, dueBy(seq, p.due - 1)) \o <<p>>
    \o SubSeq(seq, dueBy(seq, p.due) + 1, Len(seq))

\* After the responses that are due at the same time.
inserted(seq, p) ==
  SubSeq(seq, 1, dueBy(seq, p.due)) \o <<p>>
    \o SubSeq(seq, dueBy(seq, p.due) + 1, Len(seq))

dueNow == SubSeq(pending, 1, dueBy(pending, 0))
notDue == SubSeq(pending, dueBy(pending, 0) + 1, Len(pending))

\* Bug: a response that finds its socket closed is not counted out.
flushDelayedResponsesMiscounting ==
  /\ pending' = notDue
  /\ count' = count - Len(SelectSeq(dueNow, LAMBDA p : p.socket \in open))
  /\ timer' = armDelayedResponseTimer(notDue, Off)
  /\ out' = [s \in Sockets |-> IF s \in open THEN requestsTo(s, dueNow) ELSE <<>>]

\* Bug: the timer is not started for the responses that are left.
flushDelayedResponsesUnarmed ==
  /\ pending' = notDue
  /\ count' = count - Len(dueNow)
  /\ timer' = Off
  /\ out' = [s \in Sockets |-> IF s \in open THEN requestsTo(s, dueNow) ELSE <<>>]

\* What is due is sent, or dropped if its socket has gone; the timer that has
\* brought this about is not running any more.
flushDelayedResponses ==
  /\ pending' = notDue
  /\ count' = count - Len(dueNow)
  /\ timer' = armDelayedResponseTimer(notDue, Off)
  /\ out' = [s \in Sockets |-> IF s \in open THEN requestsTo(s, dueNow) ELSE <<>>]

-----------------------------------------------------------------------------
openServer ==
  /\ reading = NoSocket
  /\ ~up
  /\ up' = TRUE
  /\ out' = Nothing
  /\ UNCHANGED <<open, buffer, reading, pending, count, timer, setting>>

\* A socket object that a delayed response still refers to is not a new one.
on_newConnection(s) ==
  /\ reading = NoSocket
  /\ up
  /\ s \notin open
  /\ \A i \in DOMAIN pending : pending[i].socket # s
  /\ open' = open \cup {s}
  /\ out' = Nothing
  /\ UNCHANGED <<up, buffer, reading, pending, count, timer, setting>>

\* readyRead: the data is appended to what an earlier call has left.
readyRead(s, batch) ==
  /\ reading = NoSocket
  /\ s \in open
  /\ \A i \in DOMAIN batch : ~inBuffer(batch[i]) /\ ~isPending(batch[i])
  /\ buffer' = [buffer EXCEPT ![s] = @ \o batch]
  /\ reading' = s
  /\ out' = Nothing
  /\ UNCHANGED <<up, open, pending, count, timer, setting>>

taken(s) ==
  /\ reading = s
  /\ buffer' = [buffer EXCEPT ![s] = Tail(@)]

goesOn(s) == reading' = IF Tail(buffer[s]) = <<>> THEN NoSocket ELSE s

\* A request for a unit id the server does not have.
skipRequest(s) ==
  /\ taken(s)
  /\ goesOn(s)
  /\ out' = Nothing
  /\ UNCHANGED <<up, open, pending, count, timer, setting>>

\* Without a response the loop is left, whatever else the buffer holds.
muteRequest(s) ==
  /\ taken(s)
  /\ setting.noResponse
  /\ reading' = NoSocket
  /\ out' = Nothing
  /\ UNCHANGED <<up, open, pending, count, timer, setting>>

\* Without a delay, or with the list full, the answer is sent at once.
answerRequest(s, delay) ==
  /\ taken(s)
  /\ goesOn(s)
  /\ ~setting.noResponse
  /\ IF delay = 0 \/ count >= MaxDelayed
     THEN /\ out' = [Nothing EXCEPT ![s] = <<Head(buffer[s])>>]
          /\ UNCHANGED <<pending, count, timer>>
     ELSE /\ pending' = inserted(pending, [socket |-> s, request |-> Head(buffer[s]),
                                           due |-> delay])
          /\ count' = count + 1
          /\ timer' = armDelayedResponseTimer(pending', timer)
          /\ out' = Nothing
  /\ UNCHANGED <<up, open, setting>>

timeout ==
  /\ reading = NoSocket
  /\ timer # Off
  /\ timer <= Early
  /\ flushDelayedResponses
  /\ UNCHANGED <<up, open, buffer, reading, setting>>

disconnected(s) ==
  /\ reading = NoSocket
  /\ s \in open
  /\ open' = open \ {s}
  /\ buffer' = [buffer EXCEPT ![s] = <<>>]
  /\ out' = Nothing
  /\ UNCHANGED <<up, reading, pending, count, timer, setting>>

\* The sockets are told to disconnect in a loop over the very list each of
\* them is removed from as it disconnects; with three or more of them, some
\* may be skipped and stay connected.
close ==
  /\ reading = NoSocket
  /\ up
  /\ up' = FALSE
  /\ open' \in SUBSET open
  /\ Cardinality(open) < 3 => open' = {}
  /\ Cardinality(open \ open') >= 2 \/ open' = {}
  /\ buffer' = [s \in Sockets |-> IF s \in open' THEN buffer[s] ELSE <<>>]
  /\ pending' = <<>>
  /\ count' = 0
  /\ timer' = Off
  /\ out' = Nothing
  /\ UNCHANGED <<reading, setting>>

\* Definitions reach the server as an event of its own.
setDefinitions(x) ==
  /\ reading = NoSocket
  /\ setting # x
  /\ setting' = x
  /\ out' = Nothing
  /\ UNCHANGED <<up, open, buffer, reading, pending, count, timer>>

less(t) == IF t = 0 THEN 0 ELSE t - 1

Tick ==
  /\ reading = NoSocket
  /\ timer # Off
  /\ timer > 0 \/ \E i \in DOMAIN pending : pending[i].due > 0
  /\ timer' = less(timer)
  /\ pending' = [i \in DOMAIN pending |-> [pending[i] EXCEPT !.due = less(@)]]
  /\ out' = Nothing
  /\ UNCHANGED <<up, open, buffer, reading, count, setting>>

-----------------------------------------------------------------------------
Batches == UNION {[1 .. n -> Requests] : n \in 1 .. MaxBatch}

process(s) ==
  \/ skipRequest(s)
  \/ muteRequest(s)
  \/ \E delay \in setting.delays : answerRequest(s, delay)

Next ==
  \/ openServer
  \/ close
  \/ \E s \in Sockets :
       \/ on_newConnection(s)
       \/ disconnected(s)
       \/ \E batch \in Batches : IsInjective(batch) /\ readyRead(s, batch)
       \/ process(s)
  \/ \E x \in Settings : setDefinitions(x)
  \/ timeout
  \/ Tick

\* A buffer is processed, time goes on, and the event loop delivers a timer
\* that has expired.  Both are strong: while a buffer is processed neither can
\* happen, but between two socket events the loop always looks at its timers.
Fairness ==
  /\ WF_vars(\E s \in Sockets : process(s))
  /\ SF_vars(Tick)
  /\ SF_vars(timer = 0 /\ timeout)

Spec == Init /\ [][Next]_vars /\ Fairness

-----------------------------------------------------------------------------
\* The count the limit is compared with is the number of delayed responses,
\* through lost connections and a closed server: neither does the server
\* answer "busy" for good nor does the list grow without limit.
CountIsExact == count = Len(pending)

\* The timer expires by the time the first response becomes due, although it
\* is not started again for every response.
TimerCovers == \A i \in DOMAIN pending : timer # Off /\ timer <= pending[i].due

\* A delayed response is sent, or dropped with its connection.
EveryResponseLeaves == \A r \in Requests : isPending(r) ~> ~isPending(r)

\* What the list and the history stand for.
owedBar == [s \in Sockets |-> IF s \in open THEN requestsTo(s, pending) ELSE <<>>]

Channel == INSTANCE ResponseChannel WITH owed <- owedBar, Ordered <- FALSE

\* Every request that is processed is answered exactly once on its own
\* connection, delayed or not, in whatever order (transaction ids tell them
\* apart): responses due at the same time do not replace each other, and what
\* exceeds the limit is answered as well.
AnswersAreComplete == Channel!Spec
=============================================================================
