------------------------------- MODULE SerialLine -------------------------------
(***************************************************************************)
(* A serial RTU line: the port of a Modbus RTU server, which answers the   *)
(* requests it reads or, in sniffer mode, only reports every frame that    *)
(* passes.  Bytes go over the line in order; the driver hands them over in *)
(* chunks cut anywhere, and the time measured between two chunks says      *)
(* little about the pauses there were on the line.                         *)
(*                                                                         *)
(* What has been received and is kept is always the end of what has been   *)
(* read, line[head .. got], so a buffer is two positions.  The checksum of *)
(* some bytes matches when they are exactly one undamaged frame.           *)
(***************************************************************************)
EXTENDS Integers, Sequences, SequencesExt

CONSTANTS
  Own,            \* the device the port answers for
  Others,         \* the other devices on the line
  Functions,      \* functions the master uses, out of 3, 6 and 16
  MaxRtuAduSize,  \* 256 in the code
  Cuts,           \* bound: bytes of a frame after which a chunk may end
  MaxFrames,      \* bound: frames, damaged ones too, sent on the line
  MaxFaults,      \* bound: damaged frames and stray bytes
  MaxSwitches     \* bound: changes of the sniffer mode, openings and closings

Broadcast == 0
ASSUME DeviceAssumption == Own \in 1 .. 255 /\ Others \subseteq 1 .. 255 \ {Own}
ASSUME FunctionAssumption == Functions \subseteq {3, 6, 16}
ASSUME SizeAssumption == MaxRtuAduSize \in Nat /\ MaxRtuAduSize >= 11
ASSUME BoundAssumption == Cuts \subseteq Nat /\ MaxFrames \in Nat /\ MaxFaults \in Nat /\ MaxSwitches \in Nat

VARIABLES
  line,        \* bytes sent so far
  frames,      \* the undamaged frames among them
  waiting,     \* address and function of the request the master waits on, or None
  faults, switches,
  isOpen, snifferMode,
  got,         \* bytes read from the port
  head,        \* first byte kept in _requestBuffer or in the parser's _buffer
  pending,     \* _pendingAddress and _pendingFunction, or None
  idleTimer,   \* whether _snifferIdleTimer is active
  replies,     \* requests whose reply waits for its delay
  reported,    \* frames reported, or requests taken, since the mode or port was set up
  clean        \* nothing has come in a form only a faulty line or driver produces

bus == <<line, frames, waiting, faults>>
port == <<isOpen, snifferMode, switches>>
input == <<got, head, pending, idleTimer, reported, clean>>
vars == <<bus, port, input, replies>>

None == <<>>
Devices == {Own} \cup Others
Bytes == 0 .. 255
Crc == 77  \* stands for the bytes of a checksum

Frame == [first : Nat, last : Nat, address : Devices \cup {Broadcast},
          function : Functions, isRequest : BOOLEAN]
Sniffed == [first : Nat, last : Nat, isRequest : BOOLEAN]

buffered == got - head + 1

\* Types and ranges, that the bytes kept are the last ones read, and that the idle
\* timer runs only while a capture has some.
TypeOK ==
  /\ idleTimer => isOpen /\ snifferMode /\ buffered > 0
  /\ line \in Seq(Bytes) /\ frames \in Seq(Frame)
  /\ waiting \in {None} \cup (Devices \X Functions)
  /\ pending \in {None} \cup (Bytes \X Bytes)
  /\ isOpen \in BOOLEAN /\ snifferMode \in BOOLEAN /\ idleTimer \in BOOLEAN
  /\ got \in 0 .. Len(line) /\ head \in 1 .. got + 1
  /\ replies \subseteq {f \in ToSet(frames) : f.address = Own}
  /\ reported \in Seq(Sniffed) /\ clean \in BOOLEAN

Init ==
  /\ line = <<>> /\ frames = <<>> /\ waiting = None /\ faults = 0
  /\ isOpen = TRUE /\ snifferMode \in BOOLEAN /\ switches = 0
  /\ got = 0 /\ head = 1 /\ pending = None /\ idleTimer = FALSE
  /\ reported = <<>> /\ clean = TRUE
  /\ replies = {}

-----------------------------------------------------------------------------
(* The line.                                                               *)

\* Read holding registers, write single register, write multiple registers.
requestBytes(address, function) ==
  IF function = 16 THEN <<address, 16, 0, 0, 0, 1, 2, 0, 0, Crc, Crc>>
                   ELSE <<address, function, 0, 0, 0, 1, Crc, Crc>>

responseBytes(address, function) ==
  { IF function = 3 THEN <<address, 3, 2, 0, 0, Crc, Crc>>
                    ELSE <<address, function, 0, 0, 0, 1, Crc, Crc>>,
    <<address, function + 128, 2, Crc, Crc>> }

Sent(bytes, address, function, isRequest) ==
  /\ line' = line \o bytes
  /\ frames' = Append(frames,
       [first |-> Len(line) + 1, last |-> Len(line) + Len(bytes),
        address |-> address, function |-> function, isRequest |-> isRequest])
  /\ UNCHANGED <<faults, port, input, replies>>

\* The last byte of a frame is lost.
SentCut(bytes) ==
  /\ faults < MaxFaults /\ faults' = faults + 1
  /\ line' = line \o Front(bytes)
  /\ UNCHANGED <<frames, port, got, head, pending, idleTimer, reported, replies>>
  /\ clean' = FALSE

CanSend == Len(frames) + faults < MaxFrames

Request(address, function) ==
  /\ CanSend
  /\ address = Broadcast => function # 3  \* nobody reads from everybody
  /\ waiting' = IF address = Broadcast THEN None ELSE <<address, function>>
  /\ \/ Sent(requestBytes(address, function), address, function, TRUE)
     \/ SentCut(requestBytes(address, function))

\* The device asked answers.  This port does not read what it writes itself; in
\* sniffer mode another device answers for it.
Respond ==
  /\ CanSend /\ waiting # None
  /\ waiting[1] = Own => snifferMode
  /\ waiting' = None
  /\ \E bytes \in responseBytes(waiting[1], waiting[2]) :
       Sent(bytes, waiting[1], waiting[2], FALSE) \/ SentCut(bytes)

\* A byte nobody sent.
Noise(byte) ==
  /\ CanSend /\ faults < MaxFaults
  /\ faults' = faults + 1
  /\ line' = Append(line, byte)
  /\ clean' = FALSE
  /\ UNCHANGED <<frames, waiting, port, got, head, pending, idleTimer, reported, replies>>

-----------------------------------------------------------------------------
(* The sizes that the first bytes of a frame tell (QModbusRequest and      *)
(* QModbusResponse, calculateDataSize), for line[first .. last].           *)

Unknown == -1
FixedSize == {1, 2, 3, 4, 5, 6}

requestDataSize(first, last) ==
  LET function == line[first + 1] IN
  CASE function \in FixedSize -> 4
    [] function >= 128 -> 1
    [] function = 16 /\ last >= first + 6 -> 5 + line[first + 6]
    [] OTHER -> Unknown

responseDataSize(first, last) ==
  LET function == line[first + 1] IN
  CASE function \in 1 .. 4 /\ last >= first + 2 -> 1 + line[first + 2]
    [] function \in {5, 6, 16} -> 4
    [] function >= 128 -> 1
    [] OTHER -> Unknown

CrcMatches(first, last) == \E f \in ToSet(frames) : f.first = first /\ f.last = last

-----------------------------------------------------------------------------
(* RtuSnifferParser.  A parser state p has the first byte of its buffer,   *)
(* the request a response is expected to, and the frames it returns.       *)

rtuFrameLength(dataSize) ==
  IF dataSize < 0 THEN 0 ELSE IF dataSize + 4 <= MaxRtuAduSize THEN dataSize + 4 ELSE -1

header(first) == <<line[first], line[first + 1] % 128>>

isResponseToPendingRequest(first, last, pend) ==
  pend # None /\ last > first /\ header(first) = pend

matchFrame(first, last, pend) ==
  LET size == last - first + 1
      requestLength == IF line[first + 1] >= 128 THEN -1
                       ELSE rtuFrameLength(requestDataSize(first, last))
      responseLength == rtuFrameLength(responseDataSize(first, last))
      incomplete(length) == length = 0 \/ length > size
      fits(length) == length \in 1 .. size /\ CrcMatches(first, first + length - 1)
      found(isRequest) ==
        [match |-> "Frame", isRequest |-> isRequest,
         length |-> IF isRequest THEN requestLength ELSE responseLength]
      none(match) == [match |-> match, isRequest |-> TRUE, length |-> 0]
  IN CASE size < 4 -> none("Incomplete")
       [] size >= 4 /\ fits(requestLength) /\ fits(responseLength) ->
            found(~isResponseToPendingRequest(first, last, pend))
       [] size >= 4 /\ fits(requestLength) /\ ~fits(responseLength) -> found(TRUE)
       [] size >= 4 /\ ~fits(requestLength) /\ fits(responseLength) -> found(FALSE)
       [] OTHER -> none(IF incomplete(requestLength) \/ incomplete(responseLength)
                        THEN "Incomplete" ELSE "Mismatch")

taken(p, length, isRequest) ==
  Append(p.out, [first |-> p.head, last |-> p.head + length - 1, isRequest |-> isRequest])

\* Bug: a response leaves the request it answers pending.
takeFrameUnpaired(p, m) ==
  [head |-> p.head + m.length, out |-> taken(p, m.length, m.isRequest),
   pending |-> IF m.isRequest THEN header(p.head) ELSE p.pending]

takeFrame(p, m) ==
  [head |-> p.head + m.length, out |-> taken(p, m.length, m.isRequest),
   pending |-> IF m.isRequest /\ line[p.head] # Broadcast
               THEN <<line[p.head], line[p.head + 1]>> ELSE None]

flush(p, last) ==
  LET isResponse == isResponseToPendingRequest(p.head, last, p.pending)
  IN IF last < p.head THEN p
     ELSE [head |-> last + 1, out |-> taken(p, last - p.head + 1, ~isResponse),
           pending |-> IF isResponse THEN None ELSE p.pending]

nextFrame(p, last) ==
  LET m == matchFrame(p.head, last, p.pending)
  IN IF m.match = "Frame" THEN takeFrame(p, m) ELSE p

\* Frames are taken as long as the buffer starts with one, of at least four bytes.
\* Alone, a bug: what matches no frame is kept for ever.
takeFrames(p, last) ==
  LET after[n \in Nat] == IF n = 0 THEN p ELSE nextFrame(after[n - 1], last)
  IN after[(last - p.head + 1) \div 4]

extractFrames(p, last) ==
  LET rest == takeFrames(p, last)
  IN IF last - rest.head + 1 > MaxRtuAduSize THEN flush(rest, last) ELSE rest

parser == [head |-> head, pending |-> pending, out |-> <<>>]

\* Bug: silence ends a frame.
feedSilence(last, afterSilence) ==
  extractFrames(IF afterSilence THEN flush(parser, got) ELSE parser, last)

\* Bug: a chunk that is a frame does not end the garbage before it.
feedMismatchOnly(last, afterSilence) ==
  LET joined == matchFrame(head, last, pending).match
      apart == afterSilence /\ buffered > 0 /\ joined = "Mismatch"
  IN extractFrames(IF apart THEN flush(parser, got) ELSE parser, last)

\* A chunk that ends with the byte `last`; bytes kept from before a silence are
\* given up if the chunk cannot continue them, or does not and is a frame itself.
feed(last, afterSilence) ==
  LET joined == matchFrame(head, last, pending).match
      alone == matchFrame(got + 1, last, pending).match
      apart == /\ afterSilence /\ buffered > 0
               /\ \/ joined = "Mismatch"
                  \/ joined = "Incomplete" /\ alone = "Frame"
  IN extractFrames(IF apart THEN flush(parser, got) ELSE parser, last)

-----------------------------------------------------------------------------
(* The port in sniffer mode.                                               *)

Parsed(p) ==
  /\ head' = p.head /\ pending' = p.pending
  /\ reported' = reported \o p.out

\* Bug: frames reported stop the timer, whatever is left behind them.
processSniffedDataUntimed(last, afterSilence) ==
  LET p == feed(last, afterSilence)
  IN Parsed(p) /\ idleTimer' = (p.head <= last /\ p.out = <<>>)

processSniffedData(last, afterSilence) ==
  LET p == feed(last, afterSilence)
  IN Parsed(p) /\ idleTimer' = (p.head <= last)

\* The timer is started again with every chunk that leaves something behind, so
\* it fires when the driver has held back the rest, or there is none.
on_snifferIdleTimeout ==
  /\ idleTimer
  /\ Parsed(flush(parser, got))
  /\ idleTimer' = FALSE
  /\ clean' = FALSE
  /\ UNCHANGED <<bus, port, got, replies>>

-----------------------------------------------------------------------------
(* The port answering requests.                                            *)

frameAt(first, last) ==
  {f \in ToSet(frames) : f.first = first /\ f.last = last /\ f.address \in {Own, Broadcast}}

\* The bytes from `start` are taken for a request when they have the size of one,
\* and dropped unless they are undamaged and for this device or for all.
Served(start, last) ==
  LET size == last - start + 1
      complete == /\ size >= 4
                  /\ requestDataSize(start, last) >= 0
                  /\ requestDataSize(start, last) + 4 = size
      request == IF complete THEN frameAt(start, last) ELSE {}
  IN /\ head' = IF complete THEN last + 1 ELSE start
     /\ reported' = IF request = {} THEN reported
                    ELSE Append(reported, [first |-> start, last |-> last, isRequest |-> TRUE])
     \* Broadcasts get no reply, nor does anything while errors are simulated
     \* (noResponse) or the device only listens.
     /\ \E answered \in {{f \in request : f.address = Own}, {}} :
          replies' = replies \cup answered
     /\ UNCHANGED <<pending, idleTimer>>

\* Bug: what was kept from before a pause still precedes the request.
serveRequestsJoined(last, afterGap) == Served(head, last)

serveRequests(last, afterGap) == Served(IF afterGap THEN got + 1 ELSE head, last)

\* The delay of a reply is over; delays are set for each reply, so they end in any
\* order.  The port may have been closed, or closed and opened again.
ReplyDue(request) ==
  /\ request \in replies
  /\ replies' = replies \ {request}
  /\ waiting' = IF isOpen /\ ~snifferMode /\ waiting = <<request.address, request.function>>
                THEN None ELSE waiting
  /\ UNCHANGED <<line, frames, faults, port, input>>

-----------------------------------------------------------------------------
(* The port.                                                               *)

chunkEnds ==
  {Len(line)} \cup UNION {{f.first - 1, f.last} \cup {f.first - 1 + n : n \in Cuts} : f \in ToSet(frames)}

on_readyRead(n, afterSilence) ==
  /\ isOpen /\ n \in 1 .. Len(line) - got
  /\ got + n \in chunkEnds
  /\ got' = got + n
  /\ IF snifferMode
     THEN processSniffedData(got + n, afterSilence) /\ UNCHANGED replies
     ELSE serveRequests(got + n, afterSilence)
  /\ UNCHANGED <<bus, port, clean>>

\* Between two frames as they are on the line, and nothing left of the last one.
betweenFrames == head > got /\ (got = Len(line) \/ \E f \in ToSet(frames) : f.first = got + 1)

\* Bug: the timer goes on in the other mode.
setSnifferModeTimed ==
  /\ switches < MaxSwitches /\ switches' = switches + 1
  /\ snifferMode' = ~snifferMode
  /\ head' = got + 1 /\ pending' = None
  /\ reported' = <<>>
  /\ clean' = (clean /\ betweenFrames)
  /\ UNCHANGED <<bus, isOpen, got, idleTimer, replies>>

setSnifferMode ==
  /\ switches < MaxSwitches /\ switches' = switches + 1
  /\ snifferMode' = ~snifferMode
  /\ idleTimer' = FALSE
  /\ head' = got + 1 /\ pending' = None
  /\ reported' = <<>>
  /\ clean' = (clean /\ betweenFrames)
  /\ UNCHANGED <<bus, isOpen, got, replies>>

\* Closing keeps the buffers; opening empties them, and what the driver holds.
close ==
  /\ isOpen /\ isOpen' = FALSE
  /\ idleTimer' = FALSE
  /\ UNCHANGED <<bus, snifferMode, switches, got, head, pending, reported, clean, replies>>

open ==
  /\ ~isOpen /\ isOpen' = TRUE
  /\ switches < MaxSwitches /\ switches' = switches + 1
  /\ got' = Len(line) /\ head' = Len(line) + 1 /\ pending' = None
  /\ reported' = <<>>
  /\ UNCHANGED <<bus, snifferMode, idleTimer, clean, replies>>

Next ==
  \/ \E address \in Devices \cup {Broadcast}, function \in Functions : Request(address, function)
  \/ Respond
  \/ Noise(255)
  \/ \E n \in 1 .. Len(line), afterSilence \in BOOLEAN : on_readyRead(n, afterSilence)
  \/ on_snifferIdleTimeout
  \/ \E request \in replies : ReplyDue(request)
  \/ setSnifferMode
  \/ close
  \/ open

\* The timer of a port fires.
Spec == Init /\ [][Next]_vars /\ WF_vars(on_snifferIdleTimeout)

-----------------------------------------------------------------------------
(* What a capture promises.                                                *)

Whole(r) == {f \in ToSet(frames) : f.first = r.first /\ f.last = r.last}

\* On a line without faults, whatever pauses the driver adds or swallows as long as
\* it holds nothing back for the idle delay, frames are reported one by one, whole,
\* and without leaving any out (RtuSnifferParser::feed).
FramesAreWhole ==
  clean => \A i \in 1 .. Len(reported) :
             /\ Whole(reported[i]) # {}
             /\ snifferMode /\ i > 1 => reported[i].first = reported[i - 1].last + 1

\* Every request that wants one got its response, and the capture saw them from the
\* first request on.
orderly ==
  /\ clean
  /\ reported # <<>> => \A f \in Whole(reported[1]) : f.isRequest
  /\ \A i \in 1 .. Len(frames) - 1 :
       frames[i].isRequest /\ frames[i].address # Broadcast => ~frames[i + 1].isRequest

\* A frame is shown with the direction it had.  Where a request and its response
\* have one size only the order tells, so that holds on a line in order: a request
\* repeated after a timeout passes for the response to the first
\* (isResponseToPendingRequest).
DirectionsAreRight ==
  snifferMode =>
    \A i \in 1 .. Len(reported) : \A f \in Whole(reported[i]) :
      f.function = 3 \/ orderly => reported[i].isRequest = f.isRequest

\* However long garbage goes on, no more than one frame's worth of it is kept
\* (RtuSnifferParser::extractFrames).
CaptureIsBounded == snifferMode => buffered <= MaxRtuAduSize

\* Whatever is left from before, a frame that comes in one piece after a silence is
\* seen: reported by a capture, and served if it is a request for this device.
FrameAfterSilenceIsSeen ==
  [][\A n \in 1 .. Len(line) : \A f \in ToSet(frames) :
       /\ on_readyRead(n, TRUE)
       /\ f.first = got + 1 /\ f.last = got + n
       /\ snifferMode \/ (f.isRequest /\ f.address \in {Own, Broadcast})
       => /\ reported' # <<>>
          /\ Last(reported').first = f.first /\ Last(reported').last = f.last]_vars

\* Bytes that become no frame are reported in the end: no capture sits on what it
\* has read while the line is quiet (on_snifferIdleTimeout).
LeftoversAreReported ==
  (isOpen /\ snifferMode /\ buffered > 0) ~> (buffered = 0 \/ ~isOpen \/ ~snifferMode)
=============================================================================
