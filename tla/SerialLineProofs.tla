---------------------------- MODULE SerialLineProofs ----------------------------
(***************************************************************************)
(* What holds of every serial line, whatever its devices, its frames and   *)
(* the chunks the driver cuts it into.                                     *)
(*                                                                         *)
(* The parser's loop is a recursive function of the rounds it takes, so    *)
(* what holds of all of them is a set of parser states that contains the   *)
(* first one and the next one of each (LoopEnds, Extracted).  Each         *)
(* property then names such a set: GoesOn for what is kept and reported,   *)
(* ToldApart for directions the sizes tell, and in FeedWhole and           *)
(* FeedInOrder what holds on a line without faults, and on one in order.   *)
(***************************************************************************)
EXTENDS SerialLine, WellFoundedInduction, TLAPS

-----------------------------------------------------------------------------
(* Rounds.                                                                 *)

\* A set of naturals that has 0 and the successor of each of its members is Nat.
LEMMA AllNaturals ==
  ASSUME NEW N, 0 \in N, \A n \in Nat : n \in N => n + 1 \in N
  PROVE  \A n \in Nat : n \in N
<1> SUFFICES ASSUME NEW m \in Nat, m \notin N PROVE FALSE
  OBVIOUS
<1> DEFINE Out == {n \in Nat : n \notin N}
<1>1. PICK x \in Out : \A y \in Out : ~(<<y, x>> \in OpToRel(<, Nat))
  BY NatLessThanWellFounded, WFMin
<1>2. x # 0 /\ x - 1 \in Nat OBVIOUS
<1>3. x - 1 \notin Out
  <2>1. x - 1 < x BY <1>2
  <2>2. QED BY <1>1, <1>2, <2>1 DEF OpToRel
<1>4. QED BY <1>2, <1>3

\* f has the members of S that come from s by taking the step T again and again.
Repeats(f, S, T, s) == f \in [Nat -> S] /\ f[0] = s /\ \A n \in Nat : f[n + 1] = T[f[n]]

LEMMA Repeated ==
  ASSUME NEW S, NEW T \in [S -> S], NEW s \in S
  PROVE  \E f : Repeats(f, S, T, s)
<1> DEFINE Upto(n, g) == g \in [0 .. n -> S] /\ g[0] = s
                         /\ \A i \in 0 .. n : i + 1 \in 0 .. n => g[i + 1] = T[g[i]]
           N == {n \in Nat : \E g : Upto(n, g)}
           M == {n \in Nat : \A g, h : Upto(n, g) /\ Upto(n, h) => g[n] = h[n]}
<1>1. \A n \in Nat : n \in N
  <2>1. 0 \in N
    <3>1. Upto(0, [i \in 0 .. 0 |-> s]) OBVIOUS
    <3>2. QED BY <3>1
  <2>2. ASSUME NEW n \in Nat, n \in N PROVE n + 1 \in N
    <3>1. PICK g : Upto(n, g) BY <2>2
    <3> DEFINE h == [i \in 0 .. n + 1 |-> IF i = n + 1 THEN T[g[n]] ELSE g[i]]
    <3>2. g[n] \in S BY <3>1
    <3>3. h \in [0 .. n + 1 -> S]
      <4>1. \A i \in 0 .. n + 1 : i # n + 1 => i \in 0 .. n OBVIOUS
      <4>2. T[g[n]] \in S BY <3>2
      <4>3. QED BY <3>1, <4>1, <4>2
    <3>4. h[0] = s BY <3>1
    <3>5. ASSUME NEW i \in 0 .. n + 1, i + 1 \in 0 .. n + 1 PROVE h[i + 1] = T[h[i]]
      <4>1. i \in 0 .. n BY <3>5
      <4>2. h[i] = g[i] BY <4>1
      <4>3. CASE i = n BY <4>2, <4>3
      <4>4. CASE i # n
        <5>1. i + 1 \in 0 .. n BY <4>1, <4>4
        <5>2. h[i + 1] = g[i + 1] BY <5>1
        <5>3. QED BY <3>1, <4>1, <4>2, <5>1, <5>2
      <4>5. QED BY <4>3, <4>4
    <3> HIDE DEF h
    <3>6. Upto(n + 1, h) BY <3>3, <3>4, <3>5
    <3>7. QED BY <3>6
  <2> HIDE DEF N
  <2>3. QED BY <2>1, <2>2, AllNaturals
<1>2. \A n \in Nat : n \in M
  <2>1. 0 \in M OBVIOUS
  <2>2. ASSUME NEW n \in Nat, n \in M PROVE n + 1 \in M
    <3> SUFFICES ASSUME NEW g, NEW h, Upto(n + 1, g), Upto(n + 1, h) PROVE g[n + 1] = h[n + 1]
      OBVIOUS
    <3>1. ASSUME NEW f, Upto(n + 1, f) PROVE Upto(n, [i \in 0 .. n |-> f[i]])
      <4> DEFINE k == [i \in 0 .. n |-> f[i]]
      <4>1. \A i \in 0 .. n : i \in 0 .. n + 1 OBVIOUS
      <4>2. k \in [0 .. n -> S] /\ k[0] = s BY <3>1, <4>1
      <4>3. ASSUME NEW i \in 0 .. n, i + 1 \in 0 .. n PROVE k[i + 1] = T[k[i]]
        BY <3>1, <4>1, <4>3
      <4>4. QED BY <4>2, <4>3
    <3>2. [i \in 0 .. n |-> g[i]][n] = [i \in 0 .. n |-> h[i]][n]
      <4>1. Upto(n, [i \in 0 .. n |-> g[i]]) /\ Upto(n, [i \in 0 .. n |-> h[i]]) BY <3>1
      <4> HIDE DEF Upto
      <4>2. QED BY <4>1, <2>2
    <3>3. g[n] = h[n] BY <3>2
    <3>4. n \in 0 .. n + 1 /\ n + 1 \in 0 .. n + 1 OBVIOUS
    <3>5. g[n + 1] = T[g[n]] /\ h[n + 1] = T[h[n]] BY <3>4
    <3>6. QED BY <3>3, <3>5
  <2> HIDE DEF M
  <2>3. QED BY <2>1, <2>2, AllNaturals
<1> DEFINE at(n) == CHOOSE g : Upto(n, g)
           f == [n \in Nat |-> at(n)[n]]
<1>3. \A n \in Nat : Upto(n, at(n))
  <2> TAKE n \in Nat
  <2>1. \E g : Upto(n, g) BY <1>1
  <2> HIDE DEF Upto
  <2>2. QED BY <2>1
<1> HIDE DEF at
<1>4. f \in [Nat -> S] BY <1>3
<1>5. f[0] = s BY <1>3
<1>6. ASSUME NEW n \in Nat PROVE f[n + 1] = T[f[n]]
  <2> DEFINE g == at(n + 1)
             h == [i \in 0 .. n |-> g[i]]
  <2>1. Upto(n + 1, g) BY <1>3
  <2> HIDE DEF g
  <2>2. Upto(n, h)
    <3>1. \A i \in 0 .. n : i \in 0 .. n + 1 OBVIOUS
    <3>2. h \in [0 .. n -> S] /\ h[0] = s BY <2>1, <3>1
    <3>3. ASSUME NEW i \in 0 .. n, i + 1 \in 0 .. n PROVE h[i + 1] = T[h[i]]
      BY <2>1, <3>1, <3>3
    <3>4. QED BY <3>2, <3>3
  <2>3. at(n)[n] = h[n]
    <3>1. Upto(n, at(n)) BY <1>3
    <3>2. n \in M BY <1>2
    <3> HIDE DEF Upto, h
    <3>3. QED BY <2>2, <3>1, <3>2
  <2>4. n \in 0 .. n + 1 /\ n + 1 \in 0 .. n + 1 OBVIOUS
  <2>5. g[n + 1] = T[g[n]] BY <2>1, <2>4
  <2>6. f[n + 1] = g[n + 1] /\ f[n] = h[n] BY <2>3 DEF g
  <2>7. QED BY <2>5, <2>6
<1> HIDE DEF f
<1>7. QED BY <1>4, <1>5, <1>6 DEF Repeats

-----------------------------------------------------------------------------
(* The loop of extractFrames.                                              *)

ParserState == [head : Nat, pending : {None} \cup (Bytes \X Bytes), out : Seq(Sniffed)]

Rounds(f, p, last) == f[0] = p /\ \A n \in Nat : f[n + 1] = nextFrame(f[n], last)

\* The loop takes as many rounds as the bytes it starts with can hold frames.  What
\* holds before it and is kept by each round holds after it.
LEMMA LoopRounds ==
  ASSUME NEW G, NEW p \in G, NEW last \in Nat, p.head \in Nat, p.head <= last + 1,
         \A q \in G : nextFrame(q, last) \in G
  PROVE  \E f \in [Nat -> G] :
           /\ Rounds(f, p, last)
           /\ takeFrames(p, last) = f[(last - p.head + 1) \div 4]
<1> DEFINE T == [q \in G |-> nextFrame(q, last)]
<1>1. T \in [G -> G] /\ \A q \in G : T[q] = nextFrame(q, last) OBVIOUS
<1> HIDE DEF T
<1>2. PICK f : Repeats(f, G, T, p)
  <2>1. T \in [G -> G] BY <1>1
  <2>2. QED BY <2>1, Repeated
<1> DEFINE after == CHOOSE g : g = [n \in Nat |-> IF n = 0 THEN p ELSE nextFrame(g[n - 1], last)]
           N == {n \in Nat : after[n] \in G}
<1>3. \A n \in Nat : f[n + 1] = nextFrame(f[n], last) BY <1>1, <1>2 DEF Repeats
<1>4. f = [n \in Nat |-> IF n = 0 THEN p ELSE nextFrame(f[n - 1], last)]
  <2>1. ASSUME NEW n \in Nat, n # 0 PROVE f[n] = nextFrame(f[n - 1], last)
    <3>1. n - 1 \in Nat /\ (n - 1) + 1 = n BY <2>1
    <3>2. QED BY <1>3, <3>1
  <2>2. QED BY <1>2, <2>1 DEF Repeats
<1>5. after = [n \in Nat |-> IF n = 0 THEN p ELSE nextFrame(after[n - 1], last)]
  BY <1>4
<1>6. takeFrames(p, last) = after[(last - p.head + 1) \div 4] BY DEF takeFrames
<1> HIDE DEF after
<1>7. after[0] = p /\ \A n \in Nat : after[n + 1] = nextFrame(after[n], last)
  <2>1. after[0] = p BY <1>5
  <2>2. ASSUME NEW n \in Nat PROVE after[n + 1] = nextFrame(after[n], last)
    <3>1. n + 1 \in Nat /\ n + 1 # 0 /\ (n + 1) - 1 = n OBVIOUS
    <3>2. QED BY <1>5, <3>1
  <2>3. QED BY <2>1, <2>2
<1>8. \A n \in Nat : n \in N
  <2>1. 0 \in N BY <1>7
  <2>2. \A n \in Nat : n \in N => n + 1 \in N BY <1>7
  <2> HIDE DEF N
  <2>3. QED BY <2>1, <2>2, AllNaturals
<1>9. after \in [Nat -> G] BY <1>5, <1>8
<1>10. Rounds(after, p, last) BY <1>7 DEF Rounds
<1>11. QED BY <1>6, <1>9, <1>10

-----------------------------------------------------------------------------
(* What is on the line.                                                    *)

Size(f) == f.last - f.first + 1

\* The bytes of a frame that tell its size and its direction.
OnLine(f) ==
  LET function == line[f.first + 1] IN
  /\ 1 <= f.first /\ f.first + 4 <= f.last /\ f.last <= Len(line)
  /\ line[f.first] = f.address
  /\ \/ f.isRequest /\ function = f.function /\ f.function \in {3, 6}
        /\ Size(f) = 8 /\ line[f.first + 2] = 0
     \/ f.isRequest /\ function = f.function /\ f.function = 16
        /\ Size(f) = 11 /\ line[f.first + 6] = 2
     \/ ~f.isRequest /\ function = f.function /\ f.function = 3
        /\ Size(f) = 7 /\ line[f.first + 2] = 2
     \/ ~f.isRequest /\ function = f.function /\ f.function \in {6, 16} /\ Size(f) = 8
     \/ ~f.isRequest /\ function = f.function + 128 /\ Size(f) = 5

FramesOnLine ==
  /\ \A f \in ToSet(frames) : OnLine(f)
  /\ \A i, j \in 1 .. Len(frames) : i < j => frames[i].last < frames[j].first

\* No frame is left in what a capture keeps at the start of its buffer, and what was
\* reported is past.
NotYetFrame ==
  /\ snifferMode => \A f \in ToSet(frames) : f.first = head => f.last > got
  /\ \A i \in 1 .. Len(reported) : reported[i].last < head

-----------------------------------------------------------------------------
(* A line without faults.                                                  *)

\* A frame starts here, or the line ends.
Boundary(x) == x = Len(line) + 1 \/ \E f \in ToSet(frames) : f.first = x

\* Frames follow each other without a gap.
Tiled ==
  /\ Boundary(1)
  /\ \A f \in ToSet(frames) : Boundary(f.last + 1)

\* Reported frames are whole and, up to the byte h, leave nothing out.
WholeUpTo(s, h) ==
  /\ \A i \in 1 .. Len(s) : Whole(s[i]) # {} /\ (i > 1 => s[i].first = s[i - 1].last + 1)
  /\ s # <<>> => s[Len(s)].last + 1 = h

CleanCapture ==
  clean => /\ Tiled
           /\ \A i \in 1 .. Len(reported) : Whole(reported[i]) # {}
           /\ snifferMode => Boundary(head) /\ WholeUpTo(reported, head)

-----------------------------------------------------------------------------
(* A line in order.                                                        *)

\* The response is to the request before it, and whoever waits does so on the last one.
Paired ==
  clean =>
    /\ \A i \in 1 .. Len(frames) : ~frames[i].isRequest =>
         /\ i > 1 /\ frames[i - 1].isRequest
         /\ frames[i - 1].address = frames[i].address /\ frames[i - 1].address # Broadcast
         /\ frames[i - 1].function = frames[i].function
    /\ waiting # None =>
         /\ frames # <<>> /\ frames[Len(frames)].isRequest
         /\ waiting = <<frames[Len(frames)].address, frames[Len(frames)].function>>
         /\ frames[Len(frames)].address # Broadcast

StartsWithRequest(s) == s # <<>> => \A f \in Whole(s[1]) : f.isRequest

NoRepeats == \A i \in 1 .. Len(frames) - 1 :
  frames[i].isRequest /\ frames[i].address # Broadcast => ~frames[i + 1].isRequest

Awaited(s) ==
  IF s = <<>> THEN {None}
  ELSE {IF f.isRequest /\ f.address # Broadcast THEN <<f.address, f.function>> ELSE None :
          f \in Whole(s[Len(s)])}

InOrder(s, pend) ==
  /\ \A i \in 1 .. Len(s) : \A f \in Whole(s[i]) : s[i].isRequest = f.isRequest
  /\ pend \in Awaited(s)

ReadsRight == \A i \in 1 .. Len(reported) : \A f \in Whole(reported[i]) :
  f.function = 3 => reported[i].isRequest = f.isRequest

CaptureInOrder ==
  clean /\ snifferMode /\ StartsWithRequest(reported) /\ NoRepeats => InOrder(reported, pending)

-----------------------------------------------------------------------------
(* The parser sees exactly the frames.                                     *)

LEMMA FrameTypes ==
  ASSUME TypeOK
  PROVE  /\ \A f \in ToSet(frames) : f \in Frame /\ \E i \in 1 .. Len(frames) : f = frames[i]
         /\ \A i \in 1 .. Len(frames) : frames[i] \in ToSet(frames)
BY DEF TypeOK, ToSet

LEMMA LineTypes ==
  ASSUME TypeOK
  PROVE  /\ Len(line) \in Nat /\ \A i \in 1 .. Len(line) : line[i] \in 0 .. 255
         /\ Len(frames) \in Nat /\ Len(reported) \in Nat
         /\ \A f \in ToSet(frames) :
              /\ f.first \in Nat /\ f.last \in Nat /\ f.address \in Nat /\ f.isRequest \in BOOLEAN
              /\ f.function \in {3, 6, 16}
         /\ \A i \in 1 .. Len(reported) : reported[i].first \in Nat /\ reported[i].last \in Nat
<1>1. line \in Seq(Bytes) /\ reported \in Seq(Sniffed) BY DEF TypeOK
<1>2. frames \in Seq(Frame) BY DEF TypeOK
<1>3. ASSUME NEW f \in ToSet(frames)
      PROVE  /\ f.first \in Nat /\ f.last \in Nat /\ f.address \in Nat /\ f.isRequest \in BOOLEAN
             /\ f.function \in {3, 6, 16}
  <2>1. f \in Frame BY FrameTypes
  <2>2. f.address \in Devices \cup {Broadcast} /\ f.function \in Functions
        /\ f.first \in Nat /\ f.last \in Nat /\ f.isRequest \in BOOLEAN BY <2>1 DEF Frame
  <2>3. Own \in 0 .. 255 /\ \A x \in Others : x \in 1 .. 255 BY DeviceAssumption
  <2>4. f.address \in Nat BY <2>2, <2>3 DEF Devices, Broadcast
  <2>5. QED BY <2>2, <2>4, FunctionAssumption
<1>4. ASSUME NEW i \in 1 .. Len(reported) PROVE reported[i].first \in Nat /\ reported[i].last \in Nat
  <2>1. reported[i] \in Sniffed BY <1>1
  <2>2. QED BY <2>1 DEF Sniffed
<1>5. ASSUME NEW i \in 1 .. Len(line) PROVE line[i] \in 0 .. 255
  <2>1. line[i] \in Bytes BY <1>1
  <2>2. QED BY <2>1 DEF Bytes
<1>6. Len(line) \in Nat /\ Len(frames) \in Nat /\ Len(reported) \in Nat BY <1>1, <1>2
<1>7. QED BY <1>3, <1>4, <1>5, <1>6

LEMMA FramesApart ==
  ASSUME TypeOK, FramesOnLine, NEW f \in ToSet(frames), NEW g \in ToSet(frames)
  PROVE  f = g \/ f.last < g.first \/ g.last < f.first
<1>1. PICK i \in 1 .. Len(frames), j \in 1 .. Len(frames) : f = frames[i] /\ g = frames[j]
  BY FrameTypes
<1>2. Len(frames) \in Nat BY DEF TypeOK
<1>3. CASE i = j BY <1>1, <1>3
<1>4. CASE i < j BY <1>1, <1>4 DEF FramesOnLine
<1>5. CASE j < i BY <1>1, <1>5 DEF FramesOnLine
<1>6. QED BY <1>2, <1>3, <1>4, <1>5

LEMMA OneFrameAt ==
  ASSUME TypeOK, FramesOnLine, NEW f \in ToSet(frames), NEW last \in Int
  PROVE  CrcMatches(f.first, last) <=> last = f.last
<1>1. f \in Frame /\ OnLine(f) BY FrameTypes DEF FramesOnLine
<1>2. f.first \in Nat /\ f.last \in Nat /\ f.first < f.last BY <1>1 DEF Frame, OnLine
<1>3. ASSUME NEW g \in ToSet(frames), g.first = f.first PROVE g.last = f.last
  <2>1. g \in Frame /\ OnLine(g) BY FrameTypes DEF FramesOnLine
  <2>2. g.first \in Nat /\ g.last \in Nat /\ g.first < g.last BY <2>1 DEF Frame, OnLine
  <2>3. QED BY <1>2, <1>3, <2>2, FramesApart
<1>4. QED BY <1>3 DEF CrcMatches

LEMMA DataSizes ==
  ASSUME NEW first \in Nat, NEW last \in Nat, line[first + 1] \in 0 .. 255
  PROVE  /\ requestDataSize(first, last) =
              IF line[first + 1] \in FixedSize THEN 4
              ELSE IF line[first + 1] >= 128 THEN 1
              ELSE IF line[first + 1] = 16 /\ last >= first + 6 THEN 5 + line[first + 6] ELSE -1
         /\ responseDataSize(first, last) =
              IF line[first + 1] \in 1 .. 4 /\ last >= first + 2 THEN 1 + line[first + 2]
              ELSE IF line[first + 1] \in {5, 6, 16} THEN 4
              ELSE IF line[first + 1] >= 128 THEN 1 ELSE -1
<1> DEFINE function == line[first + 1]
<1>1. function \in 0 .. 255 OBVIOUS
<1>2. requestDataSize(first, last) =
        CASE function \in FixedSize -> 4
          [] function >= 128 -> 1
          [] function = 16 /\ last >= first + 6 -> 5 + line[first + 6]
          [] OTHER -> -1
  BY DEF requestDataSize, Unknown
<1>3. responseDataSize(first, last) =
        CASE function \in 1 .. 4 /\ last >= first + 2 -> 1 + line[first + 2]
          [] function \in {5, 6, 16} -> 4
          [] function >= 128 -> 1
          [] OTHER -> -1
  BY DEF responseDataSize, Unknown
<1> HIDE DEF function
<1>4. requestDataSize(first, last) =
        IF function \in FixedSize THEN 4
        ELSE IF function >= 128 THEN 1
        ELSE IF function = 16 /\ last >= first + 6 THEN 5 + line[first + 6] ELSE -1
  <2>1. ~(function \in FixedSize /\ function >= 128) /\ ~(function \in FixedSize /\ function = 16)
        /\ ~(function >= 128 /\ function = 16)
    BY <1>1 DEF FixedSize
  <2>2. QED BY <1>2, <2>1
<1>5. responseDataSize(first, last) =
        IF function \in 1 .. 4 /\ last >= first + 2 THEN 1 + line[first + 2]
        ELSE IF function \in {5, 6, 16} THEN 4
        ELSE IF function >= 128 THEN 1 ELSE -1
  BY <1>1, <1>3
<1>6. QED BY <1>4, <1>5 DEF function

requestLength(first, last) ==
  IF line[first + 1] >= 128 THEN -1 ELSE rtuFrameLength(requestDataSize(first, last))

responseLength(first, last) == rtuFrameLength(responseDataSize(first, last))

LEMMA Lengths ==
  ASSUME TypeOK, NEW first \in Nat, NEW last \in Nat,
         1 <= first, first + 3 <= last, last <= Len(line)
  PROVE  /\ requestLength(first, last) =
              IF line[first + 1] >= 128 THEN -1
              ELSE IF line[first + 1] \in FixedSize THEN 8
              ELSE IF line[first + 1] # 16 \/ last < first + 6 THEN 0
              ELSE IF line[first + 6] + 9 <= MaxRtuAduSize THEN line[first + 6] + 9 ELSE -1
         /\ responseLength(first, last) =
              IF line[first + 1] \in 1 .. 4
              THEN IF line[first + 2] + 5 <= MaxRtuAduSize THEN line[first + 2] + 5 ELSE -1
              ELSE IF line[first + 1] \in {5, 6, 16} THEN 8
              ELSE IF line[first + 1] >= 128 THEN 5 ELSE 0
         /\ line[first + 1] \in 0 .. 255 /\ line[first + 2] \in 0 .. 255
         /\ last >= first + 6 => line[first + 6] \in 0 .. 255
<1>1. Len(line) \in Nat /\ \A i \in 1 .. Len(line) : line[i] \in 0 .. 255 BY LineTypes
<1>2. line[first + 1] \in 0 .. 255 /\ line[first + 2] \in 0 .. 255
  <2>1. first + 1 \in 1 .. Len(line) /\ first + 2 \in 1 .. Len(line) BY <1>1
  <2>2. QED BY <1>1, <2>1
<1>3. last >= first + 6 => line[first + 6] \in 0 .. 255
  <2>1. last >= first + 6 => first + 6 \in 1 .. Len(line) BY <1>1
  <2>2. QED BY <1>1, <2>1
<1>4. \A n \in Nat : rtuFrameLength(n) = IF n + 4 <= MaxRtuAduSize THEN n + 4 ELSE -1
  BY SizeAssumption DEF rtuFrameLength
<1>5. rtuFrameLength(-1) = 0 BY DEF rtuFrameLength
<1>6. rtuFrameLength(4) = 8 /\ rtuFrameLength(1) = 5 BY <1>4, SizeAssumption
<1>7. \A n \in 0 .. 255 : /\ rtuFrameLength(5 + n) = IF n + 9 <= MaxRtuAduSize THEN n + 9 ELSE -1
                         /\ rtuFrameLength(1 + n) = IF n + 5 <= MaxRtuAduSize THEN n + 5 ELSE -1
  <2> TAKE n \in 0 .. 255
  <2>1. 5 + n \in Nat /\ 1 + n \in Nat /\ (5 + n) + 4 = n + 9 /\ (1 + n) + 4 = n + 5 OBVIOUS
  <2>2. QED BY <1>4, <2>1
<1>8. requestDataSize(first, last) =
        IF line[first + 1] \in FixedSize THEN 4
        ELSE IF line[first + 1] >= 128 THEN 1
        ELSE IF line[first + 1] = 16 /\ last >= first + 6 THEN 5 + line[first + 6] ELSE -1
  BY <1>2, DataSizes
<1>9. responseDataSize(first, last) =
        IF line[first + 1] \in 1 .. 4 /\ last >= first + 2 THEN 1 + line[first + 2]
        ELSE IF line[first + 1] \in {5, 6, 16} THEN 4
        ELSE IF line[first + 1] >= 128 THEN 1 ELSE -1
  BY <1>2, DataSizes
<1>10. requestLength(first, last) =
         IF line[first + 1] >= 128 THEN -1
         ELSE IF line[first + 1] \in FixedSize THEN 8
         ELSE IF line[first + 1] # 16 \/ last < first + 6 THEN 0
         ELSE IF line[first + 6] + 9 <= MaxRtuAduSize THEN line[first + 6] + 9 ELSE -1
  <2>1. ~(last >= first + 6) <=> last < first + 6 OBVIOUS
  <2>2. CASE line[first + 1] \in FixedSize \/ line[first + 1] >= 128
    BY <1>6, <1>8, <2>2 DEF requestLength
  <2>3. CASE line[first + 1] # 16 \/ last < first + 6
    BY <1>5, <1>6, <1>8, <2>1, <2>3 DEF requestLength
  <2>4. CASE line[first + 1] = 16 /\ last >= first + 6
    <3>1. requestDataSize(first, last) = 5 + line[first + 6] BY <1>8, <2>4 DEF FixedSize
    <3>2. rtuFrameLength(5 + line[first + 6]) =
            IF line[first + 6] + 9 <= MaxRtuAduSize THEN line[first + 6] + 9 ELSE -1
      BY <1>3, <1>7, <2>4
    <3>3. requestLength(first, last) = rtuFrameLength(5 + line[first + 6])
      BY <2>4, <3>1 DEF requestLength
    <3>4. 16 \notin FixedSize /\ ~(16 >= 128) /\ ~(last < first + 6) BY <2>4 DEF FixedSize
    <3>5. QED BY <2>4, <3>2, <3>3, <3>4
  <2>5. QED BY <2>1, <2>2, <2>3, <2>4
<1>11. responseLength(first, last) =
         IF line[first + 1] \in 1 .. 4
         THEN IF line[first + 2] + 5 <= MaxRtuAduSize THEN line[first + 2] + 5 ELSE -1
         ELSE IF line[first + 1] \in {5, 6, 16} THEN 8
         ELSE IF line[first + 1] >= 128 THEN 5 ELSE 0
  <2>1. last >= first + 2 OBVIOUS
  <2>2. CASE line[first + 1] \in 1 .. 4 BY <1>2, <1>7, <1>9, <2>1, <2>2 DEF responseLength
  <2>3. CASE line[first + 1] \notin 1 .. 4 BY <1>5, <1>6, <1>9, <2>3 DEF responseLength
  <2>4. QED BY <2>2, <2>3
<1>12. QED BY <1>2, <1>3, <1>10, <1>11

\* The sizes the first bytes of a frame tell.
LEMMA SizesOf ==
  ASSUME TypeOK, FramesOnLine, NEW f \in ToSet(frames), NEW last \in Nat,
         f.first + 3 <= last, last <= Len(line)
  PROVE  LET request == requestLength(f.first, last)
             response == responseLength(f.first, last)
         IN /\ request \in Int /\ response \in Int
            /\ f.isRequest /\ f.last <= last => request = Size(f)
            /\ ~f.isRequest /\ f.last <= last => response = Size(f)
            /\ f.isRequest /\ f.last <= last /\ f.function # 6 => response # Size(f)
            /\ ~f.isRequest /\ f.last <= last /\ f.function # 6 => request # Size(f)
            /\ f.last > last => request = 0 \/ request > last - f.first + 1
                                \/ response = 0 \/ response > last - f.first + 1
<1>1. f \in Frame /\ OnLine(f) BY FrameTypes DEF FramesOnLine
<1>2. f.first \in Nat /\ f.last \in Nat /\ f.function \in {3, 6, 16} /\ f.isRequest \in BOOLEAN
  BY LineTypes
<1>3. PICK a \in Nat, z \in Nat : a = f.first /\ z = f.last BY <1>2
<1>4. 1 <= a /\ a + 4 <= z /\ z <= Len(line) BY <1>1, <1>3 DEF OnLine
<1> DEFINE Told(first, end) ==
             /\ requestLength(first, end) =
                  IF line[first + 1] >= 128 THEN -1
                  ELSE IF line[first + 1] \in FixedSize THEN 8
                  ELSE IF line[first + 1] # 16 \/ end < first + 6 THEN 0
                  ELSE IF line[first + 6] + 9 <= MaxRtuAduSize THEN line[first + 6] + 9 ELSE -1
             /\ responseLength(first, end) =
                  IF line[first + 1] \in 1 .. 4
                  THEN IF line[first + 2] + 5 <= MaxRtuAduSize THEN line[first + 2] + 5 ELSE -1
                  ELSE IF line[first + 1] \in {5, 6, 16} THEN 8
                  ELSE IF line[first + 1] >= 128 THEN 5 ELSE 0
             /\ line[first + 1] \in 0 .. 255 /\ line[first + 2] \in 0 .. 255
             /\ end >= first + 6 => line[first + 6] \in 0 .. 255
<1>5. Told(a, last)
  <2>1. 1 <= a /\ a + 3 <= last BY <1>3, <1>4
  <2>2. \A first, end \in Nat : 1 <= first /\ first + 3 <= end /\ end <= Len(line) => Told(first, end)
    BY Lengths
  <2> HIDE DEF Told
  <2>3. QED BY <2>1, <2>2
<1>51. PICK b1, b2 : b1 = line[a + 1] /\ b2 = line[a + 2] OBVIOUS
<1>53. PICK b6 \in 0 .. 255 : last >= a + 6 => b6 = line[a + 6]
  <2>1. CASE last >= a + 6 BY <1>5, <2>1
  <2>2. CASE ~(last >= a + 6)
    <3>1. 0 \in 0 .. 255 OBVIOUS
    <3>2. QED BY <2>2, <3>1
  <2>3. QED BY <2>1, <2>2
<1>52. b1 \in 0 .. 255 /\ b2 \in 0 .. 255 BY <1>5, <1>51
<1>6. requestLength(a, last) =
        IF b1 >= 128 THEN -1
        ELSE IF b1 \in FixedSize THEN 8
        ELSE IF b1 # 16 \/ last < a + 6 THEN 0
        ELSE IF b6 + 9 <= MaxRtuAduSize THEN b6 + 9 ELSE -1
  <2>1. CASE last < a + 6 BY <1>5, <1>51, <2>1
  <2>2. CASE last >= a + 6 BY <1>5, <1>51, <1>53, <2>2
  <2>3. QED BY <2>1, <2>2
<1>7. responseLength(a, last) =
        IF b1 \in 1 .. 4
        THEN IF b2 + 5 <= MaxRtuAduSize THEN b2 + 5 ELSE -1
        ELSE IF b1 \in {5, 6, 16} THEN 8
        ELSE IF b1 >= 128 THEN 5 ELSE 0
  BY <1>5, <1>51
<1> HIDE DEF Told
<1>9. Size(f) = z - a + 1 BY <1>3 DEF Size
<1>10. \/ f.isRequest /\ b1 = f.function /\ f.function \in {3, 6} /\ z = a + 7 /\ b2 = 0
       \/ f.isRequest /\ b1 = f.function /\ f.function = 16 /\ z = a + 10 /\ (last >= a + 6 => b6 = 2)
       \/ ~f.isRequest /\ b1 = f.function /\ f.function = 3 /\ z = a + 6 /\ b2 = 2
       \/ ~f.isRequest /\ b1 = f.function /\ f.function \in {6, 16} /\ z = a + 7
       \/ ~f.isRequest /\ b1 = f.function + 128 /\ z = a + 4
  <2>1. line[f.first + 1] = b1 /\ line[f.first + 2] = b2 /\ (last >= a + 6 => line[f.first + 6] = b6)
    BY <1>3, <1>51, <1>53
  <2>2. \/ f.isRequest /\ b1 = f.function /\ f.function \in {3, 6} /\ Size(f) = 8 /\ b2 = 0
        \/ f.isRequest /\ b1 = f.function /\ f.function = 16 /\ Size(f) = 11 /\ (last >= a + 6 => b6 = 2)
        \/ ~f.isRequest /\ b1 = f.function /\ f.function = 3 /\ Size(f) = 7 /\ b2 = 2
        \/ ~f.isRequest /\ b1 = f.function /\ f.function \in {6, 16} /\ Size(f) = 8
        \/ ~f.isRequest /\ b1 = f.function + 128 /\ Size(f) = 5
    BY <1>1, <2>1 DEF OnLine
  <2>3. \A n \in Nat : z - a + 1 = n + 1 => z = a + n OBVIOUS
  <2>4. /\ Size(f) = 8 => z = a + 7
        /\ Size(f) = 11 => z = a + 10
        /\ Size(f) = 7 => z = a + 6
        /\ Size(f) = 5 => z = a + 4
    BY <1>9
  <2>5. QED BY <2>2, <2>4
<1> DEFINE request == requestLength(a, last)
           response == responseLength(a, last)
<1>11. last < a + 6 \/ last >= a + 6 OBVIOUS
<1>12. request \in Int /\ response \in Int
  <2>1. request \in {-1, 8, 0, b6 + 9} BY <1>6
  <2>2. response \in Int BY <1>52, <1>7
  <2> HIDE DEF request
  <2>3. request \in Int BY <2>1
  <2>4. QED BY <2>2, <2>3
<1>13. /\ f.isRequest /\ z <= last => request = z - a + 1
       /\ ~f.isRequest /\ z <= last => response = z - a + 1
  BY <1>2, <1>6, <1>7, <1>10, SizeAssumption DEF FixedSize
<1>14. /\ f.isRequest /\ z <= last /\ f.function # 6 => response # z - a + 1
       /\ ~f.isRequest /\ z <= last /\ f.function # 6 => request # z - a + 1
  <2>1. f.isRequest /\ f.function = 3 => response = 5 BY <1>7, <1>10, SizeAssumption
  <2>2. f.isRequest /\ f.function = 16 => response = 8 BY <1>7, <1>10
  <2>3. (f.isRequest /\ f.function = 3 => z = a + 7) /\ (f.isRequest /\ f.function = 16 => z = a + 10)
    BY <1>2, <1>10
  <2>4. f.isRequest /\ f.function # 6 => response # z - a + 1 BY <1>2, <2>1, <2>2, <2>3
  <2>5. ~f.isRequest /\ z = a + 4 => request = -1 BY <1>2, <1>6, <1>10
  <2>6. ~f.isRequest /\ f.function = 3 /\ z # a + 4 => request = 8 /\ z = a + 6
    BY <1>2, <1>6, <1>10 DEF FixedSize
  <2>7. ~f.isRequest /\ f.function = 16 /\ z # a + 4 => b1 = 16 /\ z = a + 7 BY <1>2, <1>10
  <2>8. b1 = 16 => request # 8
    <3>1. b1 = 16 => request \in {-1, 0, b6 + 9} BY <1>6 DEF FixedSize
    <3> HIDE DEF request
    <3>2. QED BY <3>1
  <2>9. ~f.isRequest /\ f.function # 6 => request # z - a + 1 BY <1>2, <2>5, <2>6, <2>7, <2>8
  <2>10. QED BY <2>4, <2>9
<1>15. z > last => request = 0 \/ request > last - a + 1 \/ response = 0 \/ response > last - a + 1
  BY <1>2, <1>6, <1>7, <1>10, <1>11, SizeAssumption DEF FixedSize
<1> HIDE DEF request, response
<1>16. request = requestLength(f.first, last) /\ response = responseLength(f.first, last)
  BY <1>3 DEF request, response
<1>17. QED BY <1>3, <1>9, <1>12, <1>13, <1>14, <1>15, <1>16

Fits(first, last, length) == length \in 1 .. last - first + 1 /\ CrcMatches(first, first + length - 1)

\* The four outcomes of a comparison.
LEMMA MatchCases ==
  ASSUME NEW first \in Nat, NEW last \in Nat, NEW pend
  PROVE  LET m == matchFrame(first, last, pend)
             request == Fits(first, last, requestLength(first, last))
             response == Fits(first, last, responseLength(first, last))
             missing(length) == length = 0 \/ length > last - first + 1
         IN /\ last < first + 3 => m.match = "Incomplete"
            /\ last >= first + 3 /\ request /\ response =>
                 /\ m.match = "Frame" /\ m.isRequest = ~isResponseToPendingRequest(first, last, pend)
                 /\ m.length = IF m.isRequest THEN requestLength(first, last)
                                              ELSE responseLength(first, last)
            /\ last >= first + 3 /\ request /\ ~response =>
                 m.match = "Frame" /\ m.isRequest = TRUE /\ m.length = requestLength(first, last)
            /\ last >= first + 3 /\ ~request /\ response =>
                 m.match = "Frame" /\ m.isRequest = FALSE /\ m.length = responseLength(first, last)
            /\ last >= first + 3 /\ ~request /\ ~response =>
                 m.match = IF missing(requestLength(first, last)) \/ missing(responseLength(first, last))
                           THEN "Incomplete" ELSE "Mismatch"
<1> DEFINE size == last - first + 1
           req == requestLength(first, last)
           res == responseLength(first, last)
           request == Fits(first, last, req)
           response == Fits(first, last, res)
           missing == (req = 0 \/ req > size) \/ (res = 0 \/ res > size)
           echo == ~isResponseToPendingRequest(first, last, pend)
           F(isRequest) == [match |-> "Frame", isRequest |-> isRequest,
                            length |-> IF isRequest THEN req ELSE res]
           none(match) == [match |-> match, isRequest |-> TRUE, length |-> 0]
<1>1. matchFrame(first, last, pend) =
        CASE size < 4 -> none("Incomplete")
          [] size >= 4 /\ request /\ response -> F(echo)
          [] size >= 4 /\ request /\ ~response -> F(TRUE)
          [] size >= 4 /\ ~request /\ response -> F(FALSE)
          [] OTHER -> none(IF missing THEN "Incomplete" ELSE "Mismatch")
  BY DEF matchFrame, requestLength, responseLength, Fits
<1>2. size \in Int /\ (size < 4 <=> last < first + 3) /\ (size >= 4 <=> ~(size < 4)) OBVIOUS
<1>3. echo \in BOOLEAN BY DEF isResponseToPendingRequest
<1> HIDE DEF size, request, response, missing, req, res, echo
<1>4. size < 4 => matchFrame(first, last, pend) = none("Incomplete") BY <1>1, <1>2
<1>5. ~(size < 4) /\ request /\ response => matchFrame(first, last, pend) = F(echo) BY <1>1, <1>2
<1>6. ~(size < 4) /\ request /\ ~response => matchFrame(first, last, pend) = F(TRUE) BY <1>1, <1>2
<1>7. ~(size < 4) /\ ~request /\ response => matchFrame(first, last, pend) = F(FALSE) BY <1>1, <1>2
<1>8. ~(size < 4) /\ ~request /\ ~response =>
        matchFrame(first, last, pend) = none(IF missing THEN "Incomplete" ELSE "Mismatch")
  BY <1>1, <1>2
<1>9. (last >= first + 3 <=> ~(size < 4)) /\ (last < first + 3 <=> size < 4) BY <1>2
<1> DEFINE m == matchFrame(first, last, pend)
<1>10. \A x \in BOOLEAN : /\ F(x).match = "Frame" /\ F(x).isRequest = x
                          /\ F(x).length = IF x THEN req ELSE res
  OBVIOUS
<1>11. \A x : none(x).match = x OBVIOUS
<1> HIDE DEF F, none
<1>12. size < 4 => m.match = "Incomplete" BY <1>4, <1>11
<1>13. ~(size < 4) /\ request /\ response =>
         m.match = "Frame" /\ m.isRequest = echo /\ m.length = IF m.isRequest THEN req ELSE res
  BY <1>3, <1>5, <1>10
<1>14. ~(size < 4) /\ request /\ ~response => m.match = "Frame" /\ m.isRequest = TRUE /\ m.length = req
  BY <1>6, <1>10
<1>15. ~(size < 4) /\ ~request /\ response => m.match = "Frame" /\ m.isRequest = FALSE /\ m.length = res
  BY <1>7, <1>10
<1>16. ~(size < 4) /\ ~request /\ ~response => m.match = IF missing THEN "Incomplete" ELSE "Mismatch"
  BY <1>8, <1>11
<1> HIDE DEF m
<1>17. QED BY <1>9, <1>12, <1>13, <1>14, <1>15, <1>16, Zenon DEF size, request, response, missing, req, res, echo, m

\* A frame that has come whole is seen with its length; only the direction of a
\* frame as long as its answer is left to the order.
LEMMA WholeMatches ==
  ASSUME TypeOK, FramesOnLine, NEW f \in ToSet(frames), NEW last \in Nat,
         f.last <= last, last <= Len(line), NEW pend
  PROVE  LET m == matchFrame(f.first, last, pend)
         IN /\ m.match = "Frame" /\ m.length = Size(f) /\ m.isRequest \in BOOLEAN
            /\ m.isRequest # f.isRequest =>
                 /\ f.function = 6 /\ line[f.first + 1] = 6
                 /\ m.isRequest = ~isResponseToPendingRequest(f.first, last, pend)
<1>1. OnLine(f) BY DEF FramesOnLine
<1>2. f.first \in Nat /\ f.last \in Nat /\ f.isRequest \in BOOLEAN /\ f.function \in {3, 6, 16}
      /\ Len(line) \in Nat
  BY LineTypes
<1>3. PICK a \in Nat, z \in Nat : a = f.first /\ z = f.last BY <1>2
<1>4. 1 <= a /\ a + 4 <= z /\ z <= last /\ a + 3 <= last BY <1>1, <1>3 DEF OnLine
<1> DEFINE req == requestLength(a, last)
           res == responseLength(a, last)
           m == matchFrame(a, last, pend)
<1>5. /\ req \in Int /\ res \in Int
      /\ f.isRequest => req = Size(f)
      /\ ~f.isRequest => res = Size(f)
      /\ f.isRequest /\ f.function # 6 => res # Size(f)
      /\ ~f.isRequest /\ f.function # 6 => req # Size(f)
  BY <1>3, <1>4, SizesOf
<1>6. Size(f) = z - a + 1 BY <1>3 DEF Size
<1>7. \A e \in Int : CrcMatches(a, e) <=> e = z BY <1>3, OneFrameAt
<1>8. \A n \in Int : Fits(a, last, n) <=> n = Size(f)
  <2> TAKE n \in Int
  <2>1. a + n - 1 \in Int /\ (a + n - 1 = z <=> n = z - a + 1) OBVIOUS
  <2>2. CrcMatches(a, a + n - 1) <=> n = Size(f) BY <1>6, <1>7, <2>1
  <2>3. z - a + 1 \in 1 .. last - a + 1 BY <1>4
  <2>4. QED BY <1>6, <2>2, <2>3 DEF Fits
<1> DEFINE request == Fits(a, last, req)
           response == Fits(a, last, res)
<1>9. request \/ response BY <1>2, <1>5, <1>8
<1>10. /\ request /\ response =>
           /\ m.match = "Frame" /\ m.isRequest = ~isResponseToPendingRequest(a, last, pend)
           /\ m.length = IF m.isRequest THEN req ELSE res
       /\ request /\ ~response => m.match = "Frame" /\ m.isRequest = TRUE /\ m.length = req
       /\ ~request /\ response => m.match = "Frame" /\ m.isRequest = FALSE /\ m.length = res
  BY <1>4, MatchCases
<1>11. request => req = Size(f) BY <1>5, <1>8
<1>12. response => res = Size(f) BY <1>5, <1>8
<1>13. request /\ response => f.function = 6 /\ line[a + 1] = 6
  <2> SUFFICES ASSUME request, response PROVE f.function = 6 /\ line[a + 1] = 6
    OBVIOUS
  <2>1. req = Size(f) /\ res = Size(f) BY <1>11, <1>12
  <2>2. f.function = 6 BY <1>2, <1>5, <2>1
  <2>3. line[a + 1] < 128
    <3>1. line[a + 1] >= 128 => req = -1 BY DEF requestLength
    <3>2. line[a + 1] \in 0 .. 255
      <4>1. a + 1 \in 1 .. Len(line) BY <1>2, <1>4
      <4>2. QED BY <4>1, LineTypes
    <3>3. Size(f) # -1 BY <1>4, <1>6
    <3>4. ~(line[a + 1] >= 128) BY <2>1, <3>1, <3>3
    <3>5. \A b \in 0 .. 255 : ~(b >= 128) => b < 128 OBVIOUS
    <3>6. QED BY <3>2, <3>4, <3>5
  <2>4. line[f.first + 1] \in {f.function, f.function + 128} BY <1>1 DEF OnLine
  <2>5. QED BY <1>3, <2>2, <2>3, <2>4
<1>14. ~request /\ response => ~f.isRequest BY <1>5, <1>8
<1>15. request /\ ~response => f.isRequest BY <1>5, <1>8
<1> HIDE DEF request, response, req, res
<1>16. /\ m.match = "Frame" /\ m.length = Size(f) /\ m.isRequest \in BOOLEAN
       /\ m.isRequest # f.isRequest =>
            request /\ response /\ m.isRequest = ~isResponseToPendingRequest(a, last, pend)
  <2>1. (~isResponseToPendingRequest(a, last, pend)) \in BOOLEAN BY DEF isResponseToPendingRequest
  <2> HIDE DEF m
  <2>2. CASE request /\ response
    <3>1. /\ m.match = "Frame" /\ m.isRequest = ~isResponseToPendingRequest(a, last, pend)
          /\ m.length = IF m.isRequest THEN req ELSE res
      BY <1>10, <2>2
    <3>2. m.length = Size(f) BY <1>11, <1>12, <2>2, <3>1
    <3>3. QED BY <2>1, <2>2, <3>1, <3>2
  <2>3. CASE request /\ ~response BY <1>2, <1>10, <1>11, <1>15, <2>3
  <2>4. CASE ~request /\ response BY <1>2, <1>10, <1>12, <1>14, <2>4
  <2>5. QED BY <1>9, <2>2, <2>3, <2>4
<1>17. QED BY <1>3, <1>13, <1>16

\* What is taken for a frame is one.
LEMMA MatchedIsFrame ==
  ASSUME TypeOK, FramesOnLine, NEW first \in Nat, NEW last \in Nat, last <= Len(line), NEW pend,
         matchFrame(first, last, pend).match = "Frame"
  PROVE  \E f \in ToSet(frames) : f.first = first /\ f.last <= last
<1> DEFINE req == requestLength(first, last)
           res == responseLength(first, last)
<1>1. PICK n : Fits(first, last, n)
  <2> DEFINE m == matchFrame(first, last, pend)
             request == Fits(first, last, req)
             response == Fits(first, last, res)
  <2>1. last < first + 3 => m.match = "Incomplete" BY MatchCases
  <2>2. last >= first + 3 /\ ~request /\ ~response =>
          m.match = IF (req = 0 \/ req > last - first + 1) \/ (res = 0 \/ res > last - first + 1)
                    THEN "Incomplete" ELSE "Mismatch"
    BY MatchCases
  <2>3. m.match = "Frame" /\ (last < first + 3 \/ last >= first + 3) OBVIOUS
  <2> HIDE DEF m, request, response
  <2>4. request \/ response BY <2>1, <2>2, <2>3
  <2>5. QED BY <2>4 DEF request, response
<1>2. n \in 1 .. last - first + 1 BY <1>1 DEF Fits
<1>3. PICK f \in ToSet(frames) : f.first = first /\ f.last = first + n - 1
  BY <1>1 DEF Fits, CrcMatches
<1>4. QED BY <1>2, <1>3

\* A frame that has not come whole may still do so.
LEMMA PartIsIncomplete ==
  ASSUME TypeOK, FramesOnLine, NEW f \in ToSet(frames), NEW last \in Nat,
         f.last > last, last <= Len(line), NEW pend
  PROVE  matchFrame(f.first, last, pend).match = "Incomplete"
<1>1. f.first \in Nat /\ f.last \in Nat BY LineTypes
<1>2. PICK a \in Nat : a = f.first BY <1>1
<1> DEFINE m == matchFrame(a, last, pend)
           req == requestLength(a, last)
           res == responseLength(a, last)
           request == Fits(a, last, req)
           response == Fits(a, last, res)
<1>3. CASE last < a + 3 BY <1>2, <1>3, MatchCases
<1>4. CASE last >= a + 3
  <2>1. \A n : ~Fits(a, last, n)
    <3> SUFFICES ASSUME NEW n, Fits(a, last, n) PROVE FALSE
      OBVIOUS
    <3>1. n \in 1 .. last - a + 1 /\ CrcMatches(a, a + n - 1) BY DEF Fits
    <3>2. a + n - 1 \in Int BY <3>1
    <3>3. a + n - 1 = f.last BY <1>2, <3>1, <3>2, OneFrameAt
    <3>4. QED BY <1>1, <3>1, <3>3
  <2>2. req = 0 \/ req > last - a + 1 \/ res = 0 \/ res > last - a + 1
    BY <1>1, <1>2, <1>4, SizesOf
  <2>3. last >= a + 3 /\ ~request /\ ~response =>
          m.match = IF (req = 0 \/ req > last - a + 1) \/ (res = 0 \/ res > last - a + 1)
                    THEN "Incomplete" ELSE "Mismatch"
    BY MatchCases
  <2>4. ~request /\ ~response BY <2>1
  <2> HIDE DEF request, response, req, res, m
  <2>5. m.match = "Incomplete" BY <1>4, <2>2, <2>3, <2>4
  <2>6. QED BY <1>2, <2>5 DEF m
<1>5. QED BY <1>1, <1>2, <1>3, <1>4

-----------------------------------------------------------------------------
(* What the parser does, in terms of frames.                               *)

\* The parser has taken the frame f off its buffer.
TakenOff(p, f, isRequest) ==
  [head |-> f.last + 1,
   out |-> Append(p.out, [first |-> f.first, last |-> f.last, isRequest |-> isRequest]),
   pending |-> IF isRequest /\ f.address # Broadcast THEN <<f.address, f.function>> ELSE None]

\* No frame at the start of the buffer has come whole.
NoneWhole(p, last) == \A f \in ToSet(frames) : f.first = p.head => f.last > last

LEMMA NextFrame ==
  ASSUME TypeOK, FramesOnLine, NEW p \in ParserState, NEW last \in Nat,
         last <= Len(line)
  PROVE  \/ NoneWhole(p, last) /\ nextFrame(p, last) = p
         \/ \E f \in ToSet(frames), isRequest \in BOOLEAN :
              /\ f.first = p.head /\ f.last <= last
              /\ nextFrame(p, last) = TakenOff(p, f, isRequest)
              /\ isRequest # f.isRequest =>
                   f.function = 6 /\ isRequest = (p.pending # <<f.address, 6>>)
<1> DEFINE m == matchFrame(p.head, last, p.pending)
<1>1. p.head \in Nat BY DEF ParserState
<1>2. CASE m.match # "Frame"
  <2>1. nextFrame(p, last) = p BY <1>2 DEF nextFrame
  <2>2. ASSUME NEW f \in ToSet(frames), f.first = p.head, ~(f.last > last) PROVE FALSE
    <3>1. f.last <= last BY <2>2, LineTypes
    <3>2. matchFrame(f.first, last, p.pending).match = "Frame" BY <3>1, WholeMatches
    <3>3. QED BY <1>2, <2>2, <3>2
  <2>3. QED BY <2>1, <2>2 DEF NoneWhole
<1>3. CASE m.match = "Frame"
  <2>1. PICK f \in ToSet(frames) : f.first = p.head /\ f.last <= last
    BY <1>1, <1>3, MatchedIsFrame
  <2>2. matchFrame(f.first, last, p.pending) = m BY <2>1
  <2>3. /\ m.length = Size(f) /\ m.isRequest \in BOOLEAN
        /\ m.isRequest # f.isRequest =>
             /\ f.function = 6 /\ line[f.first + 1] = 6
             /\ m.isRequest = ~isResponseToPendingRequest(f.first, last, p.pending)
    BY <2>1, <2>2, WholeMatches
  <2>4. f.first \in Nat /\ f.last \in Nat /\ f.first < f.last /\ line[f.first] = f.address
        /\ (f.isRequest => line[f.first + 1] = f.function)
    BY LineTypes DEF FramesOnLine, OnLine
  <2>5. m.isRequest => line[f.first + 1] = f.function BY <2>3, <2>4, LineTypes
  <2>6. p.head + m.length = f.last + 1 /\ p.head + m.length - 1 = f.last BY <2>1, <2>3, <2>4 DEF Size
  <2>7. line[p.head] = f.address /\ line[p.head + 1] = line[f.first + 1] BY <2>1, <2>4
  <2>8. nextFrame(p, last) = takeFrame(p, m) BY <1>3 DEF nextFrame
  <2> HIDE DEF m
  <2>9. takeFrame(p, m) =
          [head |-> f.last + 1,
           out |-> Append(p.out, [first |-> f.first, last |-> f.last, isRequest |-> m.isRequest]),
           pending |-> IF m.isRequest /\ f.address # Broadcast THEN <<f.address, f.function>> ELSE None]
    BY <2>1, <2>5, <2>6, <2>7 DEF takeFrame, taken
  <2>10. m.isRequest # f.isRequest => f.function = 6 /\ m.isRequest = (p.pending # <<f.address, 6>>)
    <3> SUFFICES ASSUME m.isRequest # f.isRequest
                 PROVE  f.function = 6 /\ m.isRequest = (p.pending # <<f.address, 6>>)
      OBVIOUS
    <3>1. f.function = 6 /\ line[f.first + 1] = 6
          /\ m.isRequest = ~isResponseToPendingRequest(f.first, last, p.pending)
      BY <2>3
    <3>2. last > f.first BY <2>1, <2>4
    <3>3. header(f.first) = <<f.address, 6>> BY <2>4, <3>1 DEF header
    <3>4. isResponseToPendingRequest(f.first, last, p.pending) <=> p.pending = <<f.address, 6>>
      <4>1. p.pending = <<f.address, 6>> => p.pending # None BY DEF None
      <4>2. QED BY <3>2, <3>3, <4>1 DEF isResponseToPendingRequest
    <3>5. QED BY <2>3, <3>1, <3>4
  <2>11. QED BY <2>1, <2>3, <2>8, <2>9, <2>10 DEF TakenOff
<1>4. QED BY <1>2, <1>3

LEMMA TakenOffType ==
  ASSUME TypeOK, FramesOnLine, NEW p \in ParserState, NEW f \in ToSet(frames),
         NEW isRequest \in BOOLEAN
  PROVE  TakenOff(p, f, isRequest) \in ParserState
<1>1. f.first \in Nat /\ f.last + 1 \in Nat /\ f.last \in Nat BY LineTypes
<1>2. f.address \in Bytes /\ f.function \in Bytes
  <2>1. OnLine(f) /\ f.address = line[f.first] BY DEF FramesOnLine, OnLine
  <2>2. f.first \in 1 .. Len(line) BY <1>1, <2>1, LineTypes DEF OnLine
  <2>3. line[f.first] \in 0 .. 255 BY <2>2, LineTypes
  <2>4. f.function \in {3, 6, 16} BY LineTypes
  <2>5. QED BY <2>1, <2>3, <2>4 DEF Bytes
<1>3. Append(p.out, [first |-> f.first, last |-> f.last, isRequest |-> isRequest]) \in Seq(Sniffed)
  BY <1>1 DEF ParserState, Sniffed
<1>4. QED BY <1>1, <1>2, <1>3 DEF TakenOff, ParserState

\* The loop ends when the buffer starts with no frame.
LEMMA LoopEnds ==
  ASSUME TypeOK, FramesOnLine, NEW last \in Nat, last <= Len(line),
         NEW G, NEW p \in G, p.head <= last + 1,
         \A q \in G : q \in ParserState,
         \A q \in G : nextFrame(q, last) \in G
  PROVE  takeFrames(p, last) \in G /\ NoneWhole(takeFrames(p, last), last)
<1>1. p.head \in Nat BY DEF ParserState
<1> DEFINE k == (last - p.head + 1) \div 4
<1>2. PICK s \in [Nat -> G] : Rounds(s, p, last) /\ takeFrames(p, last) = s[k]
  BY <1>1, LoopRounds
<1>3. k \in Nat /\ last - p.head + 1 < 4 * k + 4 BY <1>1
<1> DEFINE N == {n \in Nat : NoneWhole(s[n], last) \/ s[n].head >= p.head + 4 * n}
<1>4. \A n \in Nat : n \in N
  <2>1. 0 \in N
    <3>1. s[0] = p BY <1>2 DEF Rounds
    <3>2. s[0].head >= p.head + 4 * 0 BY <1>1, <3>1
    <3>3. QED BY <3>2
  <2>2. ASSUME NEW n \in Nat, n \in N PROVE n + 1 \in N
    <3>1. s[n] \in ParserState /\ s[n + 1] = nextFrame(s[n], last) /\ n + 1 \in Nat
      <4>1. s[n] \in G OBVIOUS
      <4>2. \A q \in G : q \in ParserState OBVIOUS
      <4>3. s[n + 1] = nextFrame(s[n], last) BY <1>2 DEF Rounds
      <4>4. QED BY <4>1, <4>2, <4>3
    <3>2. CASE NoneWhole(s[n], last) /\ nextFrame(s[n], last) = s[n]
      BY <3>1, <3>2
    <3>3. CASE ~NoneWhole(s[n], last)
      <4>1. PICK f \in ToSet(frames), isRequest \in BOOLEAN :
              f.first = s[n].head /\ nextFrame(s[n], last) = TakenOff(s[n], f, isRequest)
        BY <3>1, <3>3, NextFrame
      <4>2. s[n + 1].head = f.last + 1 BY <3>1, <4>1 DEF TakenOff
      <4>3. f.first \in Nat /\ f.last \in Nat /\ f.first + 4 <= f.last BY LineTypes DEF FramesOnLine, OnLine
      <4>4. f.first >= p.head + 4 * n BY <2>2, <3>3, <4>1
      <4>5. f.last + 1 >= p.head + 4 * (n + 1) BY <1>1, <4>3, <4>4
      <4>6. QED BY <3>1, <4>2, <4>5
    <3>4. CASE NoneWhole(s[n], last) /\ nextFrame(s[n], last) # s[n]
      <4>1. PICK f \in ToSet(frames) : f.first = s[n].head /\ f.last <= last
        BY <3>1, <3>4, NextFrame
      <4>2. QED BY <3>4, <4>1, LineTypes DEF NoneWhole
    <3>5. QED BY <3>2, <3>3, <3>4
  <2> HIDE DEF N
  <2>3. QED BY <2>1, <2>2, AllNaturals
<1>5. NoneWhole(s[k], last)
  <2>1. NoneWhole(s[k], last) \/ s[k].head >= p.head + 4 * k BY <1>3, <1>4
  <2> HIDE DEF k
  <2>2. ASSUME s[k].head >= p.head + 4 * k, NEW f \in ToSet(frames), f.first = s[k].head
        PROVE  f.last > last
    <3>1. f.first \in Nat /\ f.last \in Nat /\ f.first + 4 <= f.last BY LineTypes DEF FramesOnLine, OnLine
    <3>2. f.first >= p.head + 4 * k BY <2>2
    <3>3. QED BY <1>1, <1>3, <3>1, <3>2
  <2>3. QED BY <2>1, <2>2 DEF NoneWhole
<1>6. s[k] \in G BY <1>2, <1>3
<1>7. QED BY <1>2, <1>5, <1>6

GivenUp(p, last, isResponse) ==
  [head |-> last + 1,
   out |-> Append(p.out, [first |-> p.head, last |-> last, isRequest |-> ~isResponse]),
   pending |-> IF isResponse THEN None ELSE p.pending]

LEMMA Flushed ==
  ASSUME NEW p \in ParserState, NEW last \in Nat
  PROVE  /\ p.head > last => flush(p, last) = p
         /\ p.head <= last => \E isResponse \in BOOLEAN : flush(p, last) = GivenUp(p, last, isResponse)
<1>1. p.head \in Nat BY DEF ParserState
<1>2. ASSUME p.head > last PROVE flush(p, last) = p BY <1>1, <1>2 DEF flush
<1>3. ASSUME p.head <= last
      PROVE  \E isResponse \in BOOLEAN : flush(p, last) = GivenUp(p, last, isResponse)
  <2>1. PICK isResponse \in BOOLEAN : isResponse = isResponseToPendingRequest(p.head, last, p.pending)
    BY DEF isResponseToPendingRequest
  <2>2. p.head + (last - p.head + 1) - 1 = last BY <1>1
  <2>3. taken(p, last - p.head + 1, ~isResponse) =
          Append(p.out, [first |-> p.head, last |-> last, isRequest |-> ~isResponse])
    BY <2>2 DEF taken
  <2>4. ~(last < p.head) BY <1>1, <1>3
  <2>5. flush(p, last) =
          [head |-> last + 1, out |-> taken(p, last - p.head + 1, ~isResponse),
           pending |-> IF isResponse THEN None ELSE p.pending]
    BY <2>1, <2>4 DEF flush
  <2>6. QED BY <2>3, <2>5 DEF GivenUp
<1>4. QED BY <1>2, <1>3

LEMMA GivenUpType ==
  ASSUME NEW p \in ParserState, NEW last \in Nat, NEW isResponse \in BOOLEAN
  PROVE  GivenUp(p, last, isResponse) \in ParserState
BY DEF GivenUp, ParserState, Sniffed

\* What holds of the parser before extractFrames and is kept by each round of its
\* loop, and what then follows for the bytes kept or given up.
LEMMA Extracted ==
  ASSUME TypeOK, FramesOnLine, NEW last \in Nat, last <= Len(line),
         NEW G, NEW H, NEW p \in G, p.head <= last + 1,
         \A q \in G : q \in ParserState,
         \A q \in G : nextFrame(q, last) \in G,
         \A q \in G : NoneWhole(q, last) /\ last - q.head + 1 <= MaxRtuAduSize => q \in H,
         \A q \in G : \A isResponse \in BOOLEAN :
           NoneWhole(q, last) /\ last - q.head + 1 > MaxRtuAduSize => GivenUp(q, last, isResponse) \in H
  PROVE  extractFrames(p, last) \in H
<1> DEFINE rest == takeFrames(p, last)
<1>1. rest \in G /\ NoneWhole(rest, last) BY LoopEnds
<1>2. extractFrames(p, last) =
        IF last - rest.head + 1 > MaxRtuAduSize THEN flush(rest, last) ELSE rest
  BY DEF extractFrames
<1> HIDE DEF rest
<1>3. rest \in ParserState /\ rest.head \in Nat BY <1>1 DEF ParserState
<1>4. CASE last - rest.head + 1 > MaxRtuAduSize
  <2>1. rest.head <= last BY <1>3, <1>4, SizeAssumption
  <2>2. PICK isResponse \in BOOLEAN : flush(rest, last) = GivenUp(rest, last, isResponse)
    BY <1>3, <2>1, Flushed
  <2>3. QED BY <1>1, <1>2, <1>4, <2>2
<1>5. CASE ~(last - rest.head + 1 > MaxRtuAduSize)
  <2>1. last - rest.head + 1 <= MaxRtuAduSize BY <1>3, <1>5, SizeAssumption
  <2>2. QED BY <1>1, <1>2, <1>5, <2>1
<1>6. QED BY <1>4, <1>5

LEMMA ParserType == TypeOK => parser \in ParserState /\ parser.head = head /\ parser.out = <<>> /\ parser.pending = pending
BY DEF TypeOK, parser, ParserState

LEMMA MatchIsOneOf ==
  ASSUME NEW first \in Nat, NEW last \in Nat, NEW pend
  PROVE  matchFrame(first, last, pend).match \in {"Frame", "Mismatch", "Incomplete"}
<1> DEFINE m == matchFrame(first, last, pend)
           request == Fits(first, last, requestLength(first, last))
           response == Fits(first, last, responseLength(first, last))
<1>1. /\ last < first + 3 => m.match = "Incomplete"
      /\ last >= first + 3 /\ request /\ response => m.match = "Frame"
      /\ last >= first + 3 /\ request /\ ~response => m.match = "Frame"
      /\ last >= first + 3 /\ ~request /\ response => m.match = "Frame"
      /\ last >= first + 3 /\ ~request /\ ~response => m.match \in {"Incomplete", "Mismatch"}
  BY MatchCases
<1>2. last < first + 3 \/ last >= first + 3 OBVIOUS
<1> HIDE DEF m, request, response
<1>3. m.match \in {"Frame", "Mismatch", "Incomplete"} BY <1>1, <1>2
<1>4. QED BY <1>3 DEF m

\* What was kept is given up only when no frame starts with it, and is given up when
\* a whole frame follows it after a silence.
LEMMA Fed ==
  ASSUME TypeOK, FramesOnLine, NotYetFrame, snifferMode,
         NEW last \in Nat, got < last, last <= Len(line), NEW afterSilence \in BOOLEAN
  PROVE  \E p \in ParserState :
           /\ feed(last, afterSilence) = extractFrames(p, last)
           /\ p.head <= last
           /\ p = parser \/ (head <= got /\ \E isResponse \in BOOLEAN : p = GivenUp(parser, got, isResponse))
           /\ Boundary(head) => p = parser
           /\ \A f \in ToSet(frames) : afterSilence /\ f.first = got + 1 /\ f.last <= last => p.head = got + 1
<1> DEFINE joined == matchFrame(head, last, pending).match
           alone == matchFrame(got + 1, last, pending).match
           apart == /\ afterSilence /\ buffered > 0
                    /\ \/ joined = "Mismatch"
                       \/ joined = "Incomplete" /\ alone = "Frame"
           p == IF apart THEN flush(parser, got) ELSE parser
<1>1. feed(last, afterSilence) = extractFrames(p, last) BY DEF feed
<1>2. got \in Nat /\ head \in Nat /\ head <= got + 1 /\ (buffered > 0 <=> head <= got)
  BY LineTypes DEF TypeOK, buffered
<1>3. parser \in ParserState /\ parser.head = head BY ParserType
<1>4. CASE ~apart
  <2>1. p = parser BY <1>4
  <2>2. ASSUME NEW f \in ToSet(frames), afterSilence, f.first = got + 1, f.last <= last
        PROVE  p.head = got + 1
    <3> SUFFICES ASSUME head <= got PROVE FALSE
      BY <1>2, <1>3, <2>1
    <3>1. alone = "Frame" BY <2>2, WholeMatches
    <3>2. joined # "Mismatch" /\ joined # "Incomplete" BY <1>2, <1>4, <2>2, <3>1
    <3>3. joined = "Frame"
      <4>1. joined \in {"Frame", "Mismatch", "Incomplete"} BY <1>2, MatchIsOneOf
      <4>2. QED BY <3>2, <4>1
    <3>4. PICK g \in ToSet(frames) : g.first = head /\ g.last <= last
      BY <1>2, <3>3, MatchedIsFrame
    <3>5. g.last > got BY <3>4 DEF NotYetFrame
    <3>6. f.last > f.first /\ f.first \in Nat /\ f.last \in Nat /\ g.first \in Nat /\ g.last \in Nat
      BY LineTypes DEF FramesOnLine, OnLine
    <3>7. QED BY <1>2, <2>2, <3>4, <3>5, <3>6, FramesApart
  <2>3. QED BY <1>1, <1>2, <1>3, <2>1, <2>2
<1>5. CASE apart
  <2>1. head <= got BY <1>2, <1>5
  <2>2. PICK isResponse \in BOOLEAN : p = GivenUp(parser, got, isResponse)
    BY <1>2, <1>3, <1>5, <2>1, Flushed
  <2>3. p \in ParserState /\ p.head = got + 1
    <3>1. p \in ParserState BY <1>2, <1>3, <2>2, GivenUpType
    <3>2. QED BY <2>2, <3>1 DEF GivenUp
  <2>4. ~Boundary(head)
    <3> SUFFICES ASSUME NEW f \in ToSet(frames), f.first = head PROVE FALSE
      BY <1>2, <2>1, LineTypes DEF Boundary
    <3>1. f.last > got BY DEF NotYetFrame
    <3>2. f.first \in Nat /\ f.last \in Nat /\ f.first < f.last BY LineTypes DEF FramesOnLine, OnLine
    <3>3. CASE f.last <= last
      <4>1. joined = "Frame" BY <3>3, WholeMatches
      <4>2. QED BY <1>5, <4>1
    <3>4. CASE f.last > last
      <4>1. joined = "Incomplete" BY <3>4, PartIsIncomplete
      <4>2. alone = "Frame" BY <1>5, <4>1
      <4>3. PICK g \in ToSet(frames) : g.first = got + 1 /\ g.last <= last
        BY <1>2, <4>2, MatchedIsFrame
      <4>4. g.first \in Nat /\ g.last \in Nat /\ g.first < g.last BY LineTypes DEF FramesOnLine, OnLine
      <4>5. QED BY <1>2, <2>1, <3>2, <3>4, <4>3, <4>4, FramesApart
    <3>5. QED BY <3>2, <3>3, <3>4
  <2>5. p.head <= last BY <1>2, <2>3
  <2> HIDE DEF p
  <2>6. p = parser \/ (head <= got /\ \E r \in BOOLEAN : p = GivenUp(parser, got, r))
    BY <2>1, <2>2
  <2>7. \A f \in ToSet(frames) : afterSilence /\ f.first = got + 1 /\ f.last <= last => p.head = got + 1
    BY <2>3
  <2>8. Boundary(head) => p = parser BY <2>4
  <2>9. p \in ParserState BY <2>3
  <2> WITNESS p \in ParserState
  <2>10. QED BY <1>1, <2>5, <2>6, <2>7, <2>8
<1>6. QED BY <1>4, <1>5

-----------------------------------------------------------------------------
(* Bytes come onto the line.                                               *)

\* Bytes that are a frame, as far as their size and direction go.
FrameOf(bytes, address, function, isRequest) ==
  /\ bytes \in Seq(Bytes) /\ bytes[1] = address
  /\ \/ isRequest /\ bytes[2] = function /\ function \in {3, 6} /\ Len(bytes) = 8 /\ bytes[3] = 0
     \/ isRequest /\ bytes[2] = function /\ function = 16 /\ Len(bytes) = 11 /\ bytes[7] = 2
     \/ ~isRequest /\ bytes[2] = function /\ function = 3 /\ Len(bytes) = 7 /\ bytes[3] = 2
     \/ ~isRequest /\ bytes[2] = function /\ function \in {6, 16} /\ Len(bytes) = 8
     \/ ~isRequest /\ bytes[2] = function + 128 /\ Len(bytes) = 5

LEMMA AddressIsByte == Devices \cup {Broadcast} \subseteq Bytes
<1>1. Own \in 0 .. 255 /\ \A x \in Others : x \in 0 .. 255 BY DeviceAssumption
<1>2. QED BY <1>1 DEF Devices, Broadcast, Bytes

LEMMA RequestIsFrame ==
  ASSUME NEW address \in Devices \cup {Broadcast}, NEW function \in Functions
  PROVE  FrameOf(requestBytes(address, function), address, function, TRUE)
<1>1. address \in Bytes /\ function \in {3, 6, 16} /\ function \in Bytes /\ Crc \in Bytes
      /\ 0 \in Bytes /\ 1 \in Bytes /\ 2 \in Bytes /\ 16 \in Bytes
  <2>1. address \in Bytes BY AddressIsByte
  <2>2. QED BY <2>1, FunctionAssumption DEF Bytes, Crc
<1>2. CASE function = 16
  <2> DEFINE b == <<address, 16, 0, 0, 0, 1, 2, 0, 0, Crc, Crc>>
  <2>1. requestBytes(address, function) = b BY <1>2 DEF requestBytes
  <2>2. b \in Seq(Bytes) /\ Len(b) = 11 /\ b[1] = address /\ b[2] = 16 /\ b[7] = 2 BY <1>1
  <2>3. QED BY <1>2, <2>1, <2>2 DEF FrameOf
<1>3. CASE function # 16
  <2> DEFINE b == <<address, function, 0, 0, 0, 1, Crc, Crc>>
  <2>1. requestBytes(address, function) = b BY <1>3 DEF requestBytes
  <2>2. b \in Seq(Bytes) /\ Len(b) = 8 /\ b[1] = address /\ b[2] = function /\ b[3] = 0 BY <1>1
  <2>3. QED BY <1>1, <1>3, <2>1, <2>2 DEF FrameOf
<1>4. QED BY <1>2, <1>3

LEMMA ResponseIsFrame ==
  ASSUME NEW address \in Devices, NEW function \in Functions,
         NEW bytes \in responseBytes(address, function)
  PROVE  FrameOf(bytes, address, function, FALSE)
<1>1. address \in Bytes /\ function \in {3, 6, 16} /\ function \in Bytes /\ function + 128 \in Bytes
      /\ Crc \in Bytes /\ 0 \in Bytes /\ 1 \in Bytes /\ 2 \in Bytes /\ 3 \in Bytes
  <2>1. address \in Bytes BY AddressIsByte
  <2>2. QED BY <2>1, FunctionAssumption DEF Bytes, Crc
<1> DEFINE e == <<address, function + 128, 2, Crc, Crc>>
           b == <<address, function, 0, 0, 0, 1, Crc, Crc>>
           c == <<address, 3, 2, 0, 0, Crc, Crc>>
<1>2. bytes = e \/ (function = 3 /\ bytes = c) \/ (function # 3 /\ bytes = b)
  BY DEF responseBytes
<1>3. e \in Seq(Bytes) /\ Len(e) = 5 /\ e[1] = address /\ e[2] = function + 128 BY <1>1
<1>4. b \in Seq(Bytes) /\ Len(b) = 8 /\ b[1] = address /\ b[2] = function BY <1>1
<1>5. c \in Seq(Bytes) /\ Len(c) = 7 /\ c[1] = address /\ c[2] = 3 /\ c[3] = 2 BY <1>1
<1> HIDE DEF e, b, c
<1>6. CASE bytes = e BY <1>3, <1>6 DEF FrameOf
<1>7. CASE function = 3 /\ bytes = c BY <1>5, <1>7 DEF FrameOf
<1>8. CASE function # 3 /\ bytes = b BY <1>1, <1>4, <1>8 DEF FrameOf
<1>9. QED BY <1>2, <1>6, <1>7, <1>8

LEMMA Joined ==
  ASSUME NEW S, NEW s \in Seq(S), NEW t \in Seq(S)
  PROVE  /\ s \o t \in Seq(S) /\ Len(s \o t) = Len(s) + Len(t)
         /\ \A i \in 1 .. Len(s) : (s \o t)[i] = s[i]
         /\ \A i \in 1 .. Len(t) : (s \o t)[Len(s) + i] = t[i]
OBVIOUS

LEMMA Appended ==
  ASSUME NEW S, NEW s \in Seq(S), NEW e \in S
  PROVE  /\ Append(s, e) \in Seq(S) /\ Len(Append(s, e)) = Len(s) + 1
         /\ \A i \in 1 .. Len(s) : Append(s, e)[i] = s[i]
         /\ Append(s, e)[Len(s) + 1] = e
         /\ ToSet(Append(s, e)) = ToSet(s) \cup {e}
<1>1. /\ Append(s, e) \in Seq(S) /\ Len(Append(s, e)) = Len(s) + 1
      /\ \A i \in 1 .. Len(s) : Append(s, e)[i] = s[i]
      /\ Append(s, e)[Len(s) + 1] = e
  OBVIOUS
<1>2. DOMAIN Append(s, e) = 1 .. Len(s) + 1 /\ DOMAIN s = 1 .. Len(s) /\ Len(s) \in Nat OBVIOUS
<1>3. ToSet(s) = {s[i] : i \in 1 .. Len(s)} BY <1>2 DEF ToSet
<1>4. ToSet(Append(s, e)) = {Append(s, e)[i] : i \in 1 .. Len(s) + 1} BY <1>2 DEF ToSet
<1>5. ToSet(Append(s, e)) \subseteq ToSet(s) \cup {e}
  <2> SUFFICES ASSUME NEW i \in 1 .. Len(s) + 1 PROVE Append(s, e)[i] \in ToSet(s) \cup {e}
    BY <1>4
  <2>1. CASE i = Len(s) + 1 BY <1>1, <2>1
  <2>2. CASE i # Len(s) + 1
    <3>1. i \in 1 .. Len(s) BY <1>2, <2>2
    <3>2. QED BY <1>1, <1>3, <3>1
  <2>3. QED BY <2>1, <2>2
<1>6. ToSet(s) \subseteq ToSet(Append(s, e))
  <2> SUFFICES ASSUME NEW i \in 1 .. Len(s) PROVE s[i] \in ToSet(Append(s, e))
    BY <1>3
  <2>1. i \in 1 .. Len(s) + 1 BY <1>2
  <2>2. QED BY <1>1, <1>4, <2>1
<1>7. e \in ToSet(Append(s, e))
  <2>1. Len(s) + 1 \in 1 .. Len(s) + 1 BY <1>2
  <2>2. QED BY <1>1, <1>4, <2>1
<1>8. QED BY <1>1, <1>5, <1>6, <1>7

\* What is on the line stays there.
LEMMA LineGrows ==
  ASSUME TypeOK, FramesOnLine, NEW bytes \in Seq(Bytes), line' = line \o bytes
  PROVE  /\ line' \in Seq(Bytes) /\ Len(line') = Len(line) + Len(bytes) /\ Len(line) <= Len(line')
         /\ \A i \in 1 .. Len(line) : line'[i] = line[i]
         /\ \A i \in 1 .. Len(bytes) : line'[Len(line) + i] = bytes[i]
         /\ \A f \in ToSet(frames) : OnLine(f)'
<1>1. line \in Seq(Bytes) /\ Len(line) \in Nat /\ Len(bytes) \in Nat BY DEF TypeOK
<1>2. /\ line' \in Seq(Bytes) /\ Len(line') = Len(line) + Len(bytes) /\ Len(line) <= Len(line')
      /\ \A i \in 1 .. Len(line) : line'[i] = line[i]
      /\ \A i \in 1 .. Len(bytes) : line'[Len(line) + i] = bytes[i]
  BY <1>1, Joined
<1>3. ASSUME NEW f \in ToSet(frames) PROVE OnLine(f)'
  <2>1. OnLine(f) BY DEF FramesOnLine
  <2>2. f.first \in Nat /\ f.last \in Nat /\ 1 <= f.first /\ f.first + 4 <= f.last /\ f.last <= Len(line)
    BY <2>1, LineTypes DEF OnLine
  <2>3. f.first \in 1 .. Len(line) /\ f.first + 1 \in 1 .. Len(line) /\ f.first + 2 \in 1 .. Len(line)
    BY <1>1, <2>2
  <2>4. line'[f.first] = line[f.first] /\ line'[f.first + 1] = line[f.first + 1]
        /\ line'[f.first + 2] = line[f.first + 2]
    BY <1>2, <2>3
  <2>5. Size(f) = 11 => line'[f.first + 6] = line[f.first + 6]
    <3>1. Size(f) = 11 => f.first + 6 \in 1 .. Len(line) BY <1>1, <2>2 DEF Size
    <3>2. QED BY <1>2, <3>1
  <2>6. f.last <= Len(line') BY <1>1, <1>2, <2>2
  <2>7. QED BY <2>1, <2>4, <2>5, <2>6 DEF OnLine, Size
<1>4. QED BY <1>2, <1>3

\* The frame that Sent adds.
Added(bytes, address, function, isRequest) ==
  [first |-> Len(line) + 1, last |-> Len(line) + Len(bytes),
   address |-> address, function |-> function, isRequest |-> isRequest]

LEMMA SentAdds ==
  ASSUME TypeOK, FramesOnLine, NEW bytes, NEW address \in Devices \cup {Broadcast},
         NEW function \in Functions, NEW isRequest \in BOOLEAN,
         FrameOf(bytes, address, function, isRequest), Sent(bytes, address, function, isRequest)
  PROVE  /\ FramesOnLine'
         /\ line' \in Seq(Bytes) /\ frames' \in Seq(Frame) /\ Len(line) < Len(line')
         /\ Len(line') = Len(line) + Len(bytes)
         /\ ToSet(frames') = ToSet(frames) \cup {Added(bytes, address, function, isRequest)}
         /\ Len(frames') = Len(frames) + 1
         /\ \A i \in 1 .. Len(frames) : frames'[i] = frames[i]
         /\ frames'[Len(frames) + 1] = Added(bytes, address, function, isRequest)
<1>0. PICK g : g = Added(bytes, address, function, isRequest) OBVIOUS
<1>1. line \in Seq(Bytes) /\ frames \in Seq(Frame) /\ Len(line) \in Nat /\ Len(frames) \in Nat
  BY DEF TypeOK
<1>2. bytes \in Seq(Bytes) /\ Len(bytes) \in {5, 7, 8, 11} /\ line' = line \o bytes /\ frames' = Append(frames, g)
  BY <1>0 DEF FrameOf, Sent, Added
<1>3. /\ line' \in Seq(Bytes) /\ Len(line') = Len(line) + Len(bytes)
      /\ \A i \in 1 .. Len(bytes) : line'[Len(line) + i] = bytes[i]
      /\ \A f \in ToSet(frames) : OnLine(f)'
  BY <1>2, LineGrows
<1>4. g \in Frame BY <1>0, <1>1, <1>2 DEF Added, Frame
<1>5. /\ frames' \in Seq(Frame) /\ Len(frames') = Len(frames) + 1
      /\ \A i \in 1 .. Len(frames) : frames'[i] = frames[i]
      /\ frames'[Len(frames) + 1] = g
      /\ ToSet(frames') = ToSet(frames) \cup {g}
  BY <1>1, <1>2, <1>4, Appended
<1>6. OnLine(g)'
  <2>1. g.first = Len(line) + 1 /\ g.last = Len(line) + Len(bytes) /\ g.address = address
        /\ g.function = function /\ g.isRequest = isRequest
    BY <1>0 DEF Added
  <2>2. line'[Len(line) + 1] = bytes[1] /\ line'[Len(line) + 2] = bytes[2] /\ line'[Len(line) + 3] = bytes[3]
    BY <1>2, <1>3
  <2>3. Len(bytes) = 11 => line'[Len(line) + 7] = bytes[7] BY <1>3
  <2>4. g.last - g.first + 1 = Len(bytes) BY <1>1, <1>2, <2>1
  <2>5. g.first + 1 = Len(line) + 2 /\ g.first + 2 = Len(line) + 3 /\ g.first + 6 = Len(line) + 7
    BY <1>1, <2>1
  <2>6. 1 <= g.first /\ g.first + 4 <= g.last /\ g.last <= Len(line')
    <3>1. Len(bytes) \in Nat /\ Len(bytes) >= 5
      <4>1. \A n \in {5, 7, 8, 11} : n \in Nat /\ n >= 5 OBVIOUS
      <4>2. QED BY <1>2, <4>1
    <3>2. QED BY <1>1, <1>3, <2>1, <3>1
  <2>7. line'[g.first] = g.address /\ line'[g.first + 1] = bytes[2] /\ line'[g.first + 2] = bytes[3]
        /\ (Len(bytes) = 11 => line'[g.first + 6] = bytes[7])
    BY <2>1, <2>2, <2>3, <2>5 DEF FrameOf
  <2>8. \/ g.isRequest /\ bytes[2] = g.function /\ g.function \in {3, 6} /\ Len(bytes) = 8 /\ bytes[3] = 0
        \/ g.isRequest /\ bytes[2] = g.function /\ g.function = 16 /\ Len(bytes) = 11 /\ bytes[7] = 2
        \/ ~g.isRequest /\ bytes[2] = g.function /\ g.function = 3 /\ Len(bytes) = 7 /\ bytes[3] = 2
        \/ ~g.isRequest /\ bytes[2] = g.function /\ g.function \in {6, 16} /\ Len(bytes) = 8
        \/ ~g.isRequest /\ bytes[2] = g.function + 128 /\ Len(bytes) = 5
    BY <2>1 DEF FrameOf
  <2>9. Size(g) = Len(bytes) BY <2>4 DEF Size
  <2>10. QED BY <2>6, <2>7, <2>8, <2>9 DEF OnLine, Size
<1>7. FramesOnLine'
  <2>1. ASSUME NEW i \in 1 .. Len(frames'), NEW j \in 1 .. Len(frames'), i < j
        PROVE  frames'[i].last < frames'[j].first
    <3>1. i \in 1 .. Len(frames) BY <1>1, <1>5, <2>1
    <3>2. frames'[i] = frames[i] /\ frames[i] \in ToSet(frames) BY <1>5, <3>1, FrameTypes
    <3>3. CASE j = Len(frames) + 1
      <4>1. OnLine(frames[i]) BY <3>2 DEF FramesOnLine
      <4>2. frames[i].last \in Nat /\ frames[i].last <= Len(line) BY <3>2, <4>1, LineTypes DEF OnLine
      <4>3. frames'[j].first = Len(line) + 1 BY <1>0, <1>5, <3>3 DEF Added
      <4>4. QED BY <1>1, <3>2, <4>2, <4>3
    <3>4. CASE j # Len(frames) + 1
      <4>1. j \in 1 .. Len(frames) BY <1>1, <1>5, <3>4
      <4>2. QED BY <1>5, <2>1, <3>1, <4>1 DEF FramesOnLine
    <3>5. QED BY <3>3, <3>4
  <2>2. \A f \in ToSet(frames') : OnLine(f)' BY <1>3, <1>5, <1>6
  <2>3. QED BY <2>1, <2>2 DEF FramesOnLine
<1>8. Len(line) < Len(line')
  <2>1. \A n \in {5, 7, 8, 11} : Len(line) < Len(line) + n BY <1>1
  <2>2. QED BY <1>2, <1>3, <2>1
<1>9. QED BY <1>0, <1>3, <1>5, <1>7, <1>8

LEMMA FrontIsBytes ==
  ASSUME NEW bytes \in Seq(Bytes), Len(bytes) > 0
  PROVE  Front(bytes) \in Seq(Bytes)
BY DEF Front

LEMMA AppendIsConcatenation ==
  ASSUME NEW b \in Bytes, NEW s \in Seq(Bytes)
  PROVE  Append(s, b) = s \o <<b>> /\ <<b>> \in Seq(Bytes)
OBVIOUS

\* Bytes that are no frame, before or after bytes that are one.
LEMMA StrayBytes ==
  ASSUME TypeOK, FramesOnLine, NEW bytes \in Seq(Bytes), line' = line \o bytes, frames' = frames
  PROVE  FramesOnLine' /\ line' \in Seq(Bytes) /\ Len(line) <= Len(line')
<1>1. line' \in Seq(Bytes) /\ Len(line) <= Len(line') /\ \A f \in ToSet(frames) : OnLine(f)'
  BY LineGrows
<1>2. QED BY <1>1 DEF FramesOnLine

-----------------------------------------------------------------------------
(* Types, frames and what is kept.                                         *)

Basics == TypeOK /\ FramesOnLine /\ NotYetFrame

\* The line gains bytes, and frames beyond what had been sent.
LEMMA LineStepBasics ==
  ASSUME Basics, FramesOnLine', line' \in Seq(Bytes), frames' \in Seq(Frame), Len(line) <= Len(line'),
         ToSet(frames) \subseteq ToSet(frames'),
         \A f \in ToSet(frames') : f \in ToSet(frames) \/ f.first > Len(line),
         waiting' \in {None} \cup (Devices \X Functions), clean' \in BOOLEAN,
         UNCHANGED <<port, got, head, pending, idleTimer, reported, replies>>
  PROVE  Basics'
<1>1. Len(line) \in Nat /\ got \in 0 .. Len(line) /\ Len(line') \in Nat /\ head \in 1 .. got + 1
  BY DEF Basics, TypeOK
<1>2. TypeOK'
  <2>1. got \in 0 .. Len(line') BY <1>1
  <2>2. replies' \subseteq {f \in ToSet(frames') : f.address = Own} BY DEF Basics, TypeOK
  <2>3. QED BY <2>1, <2>2 DEF Basics, TypeOK, port, buffered
<1>3. NotYetFrame'
  <2>1. ASSUME snifferMode, NEW f \in ToSet(frames'), f.first = head PROVE f.last > got
    <3>1. CASE f \in ToSet(frames) BY <2>1, <3>1 DEF Basics, NotYetFrame
    <3>2. CASE f.first > Len(line)
      <4>1. OnLine(f)' BY DEF FramesOnLine
      <4>2. f \in Frame
        <5>1. TypeOK' => \A x \in ToSet(frames') : x \in Frame BY DEF TypeOK, ToSet
        <5>2. QED BY <1>2, <5>1
      <4>3. f.first \in Nat /\ f.last \in Nat /\ f.first < f.last BY <4>1, <4>2 DEF Frame, OnLine
      <4>4. QED BY <1>1, <2>1, <3>2, <4>3
    <3>3. QED BY <3>1, <3>2
  <2>2. snifferMode' = snifferMode /\ head' = head /\ got' = got /\ reported' = reported BY DEF port
  <2>3. QED BY <2>1, <2>2 DEF Basics, NotYetFrame
<1>4. QED BY <1>2, <1>3 DEF Basics

Captured == <<port, got, head, pending, idleTimer, reported, replies>>

\* A whole frame g comes onto the line: a request, or the response to the one waited on.
GrowsBy(g) ==
  /\ g.first = Len(line) + 1 /\ g.last = Len(line')
  /\ ToSet(frames') = ToSet(frames) \cup {g} /\ Len(frames') = Len(frames) + 1
  /\ \A i \in 1 .. Len(frames) : frames'[i] = frames[i]
  /\ frames'[Len(frames) + 1] = g
  /\ \/ g.isRequest /\ waiting' = IF g.address = Broadcast THEN None ELSE <<g.address, g.function>>
     \/ /\ ~g.isRequest /\ waiting # None /\ waiting = <<g.address, g.function>>
        /\ g.address # Broadcast /\ waiting' = None

FramesStay ==
  /\ Len(line) <= Len(line') /\ ToSet(frames) \subseteq ToSet(frames')
  /\ \A f \in ToSet(frames') : f \in ToSet(frames) \/ f.first > Len(line)

LEMMA WholeStep ==
  ASSUME Basics, NEW bytes, NEW address \in Devices \cup {Broadcast}, NEW function \in Functions,
         NEW isRequest \in BOOLEAN, FrameOf(bytes, address, function, isRequest),
         Sent(bytes, address, function, isRequest),
         waiting' \in {None} \cup (Devices \X Functions),
         \/ isRequest /\ waiting' = IF address = Broadcast THEN None ELSE <<address, function>>
         \/ /\ ~isRequest /\ waiting # None /\ waiting = <<address, function>>
            /\ address # Broadcast /\ waiting' = None
  PROVE  Basics' /\ UNCHANGED Captured /\ FramesStay /\ clean' = clean /\ \E g : GrowsBy(g)
<1>0. PICK g : g = Added(bytes, address, function, isRequest) OBVIOUS
<1>1. /\ FramesOnLine'
      /\ line' \in Seq(Bytes) /\ frames' \in Seq(Frame) /\ Len(line) < Len(line')
      /\ Len(line') = Len(line) + Len(bytes)
      /\ ToSet(frames') = ToSet(frames) \cup {g}
      /\ Len(frames') = Len(frames) + 1
      /\ \A i \in 1 .. Len(frames) : frames'[i] = frames[i]
      /\ frames'[Len(frames) + 1] = g
  BY <1>0, SentAdds DEF Basics
<1>2. g.first = Len(line) + 1 /\ g.last = Len(line') /\ g.address = address /\ g.function = function
      /\ g.isRequest = isRequest
  BY <1>0, <1>1 DEF Added
<1>3. Len(line) \in Nat /\ Len(line') \in Nat
  <2>1. line \in Seq(Bytes) BY DEF Basics, TypeOK
  <2>2. QED BY <1>1, <2>1
<1>4. FramesStay BY <1>1, <1>2, <1>3 DEF FramesStay
<1>5. UNCHANGED Captured /\ clean' = clean
  BY DEF Sent, Captured, input
<1>6. Basics'
  <2>1. clean' \in BOOLEAN BY <1>5 DEF Basics, TypeOK
  <2>2. QED BY <1>1, <1>4, <1>5, <2>1, LineStepBasics DEF FramesStay, Captured
<1>7. GrowsBy(g) BY <1>1, <1>2 DEF GrowsBy
<1>8. QED BY <1>4, <1>5, <1>6, <1>7

LEMMA StrayStep ==
  ASSUME Basics, NEW bytes \in Seq(Bytes), line' = line \o bytes, frames' = frames, clean' = FALSE,
         waiting' \in {None} \cup (Devices \X Functions), UNCHANGED Captured
  PROVE  Basics' /\ FramesStay
<1>1. FramesOnLine' /\ line' \in Seq(Bytes) /\ Len(line) <= Len(line')
  BY StrayBytes DEF Basics
<1>2. frames' \in Seq(Frame) BY DEF Basics, TypeOK
<1>3. FramesStay BY <1>1 DEF FramesStay
<1>4. QED BY <1>1, <1>2, <1>3, LineStepBasics DEF FramesStay, Captured

LineStep ==
  \/ \E address \in Devices \cup {Broadcast}, function \in Functions : Request(address, function)
  \/ Respond
  \/ Noise(255)

LEMMA LineSteps ==
  ASSUME Basics, LineStep
  PROVE  /\ Basics' /\ UNCHANGED Captured /\ FramesStay
         /\ clean' = FALSE \/ (clean' = clean /\ \E g : GrowsBy(g))
<1>0. waiting \in {None} \cup (Devices \X Functions) BY DEF Basics, TypeOK
<1>1. ASSUME NEW address \in Devices \cup {Broadcast}, NEW function \in Functions,
             Request(address, function)
      PROVE  /\ Basics' /\ UNCHANGED Captured /\ FramesStay
             /\ clean' = FALSE \/ (clean' = clean /\ \E g : GrowsBy(g))
  <2> DEFINE bytes == requestBytes(address, function)
  <2>1. FrameOf(bytes, address, function, TRUE) BY RequestIsFrame
  <2> HIDE DEF bytes
  <2>2. waiting' = IF address = Broadcast THEN None ELSE <<address, function>> BY <1>1 DEF Request
  <2>3. waiting' \in {None} \cup (Devices \X Functions) BY <2>2
  <2>4. CASE Sent(bytes, address, function, TRUE)
    BY <2>1, <2>2, <2>3, <2>4, WholeStep
  <2>5. CASE SentCut(bytes)
    <3>1. bytes \in Seq(Bytes) /\ Len(bytes) > 0 BY <2>1 DEF FrameOf
    <3>2. Front(bytes) \in Seq(Bytes) BY <3>1, FrontIsBytes
    <3>3. line' = line \o Front(bytes) /\ frames' = frames /\ clean' = FALSE /\ UNCHANGED Captured
      BY <2>5 DEF SentCut, Captured
    <3>4. QED BY <2>3, <3>2, <3>3, StrayStep
  <2>6. QED BY <1>1, <2>4, <2>5 DEF Request, bytes
<1>2. ASSUME Respond
      PROVE  /\ Basics' /\ UNCHANGED Captured /\ FramesStay
             /\ clean' = FALSE \/ (clean' = clean /\ \E g : GrowsBy(g))
  <2>1. waiting # None /\ waiting' = None BY <1>2 DEF Respond
  <2>2. PICK address \in Devices, function \in Functions : waiting = <<address, function>>
    BY <1>0, <2>1
  <2>3. PICK bytes \in responseBytes(address, function) :
          Sent(bytes, address, function, FALSE) \/ SentCut(bytes)
    BY <1>2, <2>2 DEF Respond
  <2>4. FrameOf(bytes, address, function, FALSE) BY ResponseIsFrame
  <2>5. address # Broadcast
    <3>1. Own # 0 /\ \A x \in Others : x # 0 BY DeviceAssumption
    <3>2. QED BY <3>1 DEF Devices, Broadcast
  <2>6. CASE Sent(bytes, address, function, FALSE)
    BY <2>1, <2>2, <2>4, <2>5, <2>6, WholeStep
  <2>7. CASE SentCut(bytes)
    <3>1. bytes \in Seq(Bytes) /\ Len(bytes) > 0 BY <2>4 DEF FrameOf
    <3>2. Front(bytes) \in Seq(Bytes) BY <3>1, FrontIsBytes
    <3>3. line' = line \o Front(bytes) /\ frames' = frames /\ clean' = FALSE /\ UNCHANGED Captured
      BY <2>7 DEF SentCut, Captured
    <3>4. QED BY <2>1, <3>2, <3>3, StrayStep
  <2>8. QED BY <2>3, <2>6, <2>7
<1>3. ASSUME Noise(255)
      PROVE  /\ Basics' /\ UNCHANGED Captured /\ FramesStay
             /\ clean' = FALSE \/ (clean' = clean /\ \E g : GrowsBy(g))
  <2>1. line \in Seq(Bytes) /\ 255 \in Bytes BY DEF Basics, TypeOK, Bytes
  <2>2. line' = line \o <<255>> /\ <<255>> \in Seq(Bytes)
    BY <1>3, <2>1, AppendIsConcatenation DEF Noise
  <2>3. frames' = frames /\ clean' = FALSE /\ UNCHANGED Captured /\ waiting' = waiting
    BY <1>3 DEF Noise, Captured
  <2>4. QED BY <1>0, <2>2, <2>3, StrayStep
<1>4. QED BY <1>1, <1>2, <1>3 DEF LineStep

-----------------------------------------------------------------------------
(* A capture reads.                                                        *)

\* Where the parser of a capture may go, as far as the bytes kept and the frames reported go.
GoesOn(last) ==
  {q \in ParserState :
     /\ head <= q.head /\ q.head <= last + 1
     /\ \A i \in 1 .. Len(q.out) : q.out[i].last < q.head}

LEMMA ConcatenatedType ==
  ASSUME NEW S, NEW s \in Seq(S), NEW e \in S
  PROVE  /\ Append(s, e) \in Seq(S) /\ Len(Append(s, e)) = Len(s) + 1
         /\ \A i \in 1 .. Len(Append(s, e)) :
              (i \in 1 .. Len(s) /\ Append(s, e)[i] = s[i]) \/ (i = Len(s) + 1 /\ Append(s, e)[i] = e)
<1>1. \A i \in 1 .. Len(s) + 1 : i \in 1 .. Len(s) \/ i = Len(s) + 1 OBVIOUS
<1>2. QED BY <1>1, Appended

LEMMA TakenOffGoesOn ==
  ASSUME TypeOK, FramesOnLine, NEW last \in Nat, NEW p \in GoesOn(last),
         NEW f \in ToSet(frames), NEW isRequest \in BOOLEAN, f.first = p.head, f.last <= last
  PROVE  TakenOff(p, f, isRequest) \in GoesOn(last)
<1> DEFINE e == [first |-> f.first, last |-> f.last, isRequest |-> isRequest]
           q == TakenOff(p, f, isRequest)
<1>1. p \in ParserState /\ p.out \in Seq(Sniffed) /\ p.head \in Nat BY DEF GoesOn, ParserState
<1>2. f.first \in Nat /\ f.last \in Nat /\ f.first < f.last BY LineTypes DEF FramesOnLine, OnLine
<1>3. q \in ParserState BY <1>1, TakenOffType
<1>4. q.head = f.last + 1 /\ q.out = Append(p.out, e) BY DEF TakenOff
<1>5. e \in Sniffed /\ e.last = f.last BY <1>2 DEF Sniffed
<1> HIDE DEF q, e
<1>6. ASSUME NEW i \in 1 .. Len(q.out) PROVE q.out[i].last < q.head
  <2>1. (i \in 1 .. Len(p.out) /\ q.out[i] = p.out[i]) \/ q.out[i] = e
    BY <1>1, <1>4, <1>5, ConcatenatedType
  <2>2. CASE i \in 1 .. Len(p.out) /\ q.out[i] = p.out[i]
    <3>0. p.out[i] \in Sniffed BY <1>1, <2>2
    <3>1. p.out[i].last < p.head /\ p.out[i].last \in Nat BY <2>2, <3>0 DEF GoesOn, Sniffed
    <3>2. QED BY <1>1, <1>2, <1>4, <2>2, <3>1
  <2>3. CASE q.out[i] = e BY <1>2, <1>4, <1>5, <2>3
  <2>4. QED BY <2>1, <2>2, <2>3
<1>7. head <= q.head /\ q.head <= last + 1
  <2>1. head \in Nat /\ head <= p.head BY DEF GoesOn, TypeOK
  <2>2. QED BY <1>1, <1>2, <1>4, <2>1
<1>8. QED BY <1>3, <1>6, <1>7 DEF GoesOn, q

LEMMA GivenUpGoesOn ==
  ASSUME TypeOK, NEW last \in Nat, NEW end \in Nat, end <= last, NEW p \in GoesOn(last),
         p.head <= end, NEW isResponse \in BOOLEAN
  PROVE  GivenUp(p, end, isResponse) \in GoesOn(last)
<1> DEFINE e == [first |-> p.head, last |-> end, isRequest |-> ~isResponse]
           q == GivenUp(p, end, isResponse)
<1>1. p \in ParserState /\ p.out \in Seq(Sniffed) /\ p.head \in Nat BY DEF GoesOn, ParserState
<1>2. q \in ParserState BY <1>1, GivenUpType
<1>3. q.head = end + 1 /\ q.out = Append(p.out, e) BY DEF GivenUp
<1>4. e \in Sniffed /\ e.last = end BY <1>1 DEF Sniffed
<1> HIDE DEF q, e
<1>5. ASSUME NEW i \in 1 .. Len(q.out) PROVE q.out[i].last < q.head
  <2>1. (i \in 1 .. Len(p.out) /\ q.out[i] = p.out[i]) \/ q.out[i] = e
    BY <1>1, <1>3, <1>4, ConcatenatedType
  <2>2. CASE i \in 1 .. Len(p.out) /\ q.out[i] = p.out[i]
    <3>0. p.out[i] \in Sniffed BY <1>1, <2>2
    <3>1. p.out[i].last < p.head /\ p.out[i].last \in Nat BY <2>2, <3>0 DEF GoesOn, Sniffed
    <3>2. QED BY <1>1, <1>3, <2>2, <3>1
  <2>3. CASE q.out[i] = e BY <1>3, <1>4, <2>3
  <2>4. QED BY <2>1, <2>2, <2>3
<1>6. head <= q.head /\ q.head <= last + 1
  <2>1. head \in Nat /\ head <= p.head BY DEF GoesOn, TypeOK
  <2>2. QED BY <1>1, <1>3, <2>1
<1>7. QED BY <1>2, <1>5, <1>6 DEF GoesOn, q

LEMMA ParserGoesOn ==
  ASSUME TypeOK, NEW last \in Nat, got <= last
  PROVE  parser \in GoesOn(last)
BY ParserType DEF GoesOn, TypeOK

\* A chunk leaves no whole frame and no more than a frame's worth of bytes behind.
LEMMA FeedGoesOn ==
  ASSUME Basics, snifferMode, NEW last \in Nat, got < last, last <= Len(line),
         NEW afterSilence \in BOOLEAN
  PROVE  LET q == feed(last, afterSilence)
         IN q \in GoesOn(last) /\ NoneWhole(q, last) /\ last - q.head + 1 <= MaxRtuAduSize
<1> USE DEF Basics
<1> DEFINE G == GoesOn(last)
           H == {q \in G : NoneWhole(q, last) /\ last - q.head + 1 <= MaxRtuAduSize}
<1>1. got \in Nat BY DEF TypeOK
<1>2. PICK p \in ParserState :
        /\ feed(last, afterSilence) = extractFrames(p, last)
        /\ p.head <= last
        /\ p = parser \/ (head <= got /\ \E isResponse \in BOOLEAN : p = GivenUp(parser, got, isResponse))
  BY Fed
<1>3. parser \in G BY <1>1, ParserGoesOn
<1>4. p \in G
  <2>1. CASE p = parser BY <1>3, <2>1
  <2>2. CASE head <= got /\ \E isResponse \in BOOLEAN : p = GivenUp(parser, got, isResponse)
    <3>1. parser.head <= got BY <2>2, ParserType
    <3>2. QED BY <1>1, <1>3, <2>2, <3>1, GivenUpGoesOn
  <2>3. QED BY <1>2, <2>1, <2>2
<1>5. \A q \in G : q \in ParserState /\ q.head \in Nat BY DEF GoesOn, ParserState
<1>6. ASSUME NEW q \in G PROVE nextFrame(q, last) \in G
  <2>1. q \in ParserState BY <1>5
  <2>2. CASE nextFrame(q, last) = q BY <2>2
  <2>3. CASE nextFrame(q, last) # q
    <3>1. PICK f \in ToSet(frames), isRequest \in BOOLEAN :
            f.first = q.head /\ f.last <= last /\ nextFrame(q, last) = TakenOff(q, f, isRequest)
      BY <2>1, <2>3, NextFrame
    <3>2. QED BY <3>1, TakenOffGoesOn
  <2>4. QED BY <2>2, <2>3
<1>7. ASSUME NEW q \in G, NEW isResponse \in BOOLEAN, last - q.head + 1 > MaxRtuAduSize
      PROVE  GivenUp(q, last, isResponse) \in H
  <2>1. q.head <= last BY <1>5, <1>7, SizeAssumption
  <2>2. GivenUp(q, last, isResponse) \in G BY <2>1, GivenUpGoesOn
  <2>3. GivenUp(q, last, isResponse).head = last + 1 BY DEF GivenUp
  <2> HIDE DEF G
  <2>4. ASSUME NEW f \in ToSet(frames), f.first = last + 1 PROVE f.last > last
    BY <2>4, LineTypes DEF FramesOnLine, OnLine
  <2>5. last - (last + 1) + 1 <= MaxRtuAduSize BY SizeAssumption
  <2>6. QED BY <2>2, <2>3, <2>4, <2>5 DEF NoneWhole
<1> HIDE DEF G
<1>8. \A q \in G : NoneWhole(q, last) /\ last - q.head + 1 <= MaxRtuAduSize => q \in H OBVIOUS
<1>9. p.head <= last + 1 BY <1>2 DEF ParserState
<1> HIDE DEF H
<1>10. extractFrames(p, last) \in H BY <1>4, <1>5, <1>6, <1>7, <1>8, <1>9, Extracted
<1>11. QED BY <1>2, <1>10 DEF H, G

-----------------------------------------------------------------------------
(* The basics are kept by every step.                                      *)

LEMMA FramesRemain ==
  ASSUME FramesOnLine, line' = line, frames' = frames
  PROVE  FramesOnLine'
BY DEF FramesOnLine, OnLine, Size

LEMMA ReportedGrows ==
  ASSUME NEW s \in Seq(Sniffed), NEW t \in Seq(Sniffed), NEW a \in Nat, NEW b \in Nat, a <= b,
         \A i \in 1 .. Len(s) : s[i].last < a,
         \A i \in 1 .. Len(t) : t[i].last < b
  PROVE  s \o t \in Seq(Sniffed) /\ \A i \in 1 .. Len(s \o t) : (s \o t)[i].last < b
<1>1. Len(s) \in Nat /\ Len(t) \in Nat OBVIOUS
<1>2. /\ s \o t \in Seq(Sniffed) /\ Len(s \o t) = Len(s) + Len(t)
      /\ \A i \in 1 .. Len(s) : (s \o t)[i] = s[i]
      /\ \A i \in 1 .. Len(t) : (s \o t)[Len(s) + i] = t[i]
  BY Joined
<1>3. ASSUME NEW i \in 1 .. Len(s \o t) PROVE (s \o t)[i].last < b
  <2>1. CASE i <= Len(s)
    <3>1. i \in 1 .. Len(s) BY <1>1, <1>2, <2>1
    <3>2. s[i] \in Sniffed BY <3>1
    <3>3. s[i].last \in Nat /\ s[i].last < a BY <3>1, <3>2 DEF Sniffed
    <3>4. QED BY <1>2, <3>1, <3>3
  <2>2. CASE i > Len(s)
    <3>1. i - Len(s) \in 1 .. Len(t) /\ Len(s) + (i - Len(s)) = i BY <1>1, <1>2, <2>2
    <3>2. (s \o t)[Len(s) + (i - Len(s))] = t[i - Len(s)] BY <1>2, <3>1
    <3>3. QED BY <3>1, <3>2
  <2>3. QED BY <1>1, <1>2, <2>1, <2>2
<1>4. QED BY <1>2, <1>3

\* What an action that reads or drops bytes, and sends none, has to keep.
LEMMA ReadingBasics ==
  ASSUME Basics, line' = line, frames' = frames,
         waiting' \in {None} \cup (Devices \X Functions),
         isOpen' \in BOOLEAN, snifferMode' \in BOOLEAN, clean' \in BOOLEAN, idleTimer' \in BOOLEAN,
         got' \in got .. Len(line), head' \in 1 .. got' + 1,
         pending' \in {None} \cup (Bytes \X Bytes),
         idleTimer' => isOpen' /\ snifferMode' /\ head' <= got',
         replies' \subseteq {f \in ToSet(frames) : f.address = Own},
         reported' \in Seq(Sniffed),
         \A i \in 1 .. Len(reported') : reported'[i].last < head',
         snifferMode' => \A f \in ToSet(frames) : f.first = head' => f.last > got'
  PROVE  Basics'
<1>1. FramesOnLine' BY FramesRemain DEF Basics
<1>2. NotYetFrame' BY DEF NotYetFrame
<1>3. TypeOK'
  <2>1. got \in Nat /\ Len(line) \in Nat BY DEF Basics, TypeOK
  <2>2. got' \in 0 .. Len(line') BY <2>1
  <2>3. idleTimer' => got' - head' + 1 > 0
    <3>1. got' \in Int /\ head' \in Int BY <2>1
    <3>2. \A a, b \in Int : a <= b => b - a + 1 > 0 OBVIOUS
    <3>3. QED BY <3>1, <3>2
  <2>4. QED BY <2>2, <2>3 DEF Basics, TypeOK, buffered
<1>4. QED BY <1>1, <1>2, <1>3 DEF Basics

LEMMA SniffedBasics ==
  ASSUME Basics, snifferMode, NEW n \in Nat, NEW afterSilence \in BOOLEAN,
         on_readyRead(n, afterSilence)
  PROVE  Basics'
<1> DEFINE q == feed(got + n, afterSilence)
<1>1. got \in Nat /\ Len(line) \in Nat /\ head \in Nat /\ 1 <= head BY DEF Basics, TypeOK
<1>2. n \in 1 .. Len(line) - got /\ got' = got + n /\ got + n \in Nat /\ got < got + n /\ got + n <= Len(line)
  BY <1>1 DEF on_readyRead
<1>3. q \in GoesOn(got + n) /\ NoneWhole(q, got + n) BY <1>2, FeedGoesOn
<1>4. /\ head' = q.head /\ pending' = q.pending /\ reported' = reported \o q.out
      /\ idleTimer' = (q.head <= got + n) /\ replies' = replies
      /\ isOpen /\ UNCHANGED <<bus, port, clean>>
  BY DEF on_readyRead, processSniffedData, Parsed
<1> HIDE DEF q
<1>5. q \in ParserState /\ head <= q.head /\ q.head <= got + n + 1
      /\ \A i \in 1 .. Len(q.out) : q.out[i].last < q.head
  BY <1>3 DEF GoesOn
<1>6. q.head \in Nat /\ q.pending \in {None} \cup (Bytes \X Bytes) /\ q.out \in Seq(Sniffed)
  BY <1>5 DEF ParserState
<1>7. reported' \in Seq(Sniffed) /\ \A i \in 1 .. Len(reported') : reported'[i].last < head'
  <2>1. reported \in Seq(Sniffed) /\ \A i \in 1 .. Len(reported) : reported[i].last < head
    BY DEF Basics, TypeOK, NotYetFrame
  <2>2. reported \o q.out \in Seq(Sniffed)
        /\ \A i \in 1 .. Len(reported \o q.out) : (reported \o q.out)[i].last < q.head
    BY <1>1, <1>5, <1>6, <2>1, ReportedGrows
  <2>3. QED BY <1>4, <2>2
<1>8. line' = line /\ frames' = frames /\ waiting' = waiting /\ isOpen' = isOpen
      /\ snifferMode' = snifferMode /\ clean' = clean
  BY <1>4 DEF bus, port
<1>9. head' \in 1 .. got' + 1 BY <1>1, <1>2, <1>4, <1>5, <1>6
<1>10. got' \in got .. Len(line) BY <1>1, <1>2
<1>11. idleTimer' \in BOOLEAN /\ (idleTimer' => head' <= got')
  <2>1. (q.head <= got + n) \in BOOLEAN OBVIOUS
  <2>2. QED BY <1>2, <1>4, <2>1, Zenon
<1>12. \A f \in ToSet(frames) : f.first = head' => f.last > got' BY <1>2, <1>3, <1>4 DEF NoneWhole
<1>13. /\ waiting' \in {None} \cup (Devices \X Functions) /\ clean' \in BOOLEAN
       /\ isOpen' \in BOOLEAN /\ snifferMode' \in BOOLEAN
       /\ replies' \subseteq {f \in ToSet(frames) : f.address = Own}
  BY <1>4, <1>8 DEF Basics, TypeOK
<1>14. isOpen' /\ snifferMode' BY <1>4, <1>8
<1>15. QED
  BY <1>4, <1>6, <1>7, <1>8, <1>9, <1>10, <1>11, <1>12, <1>13, <1>14, ReadingBasics

Complete(start, last) ==
  /\ last - start + 1 >= 4
  /\ requestDataSize(start, last) >= 0
  /\ requestDataSize(start, last) + 4 = last - start + 1

LEMMA ServedIs ==
  ASSUME NEW start, NEW last, Served(start, last)
  PROVE  \E request :
           /\ request = IF Complete(start, last) THEN frameAt(start, last) ELSE {}
           /\ head' = IF Complete(start, last) THEN last + 1 ELSE start
           /\ reported' = IF request = {} THEN reported
                ELSE Append(reported, [first |-> start, last |-> last, isRequest |-> TRUE])
           /\ replies' \subseteq replies \cup {f \in request : f.address = Own}
           /\ pending' = pending /\ idleTimer' = idleTimer
<1>1. head' = IF Complete(start, last) THEN last + 1 ELSE start BY DEF Served, Complete
<1>2. PICK request :
        /\ request = IF Complete(start, last) THEN frameAt(start, last) ELSE {}
        /\ reported' = IF request = {} THEN reported
             ELSE Append(reported, [first |-> start, last |-> last, isRequest |-> TRUE])
        /\ \E answered \in {{f \in request : f.address = Own}, {}} : replies' = replies \cup answered
  BY Zenon DEF Served, Complete
<1>3. replies' \subseteq replies \cup {f \in request : f.address = Own} BY <1>2
<1>4. pending' = pending /\ idleTimer' = idleTimer BY DEF Served
<1> HIDE DEF Complete
<1>5. QED BY <1>1, <1>2, <1>3, <1>4

LEMMA ServedBasics ==
  ASSUME Basics, ~snifferMode, NEW n \in Nat, NEW afterSilence \in BOOLEAN,
         on_readyRead(n, afterSilence)
  PROVE  Basics'
<1> DEFINE start == IF afterSilence THEN got + 1 ELSE head
<1>1. got \in Nat /\ Len(line) \in Nat /\ head \in 1 .. got + 1 BY DEF Basics, TypeOK
<1>2. n \in 1 .. Len(line) - got /\ got' = got + n /\ got + n \in Nat /\ got < got + n /\ got + n <= Len(line)
  BY <1>1 DEF on_readyRead
<1>3. start \in Nat /\ 1 <= start /\ start <= got + 1 /\ head <= start BY <1>1
<1>4. Served(start, got + n) /\ isOpen /\ UNCHANGED <<bus, port, clean>>
  BY DEF on_readyRead, serveRequests
<1> HIDE DEF start
<1>5. PICK request :
        /\ request = IF Complete(start, got + n) THEN frameAt(start, got + n) ELSE {}
        /\ head' = IF Complete(start, got + n) THEN got + n + 1 ELSE start
        /\ reported' = IF request = {} THEN reported
             ELSE Append(reported, [first |-> start, last |-> got + n, isRequest |-> TRUE])
        /\ replies' \subseteq replies \cup {f \in request : f.address = Own}
        /\ pending' = pending /\ idleTimer' = idleTimer
  BY <1>4, ServedIs
<1>51. request \subseteq ToSet(frames) /\ (request # {} => Complete(start, got + n))
  BY <1>5 DEF frameAt
<1>6. line' = line /\ frames' = frames /\ waiting' = waiting /\ isOpen' = isOpen
      /\ snifferMode' = snifferMode /\ clean' = clean
  BY <1>4 DEF bus, port
<1>7. head' \in 1 .. got' + 1 /\ head <= head' BY <1>1, <1>2, <1>3, <1>5
<1>8. reported \in Seq(Sniffed) /\ \A i \in 1 .. Len(reported) : reported[i].last < head
  BY DEF Basics, TypeOK, NotYetFrame
<1>9. reported' \in Seq(Sniffed) /\ \A i \in 1 .. Len(reported') : reported'[i].last < head'
  <2> DEFINE e == [first |-> start, last |-> got + n, isRequest |-> TRUE]
  <2>1. CASE request = {}
    <3>1. reported' = reported BY <1>5, <2>1
    <3>2. ASSUME NEW i \in 1 .. Len(reported) PROVE reported[i].last < head'
      <4>1. reported[i] \in Sniffed BY <1>8
      <4>2. reported[i].last \in Nat BY <4>1 DEF Sniffed
      <4>3. QED BY <1>1, <1>2, <1>7, <1>8, <4>2
    <3>3. QED BY <1>8, <3>1, <3>2
  <2>2. CASE request # {}
    <3>1. reported' = Append(reported, e) /\ head' = got + n + 1 BY <1>5, <1>51, <2>2
    <3>2. e \in Sniffed /\ e.last = got + n BY <1>2, <1>3 DEF Sniffed
    <3> HIDE DEF e
    <3>3. reported' \in Seq(Sniffed)
          /\ \A i \in 1 .. Len(reported') :
               (i \in 1 .. Len(reported) /\ reported'[i] = reported[i]) \/ reported'[i] = e
      BY <1>8, <3>1, <3>2, ConcatenatedType
    <3>4. ASSUME NEW i \in 1 .. Len(reported') PROVE reported'[i].last < head'
      <4>1. CASE reported'[i] = e BY <1>2, <3>1, <3>2, <4>1
      <4>2. CASE i \in 1 .. Len(reported) /\ reported'[i] = reported[i]
        <5>1. reported[i] \in Sniffed BY <1>8, <4>2
        <5>2. reported[i].last \in Nat BY <5>1 DEF Sniffed
        <5>3. QED BY <1>1, <1>2, <1>7, <1>8, <4>2, <5>2
      <4>3. QED BY <3>3, <4>1, <4>2
    <3>5. QED BY <3>3, <3>4
  <2>3. QED BY <2>1, <2>2
<1>10. got' \in got .. Len(line) BY <1>1, <1>2
<1>11. ~idleTimer BY DEF Basics, TypeOK
<1>12. replies' \subseteq {f \in ToSet(frames) : f.address = Own}
  BY <1>5, <1>51 DEF Basics, TypeOK
<1>13. /\ waiting' \in {None} \cup (Devices \X Functions) /\ clean' \in BOOLEAN /\ idleTimer' \in BOOLEAN
       /\ isOpen' \in BOOLEAN /\ snifferMode' \in BOOLEAN /\ pending' \in {None} \cup (Bytes \X Bytes)
  BY <1>5, <1>6 DEF Basics, TypeOK
<1>14. ~idleTimer' /\ ~snifferMode' BY <1>5, <1>6, <1>11
<1>15. QED BY <1>6, <1>7, <1>9, <1>10, <1>12, <1>13, <1>14, ReadingBasics

LEMMA FrameIsLong ==
  ASSUME TypeOK, FramesOnLine, NEW f \in ToSet(frames)
  PROVE  /\ f.first \in Nat /\ f.last \in Nat /\ 1 <= f.first /\ f.first + 4 <= f.last
         /\ f.last <= Len(line) /\ f.isRequest \in BOOLEAN
BY LineTypes DEF FramesOnLine, OnLine

LEMMA TimeoutFlushes ==
  ASSUME Basics, on_snifferIdleTimeout
  PROVE  /\ isOpen /\ snifferMode /\ head <= got
         /\ \E isResponse \in BOOLEAN :
              LET q == GivenUp(parser, got, isResponse)
              IN q \in GoesOn(got) /\ head' = q.head /\ pending' = q.pending /\ reported' = reported \o q.out
         /\ idleTimer' = FALSE /\ clean' = FALSE /\ UNCHANGED <<bus, port, got, replies>>
<1>1. got \in Nat /\ head \in Nat /\ idleTimer /\ isOpen /\ snifferMode /\ head <= got
  BY DEF on_snifferIdleTimeout, Basics, TypeOK, buffered
<1>2. parser \in GoesOn(got) /\ parser \in ParserState /\ parser.head = head
  BY <1>1, ParserGoesOn, ParserType DEF Basics
<1>3. PICK isResponse \in BOOLEAN : flush(parser, got) = GivenUp(parser, got, isResponse)
  BY <1>1, <1>2, Flushed
<1>4. GivenUp(parser, got, isResponse) \in GoesOn(got)
  <2>1. parser.head <= got /\ got <= got BY <1>1, <1>2
  <2>2. QED BY <1>1, <1>2, <2>1, GivenUpGoesOn DEF Basics
<1>5. Parsed(flush(parser, got)) /\ idleTimer' = FALSE /\ clean' = FALSE
      /\ UNCHANGED <<bus, port, got, replies>>
  BY DEF on_snifferIdleTimeout
<1>6. QED BY <1>1, <1>3, <1>4, <1>5 DEF Parsed

LEMMA TimeoutBasics ==
  ASSUME Basics, on_snifferIdleTimeout
  PROVE  Basics'
<1>1. /\ isOpen /\ snifferMode /\ head <= got
      /\ idleTimer' = FALSE /\ clean' = FALSE /\ UNCHANGED <<bus, port, got, replies>>
  BY TimeoutFlushes
<1>2. PICK isResponse \in BOOLEAN :
        LET q == GivenUp(parser, got, isResponse)
        IN q \in GoesOn(got) /\ head' = q.head /\ pending' = q.pending /\ reported' = reported \o q.out
  BY TimeoutFlushes
<1> DEFINE q == GivenUp(parser, got, isResponse)
<1>3. q.head = got + 1 BY DEF GivenUp
<1>4. q \in GoesOn(got) /\ head' = q.head /\ pending' = q.pending /\ reported' = reported \o q.out BY <1>2
<1> HIDE DEF q
<1>5. q \in ParserState /\ head <= q.head /\ \A i \in 1 .. Len(q.out) : q.out[i].last < q.head
  BY <1>4 DEF GoesOn
<1>6. q.head \in Nat /\ q.pending \in {None} \cup (Bytes \X Bytes) /\ q.out \in Seq(Sniffed)
  BY <1>5 DEF ParserState
<1>7. got \in 0 .. Len(line) /\ Len(line) \in Nat /\ head \in Nat BY DEF Basics, TypeOK
<1>8. reported' \in Seq(Sniffed) /\ \A i \in 1 .. Len(reported') : reported'[i].last < head'
  <2>1. reported \in Seq(Sniffed) /\ \A i \in 1 .. Len(reported) : reported[i].last < head
    BY DEF Basics, TypeOK, NotYetFrame
  <2>2. reported \o q.out \in Seq(Sniffed)
        /\ \A i \in 1 .. Len(reported \o q.out) : (reported \o q.out)[i].last < q.head
    BY <1>5, <1>6, <1>7, <2>1, ReportedGrows
  <2>3. QED BY <1>4, <2>2
<1>9. \A f \in ToSet(frames) : f.first = head' => f.last > got'
  <2> SUFFICES ASSUME NEW f \in ToSet(frames), f.first = got + 1 PROVE f.last > got
    BY <1>1, <1>3, <1>4
  <2>1. QED BY <1>7, FrameIsLong DEF Basics
<1>10. /\ line' = line /\ frames' = frames /\ waiting' = waiting /\ isOpen' = isOpen
       /\ snifferMode' = snifferMode /\ got' = got /\ replies' = replies
  BY <1>1 DEF bus, port
<1>11. got' \in got .. Len(line) /\ head' \in 1 .. got' + 1 BY <1>3, <1>4, <1>7, <1>10
<1>12. /\ waiting' \in {None} \cup (Devices \X Functions) /\ clean' \in BOOLEAN /\ idleTimer' \in BOOLEAN
       /\ isOpen' \in BOOLEAN /\ snifferMode' \in BOOLEAN /\ pending' \in {None} \cup (Bytes \X Bytes)
       /\ replies' \subseteq {f \in ToSet(frames) : f.address = Own}
  BY <1>1, <1>4, <1>6, <1>10 DEF Basics, TypeOK
<1>13. ~idleTimer' BY <1>1
<1>14. QED BY <1>8, <1>9, <1>10, <1>11, <1>12, <1>13, ReadingBasics

LEMMA ReplyBasics ==
  ASSUME Basics, NEW request \in replies, ReplyDue(request)
  PROVE  Basics'
<1>1. /\ line' = line /\ frames' = frames /\ isOpen' = isOpen /\ snifferMode' = snifferMode
      /\ got' = got /\ head' = head /\ pending' = pending /\ idleTimer' = idleTimer
      /\ reported' = reported /\ clean' = clean /\ replies' \subseteq replies
      /\ waiting' \in {None, waiting}
  BY DEF ReplyDue, port, input
<1>2. got \in 0 .. Len(line) /\ Len(line) \in Nat /\ head \in 1 .. got + 1 BY DEF Basics, TypeOK
<1>3. got' \in got .. Len(line) /\ head' \in 1 .. got' + 1 BY <1>1, <1>2
<1>4. idleTimer' => isOpen' /\ snifferMode' /\ head' <= got'
  BY <1>1, <1>2 DEF Basics, TypeOK, buffered
<1>5. /\ waiting' \in {None} \cup (Devices \X Functions) /\ clean' \in BOOLEAN /\ idleTimer' \in BOOLEAN
      /\ isOpen' \in BOOLEAN /\ snifferMode' \in BOOLEAN /\ pending' \in {None} \cup (Bytes \X Bytes)
      /\ replies' \subseteq {f \in ToSet(frames) : f.address = Own} /\ reported' \in Seq(Sniffed)
  BY <1>1 DEF Basics, TypeOK
<1>6. /\ \A i \in 1 .. Len(reported') : reported'[i].last < head'
      /\ snifferMode' => \A f \in ToSet(frames) : f.first = head' => f.last > got'
  BY <1>1 DEF Basics, NotYetFrame
<1>7. QED BY <1>1, <1>3, <1>4, <1>5, <1>6, ReadingBasics

LEMMA SwitchBasics ==
  ASSUME Basics, setSnifferMode \/ close \/ open
  PROVE  Basics'
<1>1. got \in 0 .. Len(line) /\ Len(line) \in Nat /\ head \in 1 .. got + 1 BY DEF Basics, TypeOK
<1>2. CASE setSnifferMode
  <2>1. /\ line' = line /\ frames' = frames /\ waiting' = waiting /\ isOpen' = isOpen
        /\ snifferMode' = ~snifferMode
        /\ got' = got /\ head' = got + 1 /\ pending' = None /\ idleTimer' = FALSE
        /\ reported' = <<>> /\ clean' = (clean /\ betweenFrames) /\ replies' = replies
    BY <1>2 DEF setSnifferMode, bus
  <2>2. got' \in got .. Len(line) /\ head' \in 1 .. got' + 1 BY <1>1, <2>1
  <2>3. /\ waiting' \in {None} \cup (Devices \X Functions) /\ clean' \in BOOLEAN /\ idleTimer' \in BOOLEAN
        /\ isOpen' \in BOOLEAN /\ snifferMode' \in BOOLEAN /\ pending' \in {None} \cup (Bytes \X Bytes)
        /\ replies' \subseteq {f \in ToSet(frames) : f.address = Own} /\ reported' \in Seq(Sniffed)
    <3>1. clean \in BOOLEAN /\ snifferMode \in BOOLEAN /\ isOpen \in BOOLEAN BY DEF Basics, TypeOK
    <3>2. clean' \in BOOLEAN BY <2>1, <3>1, Zenon
    <3>3. snifferMode' \in BOOLEAN BY <2>1, <3>1, Zenon
    <3>4. idleTimer' \in BOOLEAN /\ isOpen' \in BOOLEAN BY <2>1, <3>1
    <3>5. /\ waiting' \in {None} \cup (Devices \X Functions) /\ pending' \in {None} \cup (Bytes \X Bytes)
          /\ replies' \subseteq {f \in ToSet(frames) : f.address = Own} /\ reported' \in Seq(Sniffed)
      BY <2>1 DEF Basics, TypeOK
    <3>6. QED BY <3>2, <3>3, <3>4, <3>5
  <2>4. \A f \in ToSet(frames) : f.first = head' => f.last > got'
    <3> SUFFICES ASSUME NEW f \in ToSet(frames), f.first = got + 1 PROVE f.last > got
      BY <2>1
    <3>1. QED BY <1>1, FrameIsLong DEF Basics
  <2>5. \A i \in 1 .. Len(reported') : reported'[i].last < head' BY <2>1
  <2>6. ~idleTimer' BY <2>1
  <2>7. QED BY <2>1, <2>2, <2>3, <2>4, <2>5, <2>6, ReadingBasics
<1>3. CASE close
  <2>1. /\ line' = line /\ frames' = frames /\ waiting' = waiting /\ isOpen' = FALSE
        /\ snifferMode' = snifferMode
        /\ got' = got /\ head' = head /\ pending' = pending /\ idleTimer' = FALSE
        /\ reported' = reported /\ clean' = clean /\ replies' = replies
    BY <1>3 DEF close, bus
  <2>2. got' \in got .. Len(line) /\ head' \in 1 .. got' + 1 BY <1>1, <2>1
  <2>3. /\ waiting' \in {None} \cup (Devices \X Functions) /\ clean' \in BOOLEAN /\ idleTimer' \in BOOLEAN
        /\ isOpen' \in BOOLEAN /\ snifferMode' \in BOOLEAN /\ pending' \in {None} \cup (Bytes \X Bytes)
        /\ replies' \subseteq {f \in ToSet(frames) : f.address = Own} /\ reported' \in Seq(Sniffed)
    BY <2>1 DEF Basics, TypeOK
  <2>4. /\ \A i \in 1 .. Len(reported') : reported'[i].last < head'
        /\ snifferMode' => \A f \in ToSet(frames) : f.first = head' => f.last > got'
    BY <2>1 DEF Basics, NotYetFrame
  <2>5. ~idleTimer' BY <2>1
  <2>6. QED BY <2>1, <2>2, <2>3, <2>4, <2>5, ReadingBasics
<1>4. CASE open
  <2>1. /\ line' = line /\ frames' = frames /\ waiting' = waiting /\ isOpen' = TRUE /\ ~isOpen
        /\ snifferMode' = snifferMode
        /\ got' = Len(line) /\ head' = Len(line) + 1 /\ pending' = None /\ idleTimer' = idleTimer
        /\ reported' = <<>> /\ clean' = clean /\ replies' = replies
    BY <1>4 DEF open, bus
  <2>2. got' \in got .. Len(line) /\ head' \in 1 .. got' + 1 BY <1>1, <2>1
  <2>3. /\ waiting' \in {None} \cup (Devices \X Functions) /\ clean' \in BOOLEAN /\ idleTimer' \in BOOLEAN
        /\ isOpen' \in BOOLEAN /\ snifferMode' \in BOOLEAN /\ pending' \in {None} \cup (Bytes \X Bytes)
        /\ replies' \subseteq {f \in ToSet(frames) : f.address = Own} /\ reported' \in Seq(Sniffed)
    BY <2>1 DEF Basics, TypeOK
  <2>4. \A f \in ToSet(frames) : f.first = head' => f.last > got'
    <3> SUFFICES ASSUME NEW f \in ToSet(frames), f.first = Len(line) + 1 PROVE FALSE
      BY <2>1
    <3>1. QED BY <1>1, FrameIsLong DEF Basics
  <2>5. \A i \in 1 .. Len(reported') : reported'[i].last < head' BY <2>1
  <2>6. ~idleTimer' BY <2>1 DEF Basics, TypeOK
  <2>7. QED BY <2>1, <2>2, <2>3, <2>4, <2>5, <2>6, ReadingBasics
<1>5. QED BY <1>2, <1>3, <1>4

LEMMA InitBasics == Init => Basics
<1> SUFFICES ASSUME Init PROVE Basics
  OBVIOUS
<1>1. ToSet(frames) = {} BY DEF Init, ToSet
<1>2. line \in Seq(Bytes) /\ frames \in Seq(Frame) /\ reported \in Seq(Sniffed)
      /\ Len(line) = 0 /\ Len(frames) = 0 /\ Len(reported) = 0
  BY DEF Init
<1>3. /\ got = 0 /\ head = 1 /\ waiting = None /\ pending = None /\ idleTimer = FALSE /\ isOpen = TRUE
      /\ snifferMode \in BOOLEAN /\ clean = TRUE /\ replies = {}
  BY DEF Init
<1>4. TypeOK
  <2>1. got \in 0 .. Len(line) /\ head \in 1 .. got + 1 BY <1>2, <1>3
  <2>2. clean \in BOOLEAN /\ isOpen \in BOOLEAN /\ idleTimer \in BOOLEAN BY <1>3
  <2>3. replies \subseteq {f \in ToSet(frames) : f.address = Own} BY <1>3
  <2>4. waiting \in {None} \cup (Devices \X Functions) /\ pending \in {None} \cup (Bytes \X Bytes)
    BY <1>3, Zenon
  <2>5. QED BY <1>2, <1>3, <2>1, <2>2, <2>3, <2>4 DEF TypeOK
<1>5. FramesOnLine BY <1>1, <1>2 DEF FramesOnLine
<1>6. NotYetFrame BY <1>1, <1>2 DEF NotYetFrame
<1>7. QED BY <1>4, <1>5, <1>6 DEF Basics

LEMMA SameBasics ==
  ASSUME Basics, UNCHANGED vars
  PROVE  Basics'
<1>1. UNCHANGED <<line, frames, waiting, isOpen, snifferMode, got, head, pending, idleTimer, reported, clean, replies>>
  BY DEF vars, bus, port, input
<1>2. QED
  BY <1>1 DEF Basics, TypeOK, buffered, FramesOnLine, OnLine, Size, NotYetFrame

LEMMA NextBasics == Basics /\ [Next]_vars => Basics'
<1> SUFFICES ASSUME Basics, [Next]_vars PROVE Basics'
  OBVIOUS
<1>1. CASE LineStep BY <1>1, LineSteps
<1>2. ASSUME NEW n \in 1 .. Len(line), NEW afterSilence \in BOOLEAN, on_readyRead(n, afterSilence)
      PROVE  Basics'
  <2>1. n \in Nat BY LineTypes DEF Basics
  <2>2. QED BY <1>2, <2>1, SniffedBasics, ServedBasics
<1>3. CASE on_snifferIdleTimeout BY <1>3, TimeoutBasics
<1>4. ASSUME NEW request \in replies, ReplyDue(request) PROVE Basics' BY <1>4, ReplyBasics
<1>5. CASE setSnifferMode \/ close \/ open BY <1>5, SwitchBasics
<1>6. CASE UNCHANGED vars BY <1>6, SameBasics
<1>7. QED BY <1>1, <1>2, <1>3, <1>4, <1>5, <1>6 DEF Next, LineStep

\* The buffer keeps the last bytes read, all variables have their types, and the
\* idle timer runs only while a capture has bytes (ModbusRtuSerialServer).
THEOREM TypeCorrect == Spec => []TypeOK
<1>1. Basics => TypeOK BY DEF Basics
<1>2. QED BY <1>1, InitBasics, NextBasics, PTL DEF Spec

-----------------------------------------------------------------------------
(* How much is kept.                                                       *)

LEMMA BoundedStep == Basics /\ CaptureIsBounded /\ [Next]_vars => CaptureIsBounded'
<1> SUFFICES ASSUME Basics, CaptureIsBounded, [Next]_vars, snifferMode'
             PROVE  got' - head' + 1 <= MaxRtuAduSize
  BY DEF CaptureIsBounded, buffered
<1>1. got \in Nat /\ Len(line) \in Nat /\ head \in Nat BY DEF Basics, TypeOK
<1>2. ASSUME UNCHANGED <<snifferMode, got, head>> PROVE got' - head' + 1 <= MaxRtuAduSize
  <2>1. snifferMode BY <1>2, Zenon
  <2>2. got - head + 1 <= MaxRtuAduSize BY <2>1 DEF CaptureIsBounded, buffered
  <2>3. QED BY <1>2, <2>2
<1>3. ASSUME head' = got' + 1, got' \in Nat PROVE got' - head' + 1 <= MaxRtuAduSize
  <2>1. \A x \in Nat : x - (x + 1) + 1 <= MaxRtuAduSize BY SizeAssumption
  <2>2. QED BY <1>3, <2>1
<1>4. CASE LineStep
  <2>1. UNCHANGED <<snifferMode, got, head>> BY <1>4, LineSteps DEF Captured, port
  <2>2. QED BY <1>2, <2>1
<1>5. ASSUME NEW n \in 1 .. Len(line), NEW afterSilence \in BOOLEAN, on_readyRead(n, afterSilence)
      PROVE  got' - head' + 1 <= MaxRtuAduSize
  <2>1. snifferMode
    <3>1. snifferMode' = snifferMode BY <1>5 DEF on_readyRead, port
    <3>2. QED BY <3>1, Zenon
  <2>2. PICK last \in Nat : last = got + n BY <1>1, <1>5
  <2>3. got' = last /\ got < last /\ last <= Len(line) BY <1>1, <1>5, <2>2 DEF on_readyRead
  <2>4. PICK q : q = feed(last, afterSilence) OBVIOUS
  <2>5. head' = q.head BY <1>5, <2>1, <2>2, <2>4 DEF on_readyRead, processSniffedData, Parsed
  <2>6. last - q.head + 1 <= MaxRtuAduSize BY <2>1, <2>3, <2>4, FeedGoesOn
  <2>7. QED BY <2>3, <2>5, <2>6
<1>6. CASE on_snifferIdleTimeout
  <2>1. PICK isResponse \in BOOLEAN : head' = GivenUp(parser, got, isResponse).head /\ got' = got
    BY <1>6, TimeoutFlushes
  <2>2. head' = got' + 1 BY <2>1 DEF GivenUp
  <2>3. QED BY <1>1, <1>3, <2>1, <2>2
<1>7. ASSUME NEW request \in replies, ReplyDue(request) PROVE got' - head' + 1 <= MaxRtuAduSize
  BY <1>2, <1>7 DEF ReplyDue, port, input
<1>8. CASE setSnifferMode BY <1>1, <1>3, <1>8 DEF setSnifferMode
<1>9. CASE close BY <1>2, <1>9 DEF close
<1>10. CASE open BY <1>1, <1>3, <1>10 DEF open
<1>11. CASE UNCHANGED vars BY <1>2, <1>11 DEF vars, port, input
<1>12. QED BY <1>4, <1>5, <1>6, <1>7, <1>8, <1>9, <1>10, <1>11 DEF Next, LineStep

\* However long garbage goes on, a capture keeps no more than one frame's worth of
\* it (RtuSnifferParser::extractFrames).
THEOREM CaptureBounded == Spec => []CaptureIsBounded
<1>1. Init => CaptureIsBounded BY SizeAssumption DEF Init, CaptureIsBounded, buffered
<1>2. QED BY <1>1, InitBasics, NextBasics, BoundedStep, PTL DEF Spec

-----------------------------------------------------------------------------
(* A frame after a silence.                                                *)

LEMMA LastOf ==
  ASSUME NEW S, NEW s \in Seq(S), NEW t \in Seq(S), t # <<>>
  PROVE  s \o t # <<>> /\ Last(s \o t) = t[Len(t)]
<1>1. Len(s) \in Nat /\ Len(t) \in Nat /\ Len(t) > 0 OBVIOUS
<1>2. Len(t) \in 1 .. Len(t) BY <1>1
<1>3. Len(s \o t) = Len(s) + Len(t) /\ (s \o t)[Len(s) + Len(t)] = t[Len(t)] BY <1>2, Joined
<1>4. s \o t # <<>> BY <1>1, <1>3
<1>5. QED BY <1>3, <1>4 DEF Last

LEMMA SeenByCapture ==
  ASSUME Basics, snifferMode, NEW n \in Nat, NEW f \in ToSet(frames), on_readyRead(n, TRUE),
         f.first = got + 1, f.last = got + n
  PROVE  /\ reported' # <<>>
         /\ Last(reported').first = f.first /\ Last(reported').last = f.last
<1>0. PICK last : last = got + n OBVIOUS
<1> DEFINE Seen(q) == /\ q.head = last + 1 /\ q.out # <<>>
                      /\ q.out[Len(q.out)].first = f.first /\ q.out[Len(q.out)].last = f.last
<1>1. got \in Nat /\ Len(line) \in Nat BY DEF Basics, TypeOK
<1>2. n \in 1 .. Len(line) - got /\ last \in Nat /\ got < last /\ last <= Len(line)
  BY <1>0, <1>1 DEF on_readyRead
<1>3. PICK p \in ParserState :
        feed(last, TRUE) = extractFrames(p, last) /\ p.head <= last /\ p.head = got + 1
  <2>1. f.last <= last BY <1>0, <1>2
  <2>2. QED BY <1>2, <2>1, Fed DEF Basics
<1> DEFINE G == {q \in ParserState : q = p \/ Seen(q)}
           H == {q \in ParserState : Seen(q)}
<1>4. f.first \in Nat /\ f.last \in Nat /\ f.first < f.last BY FrameIsLong DEF Basics
<1>5. ASSUME NEW q \in G PROVE nextFrame(q, last) \in G
  <2>1. CASE nextFrame(q, last) = q BY <2>1
  <2>2. CASE nextFrame(q, last) # q
    <3>1. PICK g \in ToSet(frames), isRequest \in BOOLEAN :
            g.first = q.head /\ g.last <= last /\ nextFrame(q, last) = TakenOff(q, g, isRequest)
      BY <1>2, <2>2, NextFrame DEF Basics
    <3>2. g.first \in Nat /\ g.last \in Nat /\ g.first < g.last BY FrameIsLong DEF Basics
    <3>3. q.head # last + 1 BY <1>2, <3>1, <3>2
    <3>4. q = p /\ g = f
      <4>1. q = p BY <3>3
      <4>2. g.first = f.first BY <1>3, <3>1, <4>1
      <4>3. g = f BY <1>4, <3>2, <4>2, FramesApart DEF Basics
      <4>4. QED BY <4>1, <4>3
    <3> DEFINE e == [first |-> f.first, last |-> f.last, isRequest |-> isRequest]
               t == TakenOff(p, f, isRequest)
    <3>5. t \in ParserState BY TakenOffType DEF Basics
    <3>6. e \in Sniffed BY <1>4 DEF Sniffed
    <3>7. t.head = last + 1 /\ t.out = Append(p.out, e) BY <1>0 DEF TakenOff
    <3>8. p.out \in Seq(Sniffed) /\ e.first = f.first /\ e.last = f.last BY DEF ParserState
    <3> HIDE DEF e, t
    <3>9. t.out # <<>> /\ t.out[Len(t.out)] = e
      <4>1. Len(t.out) = Len(p.out) + 1 /\ t.out[Len(p.out) + 1] = e BY <3>6, <3>7, <3>8, Appended
      <4>2. Len(p.out) \in Nat BY <3>8
      <4>3. QED BY <4>1, <4>2
    <3>10. Seen(t) BY <3>7, <3>8, <3>9
    <3>11. nextFrame(q, last) = t BY <3>1, <3>4 DEF t
    <3>12. QED BY <3>5, <3>10, <3>11
  <2>3. QED BY <2>1, <2>2
<1>6. ASSUME NEW q \in G, NoneWhole(q, last) PROVE Seen(q) /\ ~(last - q.head + 1 > MaxRtuAduSize)
  <2>1. q # p
    <3>1. f.first = p.head /\ ~(f.last > last) BY <1>0, <1>2, <1>3
    <3>2. QED BY <1>6, <3>1 DEF NoneWhole
  <2>2. Seen(q) BY <2>1
  <2>3. q.head = last + 1 BY <2>2
  <2>4. QED BY <1>2, <2>2, <2>3, SizeAssumption
<1>7. \A q \in G : NoneWhole(q, last) /\ last - q.head + 1 <= MaxRtuAduSize => q \in H BY <1>6
<1>8. \A q \in G : \A isResponse \in BOOLEAN :
        NoneWhole(q, last) /\ last - q.head + 1 > MaxRtuAduSize => GivenUp(q, last, isResponse) \in H
  BY <1>6
<1>9. p \in G /\ p.head <= last + 1 /\ \A q \in G : q \in ParserState BY <1>1, <1>2, <1>3
<1> HIDE DEF G, H
<1>10. extractFrames(p, last) \in H BY <1>2, <1>5, <1>7, <1>8, <1>9, Extracted DEF Basics
<1>11. PICK q \in ParserState : q = feed(last, TRUE) /\ Seen(q) BY <1>3, <1>10 DEF H
<1>12. reported' = reported \o q.out
  BY <1>0, <1>11 DEF on_readyRead, processSniffedData, Parsed
<1>13. reported \in Seq(Sniffed) /\ q.out \in Seq(Sniffed) BY DEF Basics, TypeOK, ParserState
<1>14. reported' # <<>> /\ Last(reported') = q.out[Len(q.out)] BY <1>11, <1>12, <1>13, LastOf
<1>15. QED BY <1>0, <1>11, <1>14

\* The bytes of a request tell its size.
LEMMA RequestIsComplete ==
  ASSUME Basics, NEW f \in ToSet(frames), f.isRequest
  PROVE  Complete(f.first, f.last)
<1>1. OnLine(f) /\ f.first \in Nat /\ f.last \in Nat /\ 1 <= f.first /\ f.first + 4 <= f.last
      /\ f.last <= Len(line) /\ f.function \in {3, 6, 16}
  BY FrameIsLong, LineTypes DEF Basics, FramesOnLine
<1>2. \/ line[f.first + 1] \in {3, 6} /\ Size(f) = 8
      \/ line[f.first + 1] = 16 /\ Size(f) = 11 /\ line[f.first + 6] = 2
  BY <1>1 DEF OnLine
<1>3. requestDataSize(f.first, f.last) =
        IF line[f.first + 1] \in FixedSize THEN 4
        ELSE IF line[f.first + 1] >= 128 THEN 1
        ELSE IF line[f.first + 1] = 16 /\ f.last >= f.first + 6 THEN 5 + line[f.first + 6] ELSE -1
  <2>1. line[f.first + 1] \in 0 .. 255 BY <1>2
  <2>2. QED BY <1>1, <2>1, DataSizes
<1>4. CASE line[f.first + 1] \in {3, 6} /\ Size(f) = 8
  <2>1. requestDataSize(f.first, f.last) = 4 BY <1>3, <1>4 DEF FixedSize
  <2>2. QED BY <1>1, <1>4, <2>1 DEF Complete, Size
<1>5. CASE line[f.first + 1] = 16 /\ Size(f) = 11 /\ line[f.first + 6] = 2
  <2>1. f.last >= f.first + 6 BY <1>1, <1>5 DEF Size
  <2>2. requestDataSize(f.first, f.last) = 7 BY <1>3, <1>5, <2>1 DEF FixedSize
  <2>3. QED BY <1>1, <1>5, <2>2 DEF Complete, Size
<1>6. QED BY <1>2, <1>4, <1>5

LEMMA SeenByServer ==
  ASSUME Basics, ~snifferMode, NEW n \in Nat, NEW f \in ToSet(frames), on_readyRead(n, TRUE),
         f.first = got + 1, f.last = got + n, f.isRequest, f.address \in {Own, Broadcast}
  PROVE  /\ reported' # <<>>
         /\ Last(reported').first = f.first /\ Last(reported').last = f.last
<1>1. Served(f.first, f.last) BY DEF on_readyRead, serveRequests
<1>2. PICK request :
        /\ request = IF Complete(f.first, f.last) THEN frameAt(f.first, f.last) ELSE {}
        /\ reported' = IF request = {} THEN reported
             ELSE Append(reported, [first |-> f.first, last |-> f.last, isRequest |-> TRUE])
  BY <1>1, ServedIs
<1>3. f \in request BY <1>2, RequestIsComplete DEF frameAt
<1> DEFINE e == [first |-> f.first, last |-> f.last, isRequest |-> TRUE]
<1>4. reported' = Append(reported, e) BY <1>2, <1>3
<1>5. e \in Sniffed /\ e.first = f.first /\ e.last = f.last BY FrameIsLong DEF Basics, Sniffed
<1>6. reported \in Seq(Sniffed) BY DEF Basics, TypeOK
<1> HIDE DEF e
<1>7. Len(reported') = Len(reported) + 1 /\ reported'[Len(reported) + 1] = e /\ Len(reported) \in Nat
  BY <1>4, <1>5, <1>6, Appended
<1>8. reported' # <<>> /\ Last(reported') = e BY <1>7 DEF Last
<1>9. QED BY <1>5, <1>8

\* Whatever is left from before, a frame that comes in one piece after a silence is
\* reported by a capture, and served if it is a request for this device
\* (RtuSnifferParser::feed, ModbusRtuSerialServer::on_readyRead).
THEOREM SilenceSeparates == Spec => FrameAfterSilenceIsSeen
<1>1. Basics /\ [Next]_vars =>
        [\A n \in 1 .. Len(line) : \A f \in ToSet(frames) :
           /\ on_readyRead(n, TRUE)
           /\ f.first = got + 1 /\ f.last = got + n
           /\ snifferMode \/ (f.isRequest /\ f.address \in {Own, Broadcast})
           => /\ reported' # <<>>
              /\ Last(reported').first = f.first /\ Last(reported').last = f.last]_vars
  <2> SUFFICES ASSUME Basics, NEW n \in 1 .. Len(line), NEW f \in ToSet(frames), on_readyRead(n, TRUE),
                      f.first = got + 1, f.last = got + n,
                      snifferMode \/ (f.isRequest /\ f.address \in {Own, Broadcast})
               PROVE  /\ reported' # <<>>
                      /\ Last(reported').first = f.first /\ Last(reported').last = f.last
    OBVIOUS
  <2>1. n \in Nat BY LineTypes DEF Basics
  <2>2. CASE snifferMode BY <2>1, <2>2, SeenByCapture
  <2>3. CASE ~snifferMode BY <2>1, <2>3, SeenByServer
  <2>4. QED BY <2>2, <2>3
<1>2. QED BY <1>1, InitBasics, NextBasics, PTL DEF Spec, FrameAfterSilenceIsSeen

-----------------------------------------------------------------------------
(* Frames are reported whole and one by one.                               *)

LEMMA WholeGrows ==
  ASSUME NEW s \in Seq(Sniffed), NEW e \in Sniffed, WholeUpTo(s, e.first), Whole(e) # {}
  PROVE  WholeUpTo(Append(s, e), e.last + 1)
<1> DEFINE t == Append(s, e)
<1>1. Len(s) \in Nat OBVIOUS
<1>2. /\ t \in Seq(Sniffed) /\ Len(t) = Len(s) + 1
      /\ \A i \in 1 .. Len(s) : t[i] = s[i]
      /\ t[Len(s) + 1] = e
  BY Appended
<1> HIDE DEF t
<1>3. ASSUME NEW i \in 1 .. Len(t) PROVE Whole(t[i]) # {} /\ (i > 1 => t[i].first = t[i - 1].last + 1)
  <2>1. CASE i <= Len(s)
    <3>1. i \in 1 .. Len(s) /\ (i > 1 => i - 1 \in 1 .. Len(s)) BY <1>1, <2>1
    <3>2. t[i] = s[i] /\ (i > 1 => t[i - 1] = s[i - 1]) BY <1>2, <3>1
    <3>3. Whole(s[i]) # {} /\ (i > 1 => s[i].first = s[i - 1].last + 1) BY <3>1 DEF WholeUpTo
    <3>4. QED BY <3>2, <3>3
  <2>2. CASE i > Len(s)
    <3>1. i = Len(s) + 1 BY <1>1, <1>2, <2>2
    <3>2. i > 1 => i - 1 = Len(s) /\ Len(s) \in 1 .. Len(s) /\ s # <<>> BY <1>1, <3>1
    <3>3. i > 1 => t[i - 1] = s[Len(s)] BY <1>2, <3>2
    <3>4. i > 1 => s[Len(s)].last + 1 = e.first BY <3>2 DEF WholeUpTo
    <3>5. t[i] = e BY <1>2, <3>1
    <3>6. QED BY <3>3, <3>4, <3>5
  <2>3. QED BY <1>1, <2>1, <2>2
<1>4. t[Len(t)].last + 1 = e.last + 1 BY <1>2
<1>5. QED BY <1>3, <1>4 DEF WholeUpTo, t

\* A frame taken off the buffer of a capture that has left nothing out.
LEMMA TakenOffWhole ==
  ASSUME Basics, Tiled, NEW q \in ParserState, NEW f \in ToSet(frames), NEW isRequest \in BOOLEAN,
         f.first = q.head, WholeUpTo(reported \o q.out, q.head)
  PROVE  LET t == TakenOff(q, f, isRequest)
         IN t \in ParserState /\ Boundary(t.head) /\ WholeUpTo(reported \o t.out, t.head)
<1> DEFINE e == [first |-> f.first, last |-> f.last, isRequest |-> isRequest]
           t == TakenOff(q, f, isRequest)
<1>1. t \in ParserState BY TakenOffType DEF Basics
<1>2. t.head = f.last + 1 /\ t.out = Append(q.out, e) BY DEF TakenOff
<1>3. e \in Sniffed /\ e.first = f.first /\ e.last = f.last BY FrameIsLong DEF Basics, Sniffed
<1>4. Boundary(t.head) BY <1>2 DEF Tiled
<1>5. reported \in Seq(Sniffed) /\ q.out \in Seq(Sniffed) BY DEF Basics, TypeOK, ParserState
<1> HIDE DEF e, t
<1>6. reported \o t.out = Append(reported \o q.out, e) /\ reported \o q.out \in Seq(Sniffed)
  BY <1>2, <1>3, <1>5
<1>7. Whole(e) # {} BY <1>3 DEF Whole
<1>8. WholeUpTo(Append(reported \o q.out, e), e.last + 1) BY <1>3, <1>6, <1>7, WholeGrows
<1>9. QED BY <1>1, <1>2, <1>3, <1>4, <1>6, <1>8 DEF t

\* What is kept in front of a frame that has begun is less than a frame.
LEMMA BegunIsShort ==
  ASSUME Basics, NEW h \in Nat, NEW last \in Nat, last <= Len(line), Boundary(h),
         \A f \in ToSet(frames) : f.first = h => f.last > last
  PROVE  last - h + 1 <= MaxRtuAduSize
<1>1. Len(line) \in Nat BY LineTypes DEF Basics
<1>2. CASE h = Len(line) + 1 BY <1>1, <1>2, SizeAssumption
<1>3. ASSUME NEW f \in ToSet(frames), f.first = h PROVE last - h + 1 <= MaxRtuAduSize
  <2>1. f.first \in Nat /\ f.last \in Nat BY FrameIsLong DEF Basics
  <2>2. Size(f) \in {5, 7, 8, 11} BY DEF Basics, FramesOnLine, OnLine
  <2>3. \A x \in {5, 7, 8, 11} : x <= 11 OBVIOUS
  <2>4. f.last - f.first + 1 <= 11 BY <2>2, <2>3 DEF Size
  <2>5. f.last > last BY <1>3
  <2>6. QED BY <1>3, <2>1, <2>4, <2>5, SizeAssumption
<1>4. QED BY <1>2, <1>3 DEF Boundary

LEMMA FeedWhole ==
  ASSUME Basics, snifferMode, Tiled, Boundary(head), WholeUpTo(reported, head),
         NEW last \in Nat, got < last, last <= Len(line), NEW afterSilence \in BOOLEAN
  PROVE  LET q == feed(last, afterSilence)
         IN Boundary(q.head) /\ WholeUpTo(reported \o q.out, q.head)
<1> DEFINE G == {q \in ParserState : Boundary(q.head) /\ WholeUpTo(reported \o q.out, q.head)}
<1>1. feed(last, afterSilence) = extractFrames(parser, last) /\ parser.head <= last
  BY Fed DEF Basics
<1>2. reported \in Seq(Sniffed) BY DEF Basics, TypeOK
<1>3. parser \in ParserState /\ parser.head = head /\ parser.out = <<>> BY ParserType DEF Basics
<1>4. parser \in G
  <2>1. reported \o <<>> = reported BY <1>2
  <2>2. QED BY <1>3, <2>1
<1>5. \A q \in G : q \in ParserState /\ q.head \in Nat BY DEF ParserState
<1>6. ASSUME NEW q \in G PROVE nextFrame(q, last) \in G
  <2>1. CASE nextFrame(q, last) = q BY <2>1
  <2>2. CASE nextFrame(q, last) # q
    <3>1. PICK f \in ToSet(frames), isRequest \in BOOLEAN :
            f.first = q.head /\ nextFrame(q, last) = TakenOff(q, f, isRequest)
      BY <2>2, NextFrame DEF Basics
    <3>2. QED BY <3>1, TakenOffWhole
  <2>3. QED BY <2>1, <2>2
<1>7. ASSUME NEW q \in G, NoneWhole(q, last) PROVE ~(last - q.head + 1 > MaxRtuAduSize)
  <2>1. Boundary(q.head) /\ q.head \in Nat BY <1>5
  <2>2. last - q.head + 1 <= MaxRtuAduSize BY <1>7, <2>1, BegunIsShort DEF NoneWhole
  <2>3. QED BY <2>1, <2>2, SizeAssumption
<1>8. parser.head <= last + 1 BY <1>1, <1>4, <1>5
<1> HIDE DEF G
<1>9. extractFrames(parser, last) \in G
  <2>1. \A q \in G : \A isResponse \in BOOLEAN :
          NoneWhole(q, last) /\ last - q.head + 1 > MaxRtuAduSize => GivenUp(q, last, isResponse) \in G
    BY <1>7
  <2>2. \A q \in G : NoneWhole(q, last) /\ last - q.head + 1 <= MaxRtuAduSize => q \in G OBVIOUS
  <2>3. QED BY <1>4, <1>5, <1>6, <1>8, <2>1, <2>2, Extracted DEF Basics
<1>10. QED BY <1>1, <1>9 DEF G

\* What an action that reads or drops bytes, and sends none, has to keep.
LEMMA ReadingClean ==
  ASSUME CleanCapture, line' = line, frames' = frames, clean' => clean,
         clean' => \A i \in 1 .. Len(reported') : Whole(reported'[i]) # {},
         clean' /\ snifferMode' => Boundary(head') /\ WholeUpTo(reported', head')
  PROVE  CleanCapture'
<1> SUFFICES ASSUME clean'
             PROVE  /\ Tiled'
                    /\ \A i \in 1 .. Len(reported') : Whole(reported[i])' # {}
                    /\ snifferMode' => Boundary(head)' /\ WholeUpTo(reported, head)'
  BY DEF CleanCapture
<1>1. Tiled BY DEF CleanCapture
<1>2. Tiled' BY <1>1 DEF Tiled, Boundary
<1>3. \A i \in 1 .. Len(reported') : Whole(reported[i])' # {} BY DEF Whole
<1>4. ASSUME snifferMode' PROVE Boundary(head)' /\ WholeUpTo(reported, head)'
  <2>1. Boundary(head') /\ WholeUpTo(reported', head') BY <1>4
  <2>2. Boundary(head)' BY <2>1 DEF Boundary
  <2>3. WholeUpTo(reported, head)' BY <2>1 DEF WholeUpTo, Whole
  <2>4. QED BY <2>2, <2>3
<1>5. QED BY <1>2, <1>3, <1>4

\* A frame that comes onto a clean line starts where the line ended.
LEMMA LineStepClean ==
  ASSUME Basics, CleanCapture, LineStep
  PROVE  CleanCapture'
<1>1. UNCHANGED Captured /\ FramesStay /\ (clean' = FALSE \/ (clean' = clean /\ \E g : GrowsBy(g)))
  BY LineSteps
<1>2. CASE clean' = FALSE BY <1>2 DEF CleanCapture
<1>3. ASSUME clean' = clean, NEW g, GrowsBy(g), clean' PROVE CleanCapture'
  <2>1. clean BY <1>3, Zenon
  <2>2. /\ g.first = Len(line) + 1 /\ g.last = Len(line')
        /\ ToSet(frames') = ToSet(frames) \cup {g}
    BY <1>3 DEF GrowsBy
  <2>3. ASSUME NEW x, Boundary(x) PROVE Boundary(x)' BY <2>2, <2>3 DEF Boundary
  <2>4. Tiled BY <2>1 DEF CleanCapture
  <2>5. Tiled'
    <3>1. Boundary(1)' BY <2>3, <2>4 DEF Tiled
    <3>2. ASSUME NEW f \in ToSet(frames') PROVE Boundary(f.last + 1)'
      <4>1. CASE f \in ToSet(frames)
        <5>1. Boundary(f.last + 1) BY <2>4, <4>1 DEF Tiled
        <5>2. QED BY <2>3, <5>1
      <4>2. CASE f = g BY <2>2, <4>2 DEF Boundary
      <4>3. QED BY <2>2, <4>1, <4>2
    <3>3. QED BY <3>1, <3>2 DEF Tiled
  <2>6. ASSUME NEW r, Whole(r) # {} PROVE Whole(r)' # {} BY <2>2, <2>6 DEF Whole
  <2>7. reported' = reported /\ head' = head /\ snifferMode' = snifferMode BY <1>1 DEF Captured, port
  <2>8. \A i \in 1 .. Len(reported') : Whole(reported[i])' # {}
    <3>1. \A i \in 1 .. Len(reported) : Whole(reported[i]) # {} BY <2>1 DEF CleanCapture
    <3>2. QED BY <2>2, <2>7, <3>1 DEF Whole
  <2>9. ASSUME snifferMode' PROVE Boundary(head)' /\ WholeUpTo(reported, head)'
    <3>1. snifferMode BY <2>7, <2>9, Zenon
    <3>2. Boundary(head) /\ WholeUpTo(reported, head) BY <2>1, <3>1 DEF CleanCapture
    <3>3. Boundary(head)' BY <2>2, <2>7, <3>2 DEF Boundary
    <3>4. WholeUpTo(reported, head)' BY <2>7, <2>8, <3>2 DEF WholeUpTo
    <3>5. QED BY <3>3, <3>4
  <2>10. QED BY <2>5, <2>8, <2>9 DEF CleanCapture
<1>4. CASE ~clean' BY <1>4 DEF CleanCapture
<1>5. QED BY <1>1, <1>2, <1>3, <1>4

LEMMA SniffedClean ==
  ASSUME Basics, CleanCapture, snifferMode, NEW n \in Nat, NEW afterSilence \in BOOLEAN,
         on_readyRead(n, afterSilence)
  PROVE  CleanCapture'
<1>0. PICK last \in Nat : last = got + n BY DEF Basics, TypeOK
<1>1. got \in Nat /\ Len(line) \in Nat BY DEF Basics, TypeOK
<1>2. got < last /\ last <= Len(line) BY <1>0, <1>1 DEF on_readyRead
<1>3. PICK q : q = feed(last, afterSilence) OBVIOUS
<1>4. /\ head' = q.head /\ reported' = reported \o q.out
      /\ line' = line /\ frames' = frames /\ clean' = clean
  BY <1>0, <1>3 DEF on_readyRead, processSniffedData, Parsed, bus
<1>5. ASSUME clean PROVE Boundary(head') /\ WholeUpTo(reported', head')
  <2>1. Tiled /\ Boundary(head) /\ WholeUpTo(reported, head) BY <1>5 DEF CleanCapture
  <2>2. Boundary(q.head) /\ WholeUpTo(reported \o q.out, q.head) BY <1>2, <1>3, <2>1, FeedWhole
  <2>3. QED BY <1>4, <2>2
<1>6. clean => \A i \in 1 .. Len(reported') : Whole(reported'[i]) # {} BY <1>5 DEF WholeUpTo
<1>7. clean' => clean BY <1>4, Zenon
<1>8. QED BY <1>4, <1>5, <1>6, <1>7, ReadingClean

LEMMA ServedClean ==
  ASSUME Basics, CleanCapture, ~snifferMode, NEW n \in Nat, NEW afterSilence \in BOOLEAN,
         on_readyRead(n, afterSilence)
  PROVE  CleanCapture'
<1>1. PICK start \in Nat : Served(start, got + n) /\ UNCHANGED <<bus, port, clean>>
  <2>1. got + 1 \in Nat /\ head \in Nat BY DEF Basics, TypeOK
  <2>2. QED BY <2>1 DEF on_readyRead, serveRequests
<1>2. PICK request :
        /\ request = IF Complete(start, got + n) THEN frameAt(start, got + n) ELSE {}
        /\ reported' = IF request = {} THEN reported
             ELSE Append(reported, [first |-> start, last |-> got + n, isRequest |-> TRUE])
  BY <1>1, ServedIs
<1>3. line' = line /\ frames' = frames /\ clean' = clean /\ snifferMode' = snifferMode
  BY <1>1 DEF bus, port
<1>4. clean' => clean BY <1>3, Zenon
<1>5. ~snifferMode' BY <1>3, Zenon
<1>6. reported \in Seq(Sniffed) /\ got + n \in Nat BY DEF Basics, TypeOK
<1>7. ASSUME clean PROVE \A i \in 1 .. Len(reported') : Whole(reported'[i]) # {}
  <2>1. \A i \in 1 .. Len(reported) : Whole(reported[i]) # {} BY <1>7 DEF CleanCapture
  <2>2. CASE request = {} BY <1>2, <2>1, <2>2
  <2>3. CASE request # {}
    <3> DEFINE e == [first |-> start, last |-> got + n, isRequest |-> TRUE]
    <3>1. Whole(e) # {} BY <1>2, <2>3 DEF frameAt, Whole
    <3>2. reported' = Append(reported, e) /\ e \in Sniffed BY <1>2, <1>6, <2>3 DEF Sniffed
    <3> HIDE DEF e
    <3>3. \A i \in 1 .. Len(reported') :
            (i \in 1 .. Len(reported) /\ reported'[i] = reported[i]) \/ reported'[i] = e
      BY <1>6, <3>2, ConcatenatedType
    <3>4. QED BY <2>1, <3>1, <3>3
  <2>4. QED BY <2>2, <2>3
<1>8. QED BY <1>3, <1>4, <1>5, <1>7, ReadingClean

LEMMA CleanStep == Basics /\ CleanCapture /\ [Next]_vars => CleanCapture'
<1> SUFFICES ASSUME Basics, CleanCapture, [Next]_vars PROVE CleanCapture'
  OBVIOUS
<1>1. ASSUME UNCHANGED <<line, frames, snifferMode, head, reported, clean>> PROVE CleanCapture'
  <2>1. (clean' => clean) /\ (snifferMode' => snifferMode) BY <1>1, Zenon
  <2>2. clean => \A i \in 1 .. Len(reported) : Whole(reported[i]) # {} BY DEF CleanCapture
  <2>3. clean /\ snifferMode => Boundary(head) /\ WholeUpTo(reported, head) BY DEF CleanCapture
  <2>4. QED BY <1>1, <2>1, <2>2, <2>3, ReadingClean
<1>2. CASE LineStep BY <1>2, LineStepClean
<1>3. ASSUME NEW n \in 1 .. Len(line), NEW afterSilence \in BOOLEAN, on_readyRead(n, afterSilence)
      PROVE  CleanCapture'
  <2>1. n \in Nat BY LineTypes DEF Basics
  <2>2. QED BY <1>3, <2>1, SniffedClean, ServedClean
<1>4. CASE on_snifferIdleTimeout BY <1>4 DEF on_snifferIdleTimeout, CleanCapture
<1>5. ASSUME NEW request \in replies, ReplyDue(request) PROVE CleanCapture'
  BY <1>1, <1>5 DEF ReplyDue, port, input
<1>6. CASE setSnifferMode
  <2>1. /\ line' = line /\ frames' = frames /\ head' = got + 1 /\ reported' = <<>>
        /\ clean' = (clean /\ betweenFrames)
    BY <1>6 DEF setSnifferMode, bus
  <2>2. clean' => clean /\ betweenFrames BY <2>1, Zenon
  <2>3. betweenFrames => Boundary(head') BY <2>1 DEF betweenFrames, Boundary
  <2>4. WholeUpTo(<<>>, head') /\ \A i \in 1 .. Len(<<>>) : Whole(<<>>[i]) # {} BY DEF WholeUpTo
  <2>5. QED BY <2>1, <2>2, <2>3, <2>4, ReadingClean
<1>7. CASE close BY <1>1, <1>7 DEF close, bus
<1>8. CASE open
  <2>1. /\ line' = line /\ frames' = frames /\ head' = Len(line) + 1 /\ reported' = <<>>
        /\ clean' = clean
    BY <1>8 DEF open, bus
  <2>2. clean' => clean BY <2>1, Zenon
  <2>3. Boundary(head') BY <2>1 DEF Boundary
  <2>4. WholeUpTo(<<>>, head') /\ \A i \in 1 .. Len(<<>>) : Whole(<<>>[i]) # {} BY DEF WholeUpTo
  <2>5. QED BY <2>1, <2>2, <2>3, <2>4, ReadingClean
<1>9. CASE UNCHANGED vars BY <1>1, <1>9 DEF vars, bus, port, input
<1>10. QED BY <1>2, <1>3, <1>4, <1>5, <1>6, <1>7, <1>8, <1>9 DEF Next, LineStep

LEMMA InitClean == Init => CleanCapture
<1> SUFFICES ASSUME Init PROVE CleanCapture
  OBVIOUS
<1>1. ToSet(frames) = {} /\ Len(line) = 0 /\ Len(reported) = 0 /\ reported = <<>> /\ head = 1
  BY DEF Init, ToSet
<1>2. Boundary(1) BY <1>1 DEF Boundary
<1>3. QED BY <1>1, <1>2 DEF CleanCapture, Tiled, WholeUpTo

\* On a line without faults frames are reported one by one, whole, and without
\* leaving any out, whatever pauses the driver adds or swallows (RtuSnifferParser::feed).
THEOREM WholeFrames == Spec => []FramesAreWhole
<1>1. CleanCapture => FramesAreWhole BY DEF CleanCapture, FramesAreWhole, WholeUpTo
<1>2. QED BY <1>1, InitBasics, NextBasics, InitClean, CleanStep, PTL DEF Spec

-----------------------------------------------------------------------------
(* Directions: requests and responses of different sizes.                  *)

LEMMA WholeIsOne ==
  ASSUME Basics, NEW f \in ToSet(frames), NEW e, e.first = f.first, e.last = f.last
  PROVE  Whole(e) = {f}
<1>1. ASSUME NEW g \in ToSet(frames), g.first = f.first, g.last = f.last PROVE g = f
  <2>1. g.first \in Nat /\ g.last \in Nat /\ g.first < g.last BY FrameIsLong DEF Basics
  <2>2. QED BY <1>1, <2>1, FramesApart DEF Basics
<1>2. QED BY <1>1 DEF Whole

TellsApart(e) == \A f \in Whole(e) : f.function = 3 => e.isRequest = f.isRequest

LEMMA AllOf ==
  ASSUME NEW s \in Seq(Sniffed), NEW t \in Seq(Sniffed), NEW Good,
         \A i \in 1 .. Len(s) : s[i] \in Good,
         \A i \in 1 .. Len(t) : t[i] \in Good
  PROVE  \A i \in 1 .. Len(s \o t) : (s \o t)[i] \in Good
<1>1. Len(s) \in Nat /\ Len(t) \in Nat OBVIOUS
<1>2. /\ Len(s \o t) = Len(s) + Len(t)
      /\ \A i \in 1 .. Len(s) : (s \o t)[i] = s[i]
      /\ \A i \in 1 .. Len(t) : (s \o t)[Len(s) + i] = t[i]
  BY Joined
<1>3. ASSUME NEW i \in 1 .. Len(s \o t) PROVE (s \o t)[i] \in Good
  <2>1. CASE i <= Len(s)
    <3>1. i \in 1 .. Len(s) BY <1>1, <1>2, <2>1
    <3>2. QED BY <1>2, <3>1
  <2>2. CASE i > Len(s)
    <3>1. i - Len(s) \in 1 .. Len(t) /\ Len(s) + (i - Len(s)) = i BY <1>1, <1>2, <2>2
    <3>2. (s \o t)[Len(s) + (i - Len(s))] = t[i - Len(s)] BY <1>2, <3>1
    <3>3. QED BY <3>1, <3>2
  <2>3. QED BY <1>1, <1>2, <2>1, <2>2
<1>4. QED BY <1>3

\* Parser states that have told apart what they could.
ToldApart == {q \in ParserState : \A i \in 1 .. Len(q.out) : TellsApart(q.out[i])}

LEMMA ToldApartGrows ==
  ASSUME NEW q \in ToldApart, NEW e \in Sniffed, TellsApart(e), NEW t \in ParserState,
         t.out = Append(q.out, e)
  PROVE  t \in ToldApart
<1>1. q.out \in Seq(Sniffed) BY DEF ToldApart, ParserState
<1>2. \A i \in 1 .. Len(t.out) : (i \in 1 .. Len(q.out) /\ t.out[i] = q.out[i]) \/ t.out[i] = e
  BY <1>1, ConcatenatedType
<1>3. \A i \in 1 .. Len(q.out) : TellsApart(q.out[i]) BY DEF ToldApart
<1>4. \A i \in 1 .. Len(t.out) : TellsApart(t.out[i]) BY <1>2, <1>3
<1>5. QED BY <1>4 DEF ToldApart

\* What is given up is no frame.
LEMMA GivenUpToldApart ==
  ASSUME NEW q \in ToldApart, NEW last \in Nat, NoneWhole(q, last), NEW isResponse \in BOOLEAN
  PROVE  GivenUp(q, last, isResponse) \in ToldApart
<1> DEFINE e == [first |-> q.head, last |-> last, isRequest |-> ~isResponse]
           t == GivenUp(q, last, isResponse)
<1>1. q \in ParserState /\ q.head \in Nat BY DEF ToldApart, ParserState
<1>2. t \in ParserState /\ t.out = Append(q.out, e) BY <1>1, GivenUpType DEF GivenUp
<1>3. e \in Sniffed /\ e.first = q.head /\ e.last = last BY <1>1 DEF Sniffed
<1> HIDE DEF e, t
<1>4. Whole(e) = {}
  <2> SUFFICES ASSUME NEW f \in ToSet(frames), f.first = q.head, f.last = last PROVE FALSE
    BY <1>3 DEF Whole
  <2>1. QED BY DEF NoneWhole
<1>5. TellsApart(e) BY <1>4 DEF TellsApart
<1>6. QED BY <1>2, <1>3, <1>5, ToldApartGrows DEF t

LEMMA TakenOffToldApart ==
  ASSUME Basics, NEW q \in ToldApart, NEW f \in ToSet(frames), NEW isRequest \in BOOLEAN,
         isRequest # f.isRequest => f.function = 6
  PROVE  TakenOff(q, f, isRequest) \in ToldApart
<1> DEFINE e == [first |-> f.first, last |-> f.last, isRequest |-> isRequest]
           t == TakenOff(q, f, isRequest)
<1>1. q \in ParserState BY DEF ToldApart
<1>2. t \in ParserState /\ t.out = Append(q.out, e) BY <1>1, TakenOffType DEF Basics, TakenOff
<1>3. e \in Sniffed /\ e.first = f.first /\ e.last = f.last /\ e.isRequest = isRequest
  BY FrameIsLong DEF Basics, Sniffed
<1> HIDE DEF e, t
<1>4. Whole(e) = {f} BY <1>3, WholeIsOne
<1>5. TellsApart(e) BY <1>3, <1>4 DEF TellsApart
<1>6. QED BY <1>2, <1>3, <1>5, ToldApartGrows DEF t

LEMMA ParserToldApart ==
  ASSUME Basics, snifferMode
  PROVE  parser \in ToldApart /\ NoneWhole(parser, got)
<1>1. parser \in ParserState /\ parser.head = head /\ parser.out = <<>> BY ParserType DEF Basics
<1>2. QED BY <1>1 DEF ToldApart, NoneWhole, Basics, NotYetFrame

LEMMA FeedToldApart ==
  ASSUME Basics, snifferMode, NEW last \in Nat, got < last, last <= Len(line),
         NEW afterSilence \in BOOLEAN
  PROVE  feed(last, afterSilence) \in ToldApart
<1>1. PICK p \in ParserState :
        /\ feed(last, afterSilence) = extractFrames(p, last)
        /\ p.head <= last
        /\ p = parser \/ (head <= got /\ \E isResponse \in BOOLEAN : p = GivenUp(parser, got, isResponse))
  BY Fed DEF Basics
<1>2. got \in Nat BY DEF Basics, TypeOK
<1>3. p \in ToldApart BY <1>1, <1>2, ParserToldApart, GivenUpToldApart
<1>4. ASSUME NEW q \in ToldApart PROVE nextFrame(q, last) \in ToldApart
  <2>1. q \in ParserState BY DEF ToldApart
  <2>2. CASE nextFrame(q, last) = q BY <2>2
  <2>3. CASE nextFrame(q, last) # q
    <3>1. PICK f \in ToSet(frames), isRequest \in BOOLEAN :
            /\ nextFrame(q, last) = TakenOff(q, f, isRequest)
            /\ isRequest # f.isRequest => f.function = 6
      BY <2>1, <2>3, NextFrame DEF Basics
    <3>2. QED BY <3>1, TakenOffToldApart
  <2>4. QED BY <2>2, <2>3
<1>5. \A q \in ToldApart : q \in ParserState BY DEF ToldApart
<1>6. p.head <= last + 1 BY <1>1 DEF ParserState
<1>7. extractFrames(p, last) \in ToldApart
  BY <1>3, <1>4, <1>5, <1>6, GivenUpToldApart, Extracted DEF Basics
<1>8. QED BY <1>1, <1>7

\* What has been reported stays what it was when frames come onto the line.
LEMMA ReportedStays ==
  ASSUME Basics, Basics', FramesStay, UNCHANGED Captured, NEW i \in 1 .. Len(reported)
  PROVE  Whole(reported[i])' = Whole(reported[i])
<1>1. head \in Nat /\ got \in Nat /\ Len(line) \in Nat /\ head <= got + 1 /\ got <= Len(line)
  BY DEF Basics, TypeOK
<1>2. reported[i].last < head /\ reported[i].first \in Nat /\ reported[i].last \in Nat
  BY LineTypes DEF Basics, NotYetFrame
<1>3. ASSUME NEW f \in ToSet(frames'), f.first = reported[i].first, f.last = reported[i].last
      PROVE  f \in ToSet(frames)
  <2>1. f.first + 4 <= f.last BY DEF Basics, FramesOnLine, OnLine
  <2>2. ~(f.first > Len(line)) BY <1>1, <1>2, <1>3, <2>1
  <2>3. QED BY <2>2 DEF FramesStay
<1>4. reported' = reported BY DEF Captured
<1>5. QED BY <1>3, <1>4 DEF Whole, FramesStay

LEMMA ReadsRightStep == Basics /\ Basics' /\ (snifferMode => ReadsRight) /\ [Next]_vars => (snifferMode' => ReadsRight')
<1> SUFFICES ASSUME Basics, Basics', snifferMode => ReadsRight, [Next]_vars, snifferMode'
             PROVE  \A i \in 1 .. Len(reported') : TellsApart(reported[i])'
  BY DEF ReadsRight, TellsApart
<1>0. snifferMode => \A i \in 1 .. Len(reported) : TellsApart(reported[i]) BY DEF ReadsRight, TellsApart
<1>1. ASSUME UNCHANGED <<frames, snifferMode, reported>>
      PROVE  \A i \in 1 .. Len(reported') : TellsApart(reported[i])'
  <2>1. snifferMode BY <1>1, Zenon
  <2>2. \A i \in 1 .. Len(reported) : TellsApart(reported[i]) BY <1>0, <2>1
  <2>3. QED BY <1>1, <2>2 DEF TellsApart, Whole
<1>2. ASSUME snifferMode, frames' = frames, NEW q \in ToldApart, reported' = reported \o q.out
      PROVE  \A i \in 1 .. Len(reported') : TellsApart(reported[i])'
  <2> DEFINE Good == {e \in Sniffed : TellsApart(e)}
  <2>1. reported \in Seq(Sniffed) /\ q.out \in Seq(Sniffed) BY DEF Basics, TypeOK, ToldApart, ParserState
  <2>2. \A i \in 1 .. Len(reported) : reported[i] \in Good
    <3>1. \A i \in 1 .. Len(reported) : reported[i] \in Sniffed BY <2>1
    <3>2. QED BY <1>0, <1>2, <3>1
  <2>3. \A i \in 1 .. Len(q.out) : q.out[i] \in Good
    <3>1. \A i \in 1 .. Len(q.out) : q.out[i] \in Sniffed BY <2>1
    <3>2. QED BY <3>1 DEF ToldApart
  <2>4. \A i \in 1 .. Len(reported \o q.out) : (reported \o q.out)[i] \in Good
    <3> HIDE DEF Good
    <3>1. QED BY <2>1, <2>2, <2>3, AllOf
  <2>5. ASSUME NEW i \in 1 .. Len(reported') PROVE TellsApart(reported[i])'
    <3>1. TellsApart(reported'[i]) BY <1>2, <2>4
    <3>2. QED BY <1>2, <3>1 DEF TellsApart, Whole
  <2>6. QED BY <2>5
<1>3. CASE LineStep
  <2>1. FramesStay /\ UNCHANGED Captured BY <1>3, LineSteps
  <2>2. snifferMode' = snifferMode /\ reported' = reported BY <2>1 DEF Captured, port
  <2>3. snifferMode BY <2>2, Zenon
  <2>4. ASSUME NEW i \in 1 .. Len(reported) PROVE TellsApart(reported[i])'
    <3>1. Whole(reported[i])' = Whole(reported[i]) BY <2>1, ReportedStays
    <3>2. TellsApart(reported[i]) BY <1>0, <2>3
    <3>3. QED BY <2>2, <3>1, <3>2 DEF TellsApart
  <2>5. QED BY <2>2, <2>4
<1>4. ASSUME NEW n \in 1 .. Len(line), NEW afterSilence \in BOOLEAN, on_readyRead(n, afterSilence)
      PROVE  \A i \in 1 .. Len(reported') : TellsApart(reported[i])'
  <2>0. got \in Nat /\ n \in Nat BY LineTypes DEF Basics, TypeOK
  <2>1. snifferMode
    <3>1. snifferMode' = snifferMode BY <1>4 DEF on_readyRead, port
    <3>2. QED BY <3>1, Zenon
  <2>2. PICK last \in Nat : last = got + n BY <2>0
  <2>3. got < last /\ last <= Len(line) BY <2>0, <1>4, <2>2, LineTypes DEF on_readyRead, Basics
  <2>4. PICK q : q = feed(last, afterSilence) OBVIOUS
  <2>5. reported' = reported \o q.out /\ frames' = frames
    BY <1>4, <2>1, <2>2, <2>4 DEF on_readyRead, processSniffedData, Parsed, bus
  <2>6. q \in ToldApart BY <2>1, <2>3, <2>4, FeedToldApart
  <2>7. QED BY <1>2, <2>1, <2>5, <2>6
<1>5. CASE on_snifferIdleTimeout
  <2>1. PICK isResponse \in BOOLEAN : reported' = reported \o GivenUp(parser, got, isResponse).out
    BY <1>5, TimeoutFlushes
  <2>2. snifferMode /\ frames' = frames BY <1>5, TimeoutFlushes DEF bus
  <2>3. got \in Nat BY DEF Basics, TypeOK
  <2>4. GivenUp(parser, got, isResponse) \in ToldApart
    BY <2>2, <2>3, ParserToldApart, GivenUpToldApart
  <2>5. QED BY <1>2, <2>1, <2>2, <2>4
<1>6. ASSUME NEW request \in replies, ReplyDue(request)
      PROVE  \A i \in 1 .. Len(reported') : TellsApart(reported[i])'
  BY <1>1, <1>6 DEF ReplyDue, port, input
<1>7. CASE setSnifferMode BY <1>7 DEF setSnifferMode
<1>8. CASE close BY <1>1, <1>8 DEF close, bus
<1>9. CASE open BY <1>9 DEF open
<1>10. CASE UNCHANGED vars BY <1>1, <1>10 DEF vars, bus, port, input
<1>11. QED BY <1>3, <1>4, <1>5, <1>6, <1>7, <1>8, <1>9, <1>10 DEF Next, LineStep

-----------------------------------------------------------------------------
(* Directions: requests and responses of one size, on a line in order.     *)

\* The response is to the last request, and whoever waits does so on the last one.
LEMMA PairedStep == Basics /\ Paired /\ [Next]_vars => Paired'
<1> SUFFICES ASSUME Basics, Paired, [Next]_vars, clean' PROVE Paired'
  BY DEF Paired
<1>0. Len(frames) \in Nat /\ waiting \in {None} \cup (Devices \X Functions) BY DEF Basics, TypeOK
<1>1. ASSUME clean, frames' = frames, waiting' \in {None, waiting} PROVE Paired'
  BY <1>1 DEF Paired
<1>2. CASE LineStep
  <2>1. clean' = clean /\ \E g : GrowsBy(g) BY <1>2, LineSteps
  <2>2. clean BY <2>1, Zenon
  <2>3. PICK g : GrowsBy(g) BY <2>1
  <2>4. /\ Len(frames') = Len(frames) + 1
        /\ \A i \in 1 .. Len(frames) : frames'[i] = frames[i]
        /\ frames'[Len(frames) + 1] = g
    BY <2>3 DEF GrowsBy
  <2>5. \/ g.isRequest /\ waiting' = IF g.address = Broadcast THEN None ELSE <<g.address, g.function>>
        \/ /\ ~g.isRequest /\ waiting # None /\ waiting = <<g.address, g.function>>
           /\ g.address # Broadcast /\ waiting' = None
    BY <2>3 DEF GrowsBy
  <2>6. waiting # None =>
          /\ Len(frames) \in 1 .. Len(frames) /\ frames[Len(frames)].isRequest
          /\ waiting = <<frames[Len(frames)].address, frames[Len(frames)].function>>
          /\ frames[Len(frames)].address # Broadcast
    <3>1. frames # <<>> => Len(frames) \in 1 .. Len(frames) BY <1>0 DEF Basics, TypeOK
    <3>2. QED BY <2>2, <3>1 DEF Paired
  <2>7. ASSUME NEW i \in 1 .. Len(frames'), ~frames'[i].isRequest
        PROVE  /\ i > 1 /\ frames'[i - 1].isRequest
               /\ frames'[i - 1].address = frames'[i].address /\ frames'[i - 1].address # Broadcast
               /\ frames'[i - 1].function = frames'[i].function
    <3>1. CASE i <= Len(frames)
      <4>1. i \in 1 .. Len(frames) /\ frames'[i] = frames[i] BY <1>0, <2>4, <3>1
      <4>2. i > 1 /\ frames[i - 1].isRequest
            /\ frames[i - 1].address = frames[i].address /\ frames[i - 1].address # Broadcast
            /\ frames[i - 1].function = frames[i].function
        BY <2>2, <2>7, <4>1 DEF Paired
      <4>3. i - 1 \in 1 .. Len(frames) BY <4>1, <4>2
      <4>4. frames'[i - 1] = frames[i - 1] BY <2>4, <4>3
      <4>5. QED BY <4>1, <4>2, <4>4
    <3>2. CASE i > Len(frames)
      <4>1. i = Len(frames) + 1 /\ i - 1 = Len(frames) BY <1>0, <2>4, <3>2
      <4>2. frames'[i] = g /\ waiting # None /\ waiting = <<g.address, g.function>>
        BY <2>4, <2>5, <2>7, <4>1
      <4>3. frames'[i - 1] = frames[Len(frames)] /\ i > 1 BY <1>0, <2>4, <2>6, <4>1, <4>2
      <4>4. <<g.address, g.function>> = <<frames[Len(frames)].address, frames[Len(frames)].function>>
        BY <2>6, <4>2
      <4>5. g.address = frames[Len(frames)].address /\ g.function = frames[Len(frames)].function
        BY <4>4
      <4>6. QED BY <2>6, <4>2, <4>3, <4>5
    <3>3. QED BY <1>0, <3>1, <3>2
  <2>8. waiting' # None =>
          /\ frames' # <<>> /\ frames'[Len(frames')].isRequest
          /\ waiting' = <<frames'[Len(frames')].address, frames'[Len(frames')].function>>
          /\ frames'[Len(frames')].address # Broadcast
    <3>1. frames' # <<>> BY <1>0, <2>4
    <3>2. frames'[Len(frames')] = g BY <2>4
    <3>3. QED BY <2>5, <3>1, <3>2
  <2>9. QED BY <2>7, <2>8 DEF Paired
<1>3. ASSUME NEW n \in 1 .. Len(line), NEW afterSilence \in BOOLEAN, on_readyRead(n, afterSilence)
      PROVE  Paired'
  <2>1. UNCHANGED <<bus, clean>> BY <1>3 DEF on_readyRead
  <2>2. clean BY <2>1, Zenon
  <2>3. QED BY <1>1, <2>1, <2>2 DEF bus
<1>4. ~on_snifferIdleTimeout BY DEF on_snifferIdleTimeout
<1>5. ASSUME NEW request \in replies, ReplyDue(request) PROVE Paired'
  <2>1. clean' = clean /\ frames' = frames /\ waiting' \in {None, waiting}
    BY <1>5 DEF ReplyDue, input
  <2>2. clean BY <2>1, Zenon
  <2>3. QED BY <1>1, <2>1, <2>2
<1>6. CASE setSnifferMode
  <2>1. clean BY <1>6, Zenon DEF setSnifferMode
  <2>2. QED BY <1>1, <1>6, <2>1 DEF setSnifferMode, bus
<1>7. CASE close \/ open \/ UNCHANGED vars
  <2>1. frames' = frames /\ waiting' = waiting /\ clean' = clean
    BY <1>7 DEF close, open, vars, bus, input
  <2>2. clean BY <2>1, Zenon
  <2>3. QED BY <1>1, <2>1, <2>2
<1>8. QED BY <1>2, <1>3, <1>4, <1>5, <1>6, <1>7 DEF Next, LineStep

\* The frame that ends where another one starts is the one before it.
LEMMA Adjacent ==
  ASSUME Basics, NEW g \in ToSet(frames), NEW f \in ToSet(frames), g.last + 1 = f.first
  PROVE  \E i \in 1 .. Len(frames) - 1 : g = frames[i] /\ f = frames[i + 1]
<1>1. PICK i \in 1 .. Len(frames), j \in 1 .. Len(frames) : g = frames[i] /\ f = frames[j]
  BY FrameTypes DEF Basics
<1>2. Len(frames) \in Nat BY DEF Basics, TypeOK
<1>3. \A x \in ToSet(frames) : x.first \in Nat /\ x.last \in Nat /\ x.first < x.last
  BY FrameIsLong DEF Basics
<1>4. \A k, m \in 1 .. Len(frames) : k < m => frames[k].last < frames[m].first
  BY DEF Basics, FramesOnLine
<1>5. i # j BY <1>1, <1>3
<1>6. ~(j < i)
  <2>1. j < i => f.last < g.first BY <1>1, <1>4
  <2>2. QED BY <1>3, <2>1
<1>7. ~(i + 1 < j)
  <2> SUFFICES ASSUME i + 1 < j PROVE FALSE
    OBVIOUS
  <2>1. i + 1 \in 1 .. Len(frames) /\ i < i + 1 BY <1>2
  <2>2. frames[i + 1] \in ToSet(frames) BY <2>1, FrameTypes DEF Basics
  <2>3. g.last < frames[i + 1].first /\ frames[i + 1].last < f.first BY <1>1, <1>4, <2>1
  <2>4. QED BY <1>3, <2>2, <2>3
<1>8. j = i + 1 /\ i \in 1 .. Len(frames) - 1 BY <1>2, <1>5, <1>6, <1>7
<1>9. QED BY <1>1, <1>8

\* On a line in order the request a capture expects a response to tells the direction.
LEMMA DirectionTold ==
  ASSUME Basics, clean, Paired, NoRepeats, NEW s \in Seq(Sniffed), NEW pend, NEW f \in ToSet(frames),
         WholeUpTo(s, f.first), InOrder(s, pend), NEW isRequest \in BOOLEAN,
         s = <<>> => f.isRequest,
         isRequest # f.isRequest => f.function = 6 /\ isRequest = (pend # <<f.address, 6>>)
  PROVE  isRequest = f.isRequest
<1> SUFFICES ASSUME isRequest # f.isRequest PROVE FALSE
  OBVIOUS
<1>1. f.function = 6 /\ isRequest = (pend # <<f.address, 6>>) OBVIOUS
<1>2. f.isRequest \in BOOLEAN /\ f.first \in Nat BY FrameIsLong DEF Basics
<1>3. CASE s = <<>>
  <2>1. pend = None BY <1>3 DEF InOrder, Awaited
  <2>2. pend # <<f.address, 6>> BY <2>1 DEF None
  <2>3. QED BY <1>1, <1>3, <2>2
<1>4. CASE s # <<>>
  <2>1. Len(s) \in 1 .. Len(s) BY <1>4
  <2>2. Whole(s[Len(s)]) # {} /\ s[Len(s)].last + 1 = f.first BY <1>4, <2>1 DEF WholeUpTo
  <2>3. PICK g \in ToSet(frames) : g.first = s[Len(s)].first /\ g.last = s[Len(s)].last
    BY <2>2 DEF Whole
  <2>4. Whole(s[Len(s)]) = {g} BY <2>3, WholeIsOne
  <2>5. pend = IF g.isRequest /\ g.address # Broadcast THEN <<g.address, g.function>> ELSE None
    <3>1. pend \in {IF h.isRequest /\ h.address # Broadcast THEN <<h.address, h.function>> ELSE None : h \in {g}}
      BY <1>4, <2>4 DEF InOrder, Awaited
    <3>2. QED BY <3>1
  <2>6. PICK i \in 1 .. Len(frames) - 1 : g = frames[i] /\ f = frames[i + 1]
    <3>1. g.last + 1 = f.first BY <2>2, <2>3
    <3>2. QED BY <3>1, Adjacent
  <2>7. Len(frames) \in Nat BY DEF Basics, TypeOK
  <2>8. CASE f.isRequest
    <3>1. pend = <<f.address, 6>> BY <1>1, <2>8
    <3>2. <<f.address, 6>> # None BY DEF None
    <3>3. g.isRequest /\ g.address # Broadcast BY <2>5, <3>1, <3>2
    <3>4. QED BY <2>6, <2>8, <3>3 DEF NoRepeats
  <2>9. CASE ~f.isRequest
    <3>1. i + 1 \in 1 .. Len(frames) /\ (i + 1) - 1 = i BY <2>7
    <3>2. g.isRequest /\ g.address = f.address /\ g.address # Broadcast /\ g.function = f.function
      BY <2>6, <2>9, <3>1 DEF Paired
    <3>3. pend = <<f.address, 6>> BY <1>1, <2>5, <3>2
    <3>4. QED BY <1>1, <1>2, <2>9, <3>3
  <2>10. QED BY <1>2, <2>8, <2>9
<1>5. QED BY <1>3, <1>4

LEMMA InOrderGrows ==
  ASSUME Basics, NEW s \in Seq(Sniffed), NEW pend, NEW f \in ToSet(frames), NEW e \in Sniffed,
         e.first = f.first, e.last = f.last, e.isRequest = f.isRequest, InOrder(s, pend)
  PROVE  InOrder(Append(s, e),
                 IF f.isRequest /\ f.address # Broadcast THEN <<f.address, f.function>> ELSE None)
<1>0. PICK t : t = Append(s, e) OBVIOUS
<1>1. /\ t \in Seq(Sniffed) /\ Len(t) = Len(s) + 1
      /\ \A i \in 1 .. Len(t) : (i \in 1 .. Len(s) /\ t[i] = s[i]) \/ (i = Len(s) + 1 /\ t[i] = e)
  BY <1>0, ConcatenatedType
<1>2. Len(s) \in Nat OBVIOUS
<1>3. t[Len(t)] = e /\ t # <<>>
  <2>1. Len(t) \in 1 .. Len(t) BY <1>1, <1>2
  <2>2. QED BY <1>1, <1>2, <2>1
<1>4. Whole(e) = {f} BY WholeIsOne
<1>5. ASSUME NEW i \in 1 .. Len(t), NEW g \in Whole(t[i]) PROVE t[i].isRequest = g.isRequest
  <2>1. CASE i \in 1 .. Len(s) /\ t[i] = s[i] BY <1>5, <2>1 DEF InOrder
  <2>2. CASE t[i] = e BY <1>4, <1>5, <2>2
  <2>3. QED BY <1>1, <2>1, <2>2
<1>6. Awaited(t) = {IF f.isRequest /\ f.address # Broadcast THEN <<f.address, f.function>> ELSE None}
  <2>1. Awaited(t) = {IF g.isRequest /\ g.address # Broadcast THEN <<g.address, g.function>> ELSE None : g \in {f}}
    BY <1>3, <1>4 DEF Awaited
  <2>2. QED BY <2>1
<1>7. InOrder(t, IF f.isRequest /\ f.address # Broadcast THEN <<f.address, f.function>> ELSE None)
  BY <1>5, <1>6 DEF InOrder
<1>8. QED BY <1>0, <1>7

Ordered(s, q) == StartsWithRequest(s) => InOrder(s, q.pending)

LEMMA TakenOffInOrder ==
  ASSUME Basics, clean, Paired, NoRepeats, NEW q \in ParserState, NEW f \in ToSet(frames),
         NEW isRequest \in BOOLEAN, f.first = q.head,
         isRequest # f.isRequest => f.function = 6 /\ isRequest = (q.pending # <<f.address, 6>>),
         WholeUpTo(reported \o q.out, q.head), Ordered(reported \o q.out, q)
  PROVE  LET t == TakenOff(q, f, isRequest) IN Ordered(reported \o t.out, t)
<1> DEFINE e == [first |-> f.first, last |-> f.last, isRequest |-> isRequest]
           t == TakenOff(q, f, isRequest)
<1>1. t.out = Append(q.out, e)
      /\ t.pending = IF isRequest /\ f.address # Broadcast THEN <<f.address, f.function>> ELSE None
  BY DEF TakenOff
<1>2. e \in Sniffed /\ e.first = f.first /\ e.last = f.last /\ e.isRequest = isRequest
  BY FrameIsLong DEF Basics, Sniffed
<1>3. reported \in Seq(Sniffed) /\ q.out \in Seq(Sniffed) BY DEF Basics, TypeOK, ParserState
<1> HIDE DEF e, t
<1>4. PICK s : s = reported \o q.out OBVIOUS
<1>5. s \in Seq(Sniffed) /\ reported \o t.out = Append(s, e) BY <1>1, <1>2, <1>3, <1>4
<1>6. ASSUME StartsWithRequest(Append(s, e)) PROVE InOrder(Append(s, e), t.pending)
  <2>1. Append(s, e) # <<>> /\ Len(s) \in Nat
        /\ (s # <<>> => Append(s, e)[1] = s[1]) /\ (s = <<>> => Append(s, e)[1] = e)
    BY <1>2, <1>5
  <2>2. StartsWithRequest(s) BY <1>6, <2>1 DEF StartsWithRequest
  <2>3. InOrder(s, q.pending) BY <1>4, <2>2 DEF Ordered
  <2>4. s = <<>> => f.isRequest
    <3>1. Whole(e) = {f} BY <1>2, WholeIsOne
    <3>2. QED BY <1>6, <2>1, <3>1 DEF StartsWithRequest
  <2>5. isRequest = f.isRequest
    <3>1. WholeUpTo(s, f.first) BY <1>4
    <3>2. QED BY <1>5, <2>3, <2>4, <3>1, DirectionTold
  <2>6. QED BY <1>1, <1>2, <1>5, <2>3, <2>5, InOrderGrows
<1>7. QED BY <1>5, <1>6 DEF Ordered, t

LEMMA FeedInOrder ==
  ASSUME Basics, snifferMode, clean, Tiled, Boundary(head), WholeUpTo(reported, head), Paired, NoRepeats,
         Ordered(reported, parser),
         NEW last \in Nat, got < last, last <= Len(line), NEW afterSilence \in BOOLEAN
  PROVE  LET q == feed(last, afterSilence) IN Ordered(reported \o q.out, q)
<1> DEFINE G == {q \in ParserState : /\ Boundary(q.head) /\ WholeUpTo(reported \o q.out, q.head)
                                     /\ Ordered(reported \o q.out, q)}
<1>1. feed(last, afterSilence) = extractFrames(parser, last) /\ parser.head <= last
  BY Fed DEF Basics
<1>2. reported \in Seq(Sniffed) BY DEF Basics, TypeOK
<1>3. parser \in ParserState /\ parser.head = head /\ parser.out = <<>> BY ParserType DEF Basics
<1>4. parser \in G
  <2>1. reported \o <<>> = reported BY <1>2
  <2>2. QED BY <1>3, <2>1
<1>5. \A q \in G : q \in ParserState /\ q.head \in Nat BY DEF ParserState
<1>6. ASSUME NEW q \in G PROVE nextFrame(q, last) \in G
  <2>1. CASE nextFrame(q, last) = q BY <2>1
  <2>2. CASE nextFrame(q, last) # q
    <3>1. PICK f \in ToSet(frames), isRequest \in BOOLEAN :
            /\ f.first = q.head /\ nextFrame(q, last) = TakenOff(q, f, isRequest)
            /\ isRequest # f.isRequest => f.function = 6 /\ isRequest = (q.pending # <<f.address, 6>>)
      BY <2>2, NextFrame DEF Basics
    <3>2. PICK t : t = TakenOff(q, f, isRequest) OBVIOUS
    <3>3. t \in ParserState /\ Boundary(t.head) /\ WholeUpTo(reported \o t.out, t.head)
      BY <3>1, <3>2, TakenOffWhole
    <3>4. Ordered(reported \o t.out, t) BY <3>1, <3>2, TakenOffInOrder
    <3>5. QED BY <3>1, <3>2, <3>3, <3>4
  <2>3. QED BY <2>1, <2>2
<1>7. ASSUME NEW q \in G, NoneWhole(q, last) PROVE ~(last - q.head + 1 > MaxRtuAduSize)
  <2>1. Boundary(q.head) /\ q.head \in Nat BY <1>5
  <2>2. last - q.head + 1 <= MaxRtuAduSize BY <1>7, <2>1, BegunIsShort DEF NoneWhole
  <2>3. QED BY <2>1, <2>2, SizeAssumption
<1>8. parser.head <= last + 1 BY <1>1, <1>4, <1>5
<1> HIDE DEF G
<1>9. extractFrames(parser, last) \in G
  <2>1. \A q \in G : \A isResponse \in BOOLEAN :
          NoneWhole(q, last) /\ last - q.head + 1 > MaxRtuAduSize => GivenUp(q, last, isResponse) \in G
    BY <1>7
  <2>2. \A q \in G : NoneWhole(q, last) /\ last - q.head + 1 <= MaxRtuAduSize => q \in G OBVIOUS
  <2>3. QED BY <1>4, <1>5, <1>6, <1>8, <2>1, <2>2, Extracted DEF Basics
<1>10. QED BY <1>1, <1>9 DEF G

OrderKept == Basics /\ CleanCapture /\ Paired /\ CaptureInOrder

LEMMA SniffedInOrder ==
  ASSUME OrderKept, snifferMode, NEW n \in 1 .. Len(line), NEW afterSilence \in BOOLEAN,
         on_readyRead(n, afterSilence)
  PROVE  CaptureInOrder'
<1> USE DEF OrderKept
<1>0. got \in Nat /\ Len(line) \in Nat /\ n \in Nat BY LineTypes DEF Basics, TypeOK
<1>1. PICK last \in Nat : last = got + n BY <1>0
<1>2. got < last /\ last <= Len(line) BY <1>0, <1>1 DEF on_readyRead
<1>3. PICK q : q = feed(last, afterSilence) OBVIOUS
<1>4. /\ reported' = reported \o q.out /\ pending' = q.pending
      /\ frames' = frames /\ clean' = clean
  BY <1>1, <1>3 DEF on_readyRead, processSniffedData, Parsed, bus
<1> SUFFICES ASSUME clean', StartsWithRequest(reported)', NoRepeats' PROVE InOrder(reported, pending)'
  BY DEF CaptureInOrder
<1>5. clean BY <1>4, Zenon
<1>6. NoRepeats BY <1>4 DEF NoRepeats
<1>7. Tiled /\ Boundary(head) /\ WholeUpTo(reported, head) BY <1>5 DEF CleanCapture
<1>8. Ordered(reported, parser) BY <1>5, <1>6, ParserType DEF CaptureInOrder, Ordered, Basics
<1>9. Ordered(reported \o q.out, q) BY <1>2, <1>3, <1>5, <1>6, <1>7, <1>8, FeedInOrder
<1>10. StartsWithRequest(reported') BY <1>4 DEF StartsWithRequest, Whole
<1>11. InOrder(reported', pending') BY <1>4, <1>9, <1>10 DEF Ordered
<1>12. QED BY <1>4, <1>11 DEF InOrder, Awaited, Whole

LEMMA LineInOrder ==
  ASSUME OrderKept, LineStep
  PROVE  CaptureInOrder'
<1> USE DEF OrderKept
<1> SUFFICES ASSUME clean', snifferMode', StartsWithRequest(reported)', NoRepeats'
             PROVE  InOrder(reported, pending)'
  BY DEF CaptureInOrder
<1>1. Basics' /\ UNCHANGED Captured /\ FramesStay /\ clean' = clean /\ \E g : GrowsBy(g) BY LineSteps
<1>2. clean BY <1>1, Zenon
<1>3. snifferMode' = snifferMode /\ reported' = reported /\ pending' = pending BY <1>1 DEF Captured, port
<1>4. snifferMode BY <1>3, Zenon
<1>5. \A i \in 1 .. Len(reported) : Whole(reported[i])' = Whole(reported[i])
  <2> TAKE i \in 1 .. Len(reported)
  <2>1. QED BY <1>1, ReportedStays
<1>6. Len(reported) \in Nat /\ (reported # <<>> => 1 \in 1 .. Len(reported) /\ Len(reported) \in 1 .. Len(reported))
  <2>1. reported \in Seq(Sniffed) BY DEF Basics, TypeOK
  <2>2. QED BY <2>1
<1>7. StartsWithRequest(reported) BY <1>3, <1>5, <1>6 DEF StartsWithRequest
<1>8. NoRepeats
  <2>1. Len(frames') = Len(frames) + 1 /\ \A i \in 1 .. Len(frames) : frames'[i] = frames[i]
    BY <1>1 DEF GrowsBy
  <2>2. Len(frames) \in Nat BY DEF Basics, TypeOK
  <2>3. \A i \in 1 .. Len(frames) - 1 :
          i \in 1 .. Len(frames) /\ i + 1 \in 1 .. Len(frames) /\ i \in 1 .. Len(frames') - 1
    BY <2>1, <2>2
  <2>4. QED BY <2>1, <2>3 DEF NoRepeats
<1>9. InOrder(reported, pending) BY <1>2, <1>4, <1>7, <1>8 DEF CaptureInOrder
<1>10. QED BY <1>3, <1>5, <1>6, <1>9 DEF InOrder, Awaited

LEMMA InOrderStep == OrderKept /\ [Next]_vars => CaptureInOrder'
<1> SUFFICES ASSUME OrderKept, [Next]_vars PROVE CaptureInOrder'
  OBVIOUS
<1>1. ASSUME UNCHANGED <<frames, snifferMode, pending, reported, clean>> PROVE CaptureInOrder'
  <2>1. (clean' => clean) /\ (snifferMode' => snifferMode) BY <1>1, Zenon
  <2>2. CaptureInOrder BY DEF OrderKept
  <2> SUFFICES ASSUME clean', snifferMode', StartsWithRequest(reported)', NoRepeats'
               PROVE  InOrder(reported, pending)'
    BY DEF CaptureInOrder
  <2>3. StartsWithRequest(reported) BY <1>1 DEF StartsWithRequest, Whole
  <2>4. NoRepeats BY <1>1 DEF NoRepeats
  <2>5. InOrder(reported, pending) BY <2>1, <2>2, <2>3, <2>4 DEF CaptureInOrder
  <2>6. QED BY <1>1, <2>5 DEF InOrder, Awaited, Whole
<1>2. ASSUME reported' = <<>>, pending' = None PROVE CaptureInOrder'
  <2>1. Len(reported') = 0 BY <1>2
  <2>2. InOrder(reported, pending)' BY <1>2, <2>1 DEF InOrder, Awaited
  <2>3. QED BY <2>2 DEF CaptureInOrder
<1>3. CASE LineStep BY <1>3, LineInOrder
<1>4. ASSUME NEW n \in 1 .. Len(line), NEW afterSilence \in BOOLEAN, on_readyRead(n, afterSilence)
      PROVE  CaptureInOrder'
  <2>1. snifferMode' = snifferMode BY <1>4 DEF on_readyRead, port
  <2>2. CASE snifferMode BY <1>4, <2>2, SniffedInOrder
  <2>3. CASE ~snifferMode
    <3>1. ~snifferMode' BY <2>1, <2>3, Zenon
    <3>2. QED BY <3>1 DEF CaptureInOrder
  <2>4. QED BY <2>2, <2>3
<1>5. CASE on_snifferIdleTimeout BY <1>5 DEF on_snifferIdleTimeout, CaptureInOrder
<1>6. ASSUME NEW request \in replies, ReplyDue(request) PROVE CaptureInOrder'
  BY <1>1, <1>6 DEF ReplyDue, port, input
<1>7. CASE setSnifferMode BY <1>2, <1>7 DEF setSnifferMode
<1>8. CASE close BY <1>1, <1>8 DEF close, bus
<1>9. CASE open BY <1>2, <1>9 DEF open
<1>10. CASE UNCHANGED vars BY <1>1, <1>10 DEF vars, bus, port, input
<1>11. QED BY <1>3, <1>4, <1>5, <1>6, <1>7, <1>8, <1>9, <1>10 DEF Next, LineStep

LEMMA InitInOrder == Init => Paired /\ CaptureInOrder /\ (snifferMode => ReadsRight)
<1> SUFFICES ASSUME Init PROVE Paired /\ CaptureInOrder /\ (snifferMode => ReadsRight)
  OBVIOUS
<1>1. Len(frames) = 0 /\ Len(reported) = 0 /\ reported = <<>> /\ pending = None /\ waiting = None
  BY DEF Init
<1>2. QED BY <1>1 DEF Paired, CaptureInOrder, InOrder, Awaited, ReadsRight

\* A capture shows a frame with the direction it had: always when request and
\* response differ in size, and on a line in order when they do not
\* (RtuSnifferParser::matchFrame, isResponseToPendingRequest).
THEOREM RightDirections == Spec => []DirectionsAreRight
<1>1. CaptureInOrder /\ (snifferMode => ReadsRight) => DirectionsAreRight
  <2> SUFFICES ASSUME CaptureInOrder, snifferMode => ReadsRight, snifferMode,
                      NEW i \in 1 .. Len(reported), NEW f \in Whole(reported[i]), f.function = 3 \/ orderly
               PROVE  reported[i].isRequest = f.isRequest
    BY DEF DirectionsAreRight
  <2>1. CASE f.function = 3 BY <2>1 DEF ReadsRight
  <2>2. CASE orderly
    <3>1. clean /\ StartsWithRequest(reported) /\ NoRepeats
      BY <2>2 DEF orderly, StartsWithRequest, NoRepeats
    <3>2. InOrder(reported, pending) BY <3>1 DEF CaptureInOrder
    <3>3. QED BY <3>2 DEF InOrder
  <2>3. QED BY <2>1, <2>2
<1>2. OrderKept /\ (snifferMode => ReadsRight) /\ [Next]_vars => (OrderKept /\ (snifferMode => ReadsRight))'
  BY NextBasics, CleanStep, PairedStep, InOrderStep, ReadsRightStep DEF OrderKept
<1>3. Init => OrderKept /\ (snifferMode => ReadsRight)
  BY InitBasics, InitClean, InitInOrder DEF OrderKept
<1>4. QED BY <1>1, <1>2, <1>3, PTL DEF Spec, OrderKept
=============================================================================
