------------------------- MODULE ScriptHandlerProofs -------------------------
(***************************************************************************)
(* Theorems about request handlers, for any number of scripts and call     *)
(* states and any length of the worker's queue.                            *)
(***************************************************************************)
EXTENDS ScriptHandler, WellFoundedInduction, TLAPS

-----------------------------------------------------------------------------
(* A call state is active only as long as a running script has it.         *)

ActiveIsCurrent ==
  \A h \in Handlers : active[h] => owner[h] \in running /\ current[owner[h]] = h

IInv == TypeOK /\ ActiveIsCurrent

LEMMA EventTypes ==
  /\ \A h \in Handlers \cup {None} : setHandler(h) \in Events
  /\ [op |-> "call"] \in Events
BY DEF Events, setHandler

LEMMA PostType ==
  ASSUME toWorker \in Seq(Events), NEW e \in Events, post(e)
  PROVE  toWorker' \in Seq(Events)
BY DEF post

LEMMA DeactivatedType ==
  ASSUME NEW s \in Scripts, TypeOK
  PROVE  deactivated(s) \in [Handlers -> BOOLEAN]
BY DEF deactivated, TypeOK

LEMMA InitIInv == Init => IInv
<1> SUFFICES ASSUME Init PROVE IInv
  OBVIOUS
<1>1. toWorker \in Seq(Events) BY DEF Init
<1>2. TypeOK BY <1>1 DEF Init, TypeOK
<1>3. ActiveIsCurrent BY DEF Init, ActiveIsCurrent
<1>4. QED BY <1>2, <1>3 DEF IInv

LEMMA ScriptStepIInv ==
  ASSUME IInv, NEW s \in Scripts, ScriptStep(s)
  PROVE  IInv'
<1> USE DEF IInv
<1>1. CASE StartScript(s)
  BY <1>1 DEF StartScript, TypeOK, ActiveIsCurrent
<1>2. ASSUME NEW h \in Handlers, onRequest(s, h) PROVE IInv'
  <2>1. TypeOK'
    BY <1>2, EventTypes, PostType, DeactivatedType DEF onRequest, TypeOK
  <2>2. ActiveIsCurrent'
    <3>1. s \in running /\ current' = [current EXCEPT ![s] = h] /\ running' = running
      BY <1>2 DEF onRequest, executes
    <3>2. active' = [deactivated(s) EXCEPT ![h] = TRUE] /\ owner' = [owner EXCEPT ![h] = s]
      BY <1>2 DEF onRequest
    <3>3. QED BY <3>1, <3>2 DEF TypeOK, ActiveIsCurrent, deactivated
  <2>3. QED BY <2>1, <2>2
<1>3. CASE onRequestNone(s)
  <2>1. TypeOK'
    BY <1>3, EventTypes, PostType, DeactivatedType DEF onRequestNone, TypeOK
  <2>2. ActiveIsCurrent'
    BY <1>3 DEF onRequestNone, TypeOK, ActiveIsCurrent, deactivated
  <2>3. QED BY <2>1, <2>2
<1>4. CASE stopScript(s)
  <2>1. TypeOK'
    BY <1>4, EventTypes, PostType, DeactivatedType DEF stopScript, TypeOK
  <2>2. ActiveIsCurrent'
    BY <1>4 DEF stopScript, TypeOK, ActiveIsCurrent, deactivated
  <2>3. QED BY <2>1, <2>2
<1>5. QED BY <1>1, <1>2, <1>3, <1>4 DEF ScriptStep

LEMMA ThreadStepIInv ==
  ASSUME IInv, BlockingCall \/ RunHandler \/ HandlerReturns \/ ProcessEvent \/ processRequest
  PROVE  IInv'
<1> USE DEF IInv
<1>1. CASE BlockingCall
  BY <1>1, EventTypes, PostType DEF BlockingCall, TypeOK, ActiveIsCurrent
<1>2. CASE RunHandler
  BY <1>2 DEF RunHandler, TypeOK, ActiveIsCurrent
<1>3. CASE HandlerReturns
  BY <1>3 DEF HandlerReturns, TypeOK, ActiveIsCurrent
<1>4. CASE ProcessEvent
  <2>1. Head(toWorker) \in Events /\ toWorker' \in Seq(Events)
    BY <1>4 DEF ProcessEvent, TypeOK
  <2>2. installed' \in Handlers \cup {None} /\ blocked' \in BOOLEAN
    BY <1>4, <2>1 DEF ProcessEvent, TypeOK, Events
  <2>3. UNCHANGED <<running, current, active, owner, waiting, callback>>
    BY <1>4 DEF ProcessEvent
  <2>4. QED BY <2>1, <2>2, <2>3 DEF TypeOK, ActiveIsCurrent
<1>5. CASE processRequest
  BY <1>5 DEF processRequest, TypeOK, ActiveIsCurrent
<1>6. QED BY <1>1, <1>2, <1>3, <1>4, <1>5

LEMMA NextIInv == IInv /\ [Next]_vars => IInv'
<1> SUFFICES ASSUME IInv, [Next]_vars PROVE IInv'
  OBVIOUS
<1>1. CASE UNCHANGED vars BY <1>1 DEF vars, IInv, TypeOK, ActiveIsCurrent
<1>2. QED BY <1>1, ScriptStepIInv, ThreadStepIInv DEF Next, ScriptCall, ViewCall

\* The function of a script is run for a request only while the script runs and
\* the function is the one it registered last: the flag in the call state
\* (JsCallState::active) is enough to silence events that are under way when a
\* script is stopped or replaces its handler.
THEOREM StaleHandlersAreSilent == Spec => StaleHandlerSilent
<1>1. Init => IInv BY InitIInv
<1>2. IInv /\ [Next]_vars => IInv' BY NextIInv
<1>3. IInv /\ [Next]_vars =>
        (callback' # callback /\ callback' # None =>
           owner[callback'] \in running /\ current[owner[callback']] = callback')
  <2> SUFFICES ASSUME IInv, [Next]_vars, callback' # callback, callback' # None
               PROVE  owner[callback'] \in running /\ current[owner[callback']] = callback'
    OBVIOUS
  <2>1. RunHandler
    BY DEF Next, vars, ScriptStep, StartScript, onRequest, onRequestNone, stopScript,
           ScriptCall, ViewCall, BlockingCall, HandlerReturns, ProcessEvent, processRequest
  <2>2. callback' = waiting /\ active[waiting] /\ waiting \in Handlers
    BY <2>1 DEF RunHandler, IInv, TypeOK
  <2>3. QED BY <2>2 DEF IInv, ActiveIsCurrent
<1>4. QED BY <1>1, <1>2, <1>3, PTL DEF Spec, StaleHandlerSilent

-----------------------------------------------------------------------------
(* The main thread and the worker wait for each other only if the main     *)
(* thread calls the multi-server while a handler is installed.             *)

SafeCalls ==
  /\ waiting # None => installed = waiting
  /\ blocked => noHandler

LEMMA SafeCallsKept ==
  ASSUME ~CallsAnyTime, TypeOK, SafeCalls, [Next]_vars
  PROVE  SafeCalls'
<1>1. CASE UNCHANGED vars BY <1>1 DEF vars, SafeCalls, noHandler
<1>2. ASSUME NEW s \in Scripts, ScriptStep(s) PROVE SafeCalls'
  <2>1. UNCHANGED <<waiting, installed, blocked>> /\ ~blocked
    BY <1>2 DEF ScriptStep, StartScript, onRequest, onRequestNone, stopScript, idle, executes
  <2>2. QED BY <2>1 DEF SafeCalls
<1>3. CASE BlockingCall
  <2>1. UNCHANGED <<installed, waiting>> /\ noHandler BY <1>3 DEF BlockingCall
  <2>2. toWorker' = Append(toWorker, [op |-> "call"]) BY <1>3 DEF BlockingCall, post
  <2>3. \A i \in DOMAIN toWorker' :
          toWorker'[i] = [op |-> "call"] \/ (i \in DOMAIN toWorker /\ toWorker'[i] = toWorker[i])
    BY <2>2 DEF TypeOK
  <2>4. \A h \in Handlers : setHandler(h) # [op |-> "call"]
    <3>1. \A h \in Handlers : setHandler(h).op = "setRequestHandler" BY DEF setHandler
    <3>2. QED BY <3>1
  <2>5. noHandler' BY <2>1, <2>3, <2>4 DEF noHandler
  <2>6. QED BY <2>1, <2>5 DEF SafeCalls
<1>4. CASE RunHandler
  <2>1. UNCHANGED <<installed, toWorker, blocked>> /\ waiting' \in {waiting, None}
    BY <1>4 DEF RunHandler
  <2>2. QED BY <2>1 DEF SafeCalls, noHandler
<1>5. CASE HandlerReturns
  BY <1>5 DEF HandlerReturns, SafeCalls, noHandler
<1>6. CASE ProcessEvent
  <2>1. UNCHANGED waiting /\ waiting = None /\ toWorker # <<>> /\ toWorker' = Tail(toWorker)
    BY <1>6 DEF ProcessEvent
  <2>2. \A i \in DOMAIN toWorker' : i + 1 \in DOMAIN toWorker /\ toWorker'[i] = toWorker[i + 1]
    BY <2>1 DEF TypeOK
  <2>3. 1 \in DOMAIN toWorker /\ toWorker[1] = Head(toWorker) BY <2>1 DEF TypeOK
  <2>4. ASSUME blocked' PROVE noHandler'
    <3>1. /\ Head(toWorker).op = "setRequestHandler"
          /\ installed' = Head(toWorker).handler
          /\ blocked
      BY <1>6, <2>4 DEF ProcessEvent
    <3>2. noHandler BY <3>1 DEF SafeCalls
    <3>3. Head(toWorker) \in Events BY <2>1 DEF TypeOK
    <3>4. Head(toWorker) = setHandler(installed') /\ installed' \in Handlers \cup {None}
      BY <3>1, <3>3 DEF Events, setHandler
    <3>5. installed' = None BY <2>3, <3>2, <3>4 DEF noHandler
    <3>6. QED BY <2>2, <3>2, <3>5 DEF noHandler
  <2>5. QED BY <2>1, <2>4 DEF SafeCalls
<1>7. CASE processRequest
  BY <1>7 DEF processRequest, SafeCalls, noHandler
<1>8. BlockingCall \/ UNCHANGED vars \/ (\E s \in Scripts : ScriptStep(s))
        \/ RunHandler \/ HandlerReturns \/ ProcessEvent \/ processRequest
  BY DEF Next, ScriptCall, ViewCall
<1>9. QED BY <1>1, <1>2, <1>3, <1>4, <1>5, <1>6, <1>7, <1>8

\* If views and scripts leave the multi-server alone while a handler may be
\* asked, the event a request has queued is always delivered: starting and
\* stopping scripts and registering handlers, in a callback as well, never
\* makes the two threads wait for each other, because none of it blocks
\* (Server::~Server, Server::onRequest).
THEOREM NoMutualWait == ~CallsAnyTime => (Spec => []EventIsDelivered)
<1> SUFFICES ASSUME ~CallsAnyTime PROVE Spec => []EventIsDelivered
  OBVIOUS
<1>1. Init => IInv /\ SafeCalls BY InitIInv DEF Init, SafeCalls
<1>2. IInv /\ SafeCalls /\ [Next]_vars => (IInv /\ SafeCalls)'
  BY NextIInv, SafeCallsKept DEF IInv
<1>3. IInv /\ SafeCalls => EventIsDelivered
  BY DEF SafeCalls, noHandler, EventIsDelivered
<1>4. QED BY <1>1, <1>2, <1>3, PTL DEF Spec

-----------------------------------------------------------------------------
(* What is installed once the queue is empty.                              *)

\* The places of a queue that install a handler, and what a queue q leaves
\* behind when the handler was h before.
Sets(q) == {i \in DOMAIN q : q[i].op = "setRequestHandler"}
After(q, h) ==
  IF Sets(q) = {} THEN h ELSE q[CHOOSE i \in Sets(q) : \A j \in Sets(q) : j <= i].handler

LEMMA SettledIsAfter == settled = After(toWorker, installed) BY DEF settled, After, Sets

\* Among the places of a queue there is a last one.
LEMMA LastPlace ==
  ASSUME NEW n \in Nat, NEW S \in SUBSET (1..n), S # {}
  PROVE  \E last \in S : \A j \in S : j <= last
<1> DEFINE T == {n - q : q \in S}
<1>1. T \in SUBSET Nat /\ T # {}
  <2>1. \A q \in S : n - q \in Nat OBVIOUS
  <2>2. QED BY <2>1
<1> HIDE DEF T
<1>2. IsWellFoundedOn(OpToRel(<, Nat), Nat) BY NatLessThanWellFounded
<1>3. PICK x \in T : \A y \in T : ~ (<<y, x>> \in OpToRel(<, Nat)) BY <1>1, <1>2, WFMin
<1>4. \A y \in T : ~ (y < x) BY <1>1, <1>3 DEF OpToRel
<1>5. PICK last \in S : x = n - last BY DEF T
<1>6. \A q \in S : n - q \in T BY DEF T
<1>7. QED BY <1>4, <1>5, <1>6

\* The last place decides.
LEMMA AfterLast ==
  ASSUME NEW q \in Seq(Events), NEW h, NEW i \in Sets(q), \A j \in Sets(q) : j <= i
  PROVE  After(q, h) = q[i].handler
<1> DEFINE c == CHOOSE x \in Sets(q) : \A j \in Sets(q) : j <= x
<1>1. c \in Sets(q) /\ \A j \in Sets(q) : j <= c OBVIOUS
<1>2. Sets(q) \subseteq Nat BY DEF Sets
<1>3. c = i
  <2> HIDE DEF c
  <2>1. QED BY <1>1, <1>2
<1>4. QED BY <1>3 DEF After

\* Installing a handler at the end of the queue.
LEMMA AfterSet ==
  ASSUME NEW q \in Seq(Events), NEW e \in Events, e.op = "setRequestHandler", NEW h
  PROVE  After(Append(q, e), h) = e.handler
<1> DEFINE new == Append(q, e)
           n == Len(q) + 1
<1>1. new \in Seq(Events) /\ DOMAIN new = 1..n /\ new[n] = e /\ n \in 1..n OBVIOUS
<1> HIDE DEF new, n
<1>2. n \in Sets(new) /\ \A j \in Sets(new) : j <= n BY <1>1 DEF Sets
<1>3. QED BY <1>1, <1>2, AfterLast DEF new

\* Any other event at the end changes nothing.
LEMMA AfterCall ==
  ASSUME NEW q \in Seq(Events), NEW e \in Events, e.op # "setRequestHandler", NEW h
  PROVE  After(Append(q, e), h) = After(q, h)
<1> DEFINE new == Append(q, e)
           n == Len(q)
<1>1. /\ new \in Seq(Events) /\ n \in Nat
      /\ DOMAIN new = 1..n + 1 /\ new[n + 1] = e
      /\ DOMAIN q = 1..n /\ \A i \in 1..n : new[i] = q[i]
  OBVIOUS
<1> HIDE DEF new, n
<1>2. Sets(new) = Sets(q) BY <1>1 DEF Sets
<1>3. CASE Sets(q) = {} BY <1>2, <1>3 DEF After, new
<1>4. ASSUME Sets(q) # {} PROVE After(new, h) = After(q, h)
  <2>1. Sets(q) \in SUBSET (1..n) BY <1>1 DEF Sets
  <2>2. PICK i \in Sets(q) : \A j \in Sets(q) : j <= i BY <1>1, <1>4, <2>1, LastPlace
  <2>3. After(q, h) = q[i].handler BY <2>2, AfterLast
  <2>4. After(new, h) = new[i].handler BY <1>1, <1>2, <2>2, AfterLast
  <2>5. QED BY <1>1, <2>1, <2>3, <2>4
<1>5. QED BY <1>3, <1>4 DEF new

\* Taking the first event changes nothing, if it is carried out.
LEMMA AfterTail ==
  ASSUME NEW q \in Seq(Events), q # <<>>, NEW h, NEW k,
         Head(q).op = "setRequestHandler" => k = Head(q).handler,
         Head(q).op # "setRequestHandler" => k = h
  PROVE  After(Tail(q), k) = After(q, h)
<1> DEFINE rest == Tail(q)
           n == Len(q)
<1>1. /\ rest \in Seq(Events) /\ n \in Nat \ {0}
      /\ DOMAIN rest = 1..n - 1 /\ DOMAIN q = 1..n
      /\ \A i \in 1..n - 1 : rest[i] = q[i + 1]
      /\ Head(q) = q[1]
  OBVIOUS
<1> HIDE DEF rest, n
<1>2. \A i \in 1..n - 1 : i \in Sets(rest) <=> i + 1 \in Sets(q) BY <1>1 DEF Sets
<1>3. Sets(rest) \in SUBSET (1..n - 1) /\ Sets(q) \in SUBSET (1..n) BY <1>1 DEF Sets
<1>4. 1 \in Sets(q) <=> q[1].op = "setRequestHandler" BY <1>1 DEF Sets
<1>5. ASSUME Sets(rest) = {} PROVE After(rest, k) = After(q, h)
  <2>1. After(rest, k) = k BY <1>5 DEF After
  <2>2. ASSUME NEW i \in Sets(q) PROVE i = 1
    <3>1. i \in 1..n BY <1>3
    <3>2. i # 1 => i - 1 \in 1..n - 1 /\ i = i - 1 + 1 BY <1>1, <3>1
    <3>3. QED BY <1>2, <1>5, <3>1, <3>2
  <2>3. CASE 1 \in Sets(q)
    <3>1. After(q, h) = q[1].handler BY <2>2, <2>3, AfterLast
    <3>2. QED BY <1>1, <1>4, <2>1, <2>3, <3>1
  <2>4. ASSUME 1 \notin Sets(q) PROVE After(rest, k) = After(q, h)
    <3>1. Sets(q) = {} BY <2>2, <2>4
    <3>2. After(q, h) = h BY <3>1 DEF After
    <3>3. QED BY <1>1, <1>4, <2>1, <2>4, <3>2
  <2>5. QED BY <2>3, <2>4
<1>6. ASSUME Sets(rest) # {} PROVE After(rest, k) = After(q, h)
  <2>1. PICK i \in Sets(rest) : \A j \in Sets(rest) : j <= i
    <3>1. n - 1 \in Nat BY <1>1
    <3>2. QED BY <1>3, <1>6, <3>1, LastPlace
  <2>2. After(rest, k) = rest[i].handler BY <1>1, <2>1, AfterLast
  <2>3. i + 1 \in Sets(q) BY <1>2, <1>3, <2>1
  <2>4. \A j \in Sets(q) : j <= i + 1
    <3>1. TAKE j \in Sets(q)
    <3>2. j \in 1..n /\ i \in 1..n - 1 BY <1>3
    <3>3. CASE j = 1 BY <3>2, <3>3
    <3>4. ASSUME j # 1 PROVE j <= i + 1
      <4>1. j - 1 \in 1..n - 1 /\ j = j - 1 + 1 BY <1>1, <3>2, <3>4
      <4>2. j - 1 \in Sets(rest) BY <1>2, <4>1
      <4>3. QED BY <2>1, <3>2, <4>2
    <3>5. QED BY <3>3, <3>4
  <2>5. After(q, h) = q[i + 1].handler BY <2>3, <2>4, AfterLast
  <2>6. QED BY <1>1, <1>3, <2>2, <2>5
<1>7. QED BY <1>5, <1>6 DEF rest

\* With one script, what is installed is what it registered last.
LEMMA FollowsStep ==
  ASSUME NEW s, Scripts = {s}, TypeOK, settled = current[s], [Next]_vars
  PROVE  settled' = current'[s]
<1> USE DEF TypeOK
<1>0. settled' = After(toWorker', installed')
  BY DEF settled, After, Sets
<1>1. CASE UNCHANGED vars BY <1>0, <1>1, SettledIsAfter DEF vars
<1>2. ASSUME NEW e \in Events, e.op = "setRequestHandler", toWorker' = Append(toWorker, e),
             current'[s] = e.handler
      PROVE  settled' = current'[s]
  BY <1>0, <1>2, AfterSet
<1>3. \A h \in Handlers \cup {None} :
        setHandler(h) \in Events /\ setHandler(h).op = "setRequestHandler" /\ setHandler(h).handler = h
  BY DEF setHandler, Events
<1>4. ASSUME ScriptStep(s) PROVE settled' = current'[s]
  <2>1. CASE StartScript(s) BY <1>0, <2>1, SettledIsAfter DEF StartScript
  <2>2. ASSUME NEW h \in Handlers, onRequest(s, h) PROVE settled' = current'[s]
    <3>1. current'[s] = h /\ toWorker' = Append(toWorker, setHandler(h))
      BY <2>2 DEF onRequest, post
    <3>2. QED BY <1>2, <1>3, <3>1
  <2>3. ASSUME onRequestNone(s) \/ stopScript(s) PROVE settled' = current'[s]
    <3>1. current'[s] = None /\ toWorker' = Append(toWorker, setHandler(None))
      BY <2>3 DEF onRequestNone, stopScript, post
    <3>2. QED BY <1>2, <1>3, <3>1
  <2>4. QED BY <1>4, <2>1, <2>2, <2>3 DEF ScriptStep
<1>5. ASSUME BlockingCall PROVE settled' = current'[s]
  <2>1. toWorker' = Append(toWorker, [op |-> "call"]) /\ UNCHANGED <<installed, current>>
    BY <1>5 DEF BlockingCall, post
  <2>2. [op |-> "call"].op # "setRequestHandler" /\ [op |-> "call"] \in Events
    BY EventTypes
  <2>3. After(toWorker', installed) = After(toWorker, installed) BY <2>1, <2>2, AfterCall
  <2>4. QED BY <1>0, <2>1, <2>3, SettledIsAfter
<1>6. CASE RunHandler \/ HandlerReturns \/ processRequest
  BY <1>0, <1>6, SettledIsAfter DEF RunHandler, HandlerReturns, processRequest
<1>7. ASSUME ProcessEvent PROVE settled' = current'[s]
  <2>1. /\ toWorker # <<>> /\ toWorker' = Tail(toWorker) /\ UNCHANGED current
        /\ \/ Head(toWorker).op = "setRequestHandler" /\ installed' = Head(toWorker).handler
           \/ Head(toWorker).op = "call" /\ installed' = installed
    BY <1>7 DEF ProcessEvent
  <2>2. After(Tail(toWorker), installed') = After(toWorker, installed)
    BY <2>1, AfterTail
  <2>3. QED BY <1>0, <2>1, <2>2, SettledIsAfter
<1>8. QED BY <1>1, <1>4, <1>5, <1>6, <1>7 DEF Next, ScriptCall, ViewCall

\* As long as one script runs, no order of registering, replacing and removing
\* handlers, of stopping and starting it, and of requests in between loses a
\* registration or leaves one behind: what is installed, once the worker has
\* processed its queue, is what the script registered last
\* (Server::onRequest, Server::~Server, ModbusMultiServer::setRequestHandler).
THEOREM InstallationFollows ==
  \A s : Scripts = {s} => (Spec => []InstalledFollows)
<1> SUFFICES ASSUME NEW s, Scripts = {s} PROVE Spec => []InstalledFollows
  OBVIOUS
<1>1. Init => IInv /\ settled = current[s]
  BY InitIInv DEF Init, settled
<1>2. IInv /\ settled = current[s] /\ [Next]_vars => (IInv /\ settled = current[s])'
  BY NextIInv, FollowsStep DEF IInv
<1>3. settled = current[s] => InstalledFollows BY DEF InstalledFollows
<1>4. QED BY <1>1, <1>2, <1>3, PTL DEF Spec

=============================================================================
