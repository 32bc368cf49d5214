---------------------------- MODULE ScriptHandler ----------------------------
(***************************************************************************)
(* The request handler a script installs with Server.onRequest.            *)
(*                                                                         *)
(* Scripts run in the main thread, requests are served in the worker       *)
(* thread.  A handler is installed by an event queued for the worker; for  *)
(* each request the worker queues an event for the main thread, which runs *)
(* the script's function, and blocks until it has been run.  Every other   *)
(* call of the multi-server blocks the main thread until the worker has    *)
(* processed it.                                                           *)
(***************************************************************************)
EXTENDS Naturals, Sequences

CONSTANTS
  Scripts,       \* script views
  Handlers,      \* call states (JsCallState); one that nothing refers to is free
  None,
  MaxQueue,      \* bound on the events queued for the worker
  CallsAnyTime   \* whether the main thread calls the multi-server even while a
                 \* handler is installed, as the code lets it

ASSUME NoneAssumption == None \notin Handlers /\ None \notin Scripts
ASSUME MaxQueueAssumption == MaxQueue \in Nat
ASSUME CallsAnyTimeAssumption == CallsAnyTime \in BOOLEAN

VARIABLES
  running,    \* the scripts that run
  current,    \* _callState of each script's Server object
  active,     \* JsCallState::active
  owner,      \* the script whose engine a call state refers to
  toWorker,   \* events queued for the worker
  installed,  \* _requestHandler of the multi-server and of every server
  waiting,    \* the handler whose event the worker waits for (sem.acquire)
  callback,   \* the handler the main thread is running
  blocked     \* the main thread waits for the worker

vars == <<running, current, active, owner, toWorker, installed, waiting, callback, blocked>>

\* What the worker finds in its queue: setRequestHandler, or the call the main
\* thread waits for.
Events == [op : {"setRequestHandler"}, handler : Handlers \cup {None}] \cup [op : {"call"}]

TypeOK ==
  /\ running \subseteq Scripts
  /\ current \in [Scripts -> Handlers \cup {None}]
  /\ active \in [Handlers -> BOOLEAN]
  /\ owner \in [Handlers -> Scripts \cup {None}]
  /\ toWorker \in Seq(Events)
  /\ installed \in Handlers \cup {None}
  /\ waiting \in Handlers \cup {None}
  /\ callback \in Handlers \cup {None}
  /\ blocked \in BOOLEAN

Init ==
  /\ running = {}
  /\ current = [s \in Scripts |-> None]
  /\ active = [h \in Handlers |-> FALSE]
  /\ owner = [h \in Handlers |-> None]
  /\ toWorker = <<>>
  /\ installed = None
  /\ waiting = None
  /\ callback = None
  /\ blocked = FALSE

setHandler(h) == [op |-> "setRequestHandler", handler |-> h]
post(event) == Len(toWorker) < MaxQueue /\ toWorker' = Append(toWorker, event)

-----------------------------------------------------------------------------
(* The main thread.  Its event loop is free between two events; a script   *)
(* also runs inside the callback of its own handler.                       *)

idle == callback = None /\ ~blocked
executes(s) == s \in running /\ ~blocked /\ (callback # None => owner[callback] = s)

StartScript(s) ==
  /\ idle
  /\ s \notin running
  /\ running' = running \cup {s}
  /\ UNCHANGED <<current, active, owner, toWorker, installed, waiting, callback, blocked>>

\* The script's call state, if it has one, is dead.
deactivated(s) == [h \in Handlers |-> active[h] /\ h # current[s]]

\* A call state lives as long as a script, an event, the multi-server or the
\* request being served refers to it.
unused(h) ==
  /\ \A s \in Scripts : current[s] # h
  /\ setHandler(h) \notin {toWorker[i] : i \in DOMAIN toWorker}
  /\ h \notin {installed, waiting, callback}

\* Bug: the handler that is replaced stays active.
onRequestKeepingOld(s, h) ==
  /\ executes(s)
  /\ unused(h)
  /\ active' = [active EXCEPT ![h] = TRUE]
  /\ owner' = [owner EXCEPT ![h] = s]
  /\ current' = [current EXCEPT ![s] = h]
  /\ post(setHandler(h))
  /\ UNCHANGED <<running, installed, waiting, callback, blocked>>

\* Bug: the worker is told of the first handler of a script only.
onRequestOnce(s, h) ==
  /\ executes(s)
  /\ unused(h)
  /\ active' = [deactivated(s) EXCEPT ![h] = TRUE]
  /\ owner' = [owner EXCEPT ![h] = s]
  /\ current' = [current EXCEPT ![s] = h]
  /\ IF current[s] = None THEN post(setHandler(h)) ELSE UNCHANGED toWorker
  /\ UNCHANGED <<running, installed, waiting, callback, blocked>>

onRequest(s, h) ==
  /\ executes(s)
  /\ unused(h)
  /\ active' = [deactivated(s) EXCEPT ![h] = TRUE]
  /\ owner' = [owner EXCEPT ![h] = s]
  /\ current' = [current EXCEPT ![s] = h]
  /\ post(setHandler(h))
  /\ UNCHANGED <<running, installed, waiting, callback, blocked>>

\* Server.onRequest with something that is not a function.
onRequestNone(s) ==
  /\ executes(s)
  /\ active' = deactivated(s)
  /\ current' = [current EXCEPT ![s] = None]
  /\ post(setHandler(None))
  /\ UNCHANGED <<running, owner, installed, waiting, callback, blocked>>

\* Bug: the destructor waits until the worker has removed the handler.
stopScriptBlocking(s) ==
  /\ idle
  /\ s \in running
  /\ running' = running \ {s}
  /\ active' = deactivated(s)
  /\ current' = [current EXCEPT ![s] = None]
  /\ Len(toWorker) < MaxQueue
  /\ toWorker' = toWorker \o <<setHandler(None), [op |-> "call"]>>
  /\ blocked' = TRUE
  /\ UNCHANGED <<owner, installed, waiting, callback>>

\* Bug: the destructor leaves the installed handler where it is.
stopScriptKeepingHandler(s) ==
  /\ idle
  /\ s \in running
  /\ running' = running \ {s}
  /\ active' = deactivated(s)
  /\ current' = [current EXCEPT ![s] = None]
  /\ UNCHANGED <<owner, toWorker, installed, waiting, callback, blocked>>

\* The destructor of the Server object removes whatever handler is installed
\* by then, the script's own or not.
stopScript(s) ==
  /\ idle
  /\ s \in running
  /\ running' = running \ {s}
  /\ active' = deactivated(s)
  /\ current' = [current EXCEPT ![s] = None]
  /\ post(setHandler(None))
  /\ UNCHANGED <<owner, installed, waiting, callback, blocked>>

\* No request will ask a script, now or after the queued events.
noHandler ==
  /\ installed = None
  /\ \A h \in Handlers : setHandler(h) \notin {toWorker[i] : i \in DOMAIN toWorker}

\* A call of the multi-server: reading or writing a register, or a setting.
BlockingCall ==
  /\ CallsAnyTime \/ noHandler
  /\ ~blocked
  /\ blocked' = TRUE
  /\ post([op |-> "call"])
  /\ UNCHANGED <<running, current, active, owner, installed, waiting, callback>>

ViewCall == idle /\ BlockingCall

\* A script makes such calls inside the callback of its handler as well.
ScriptCall(s) == executes(s) /\ BlockingCall

\* Bug: a dead call state returns before it releases the worker.
RunHandlerUnreleased ==
  /\ idle
  /\ waiting # None
  /\ IF active[waiting] THEN callback' = waiting ELSE UNCHANGED callback
  /\ UNCHANGED <<running, current, active, owner, toWorker, installed, waiting, blocked>>

\* The event a request has queued: a call state that is dead by now releases
\* the worker without an answer.
RunHandler ==
  /\ idle
  /\ waiting # None
  /\ IF active[waiting]
     THEN callback' = waiting /\ UNCHANGED waiting
     ELSE waiting' = None /\ UNCHANGED callback
  /\ UNCHANGED <<running, current, active, owner, toWorker, installed, blocked>>

HandlerReturns ==
  /\ callback # None
  /\ ~blocked
  /\ callback' = None
  /\ waiting' = None
  /\ UNCHANGED <<running, current, active, owner, toWorker, installed, blocked>>

-----------------------------------------------------------------------------
(* The worker thread: one event or one request at a time.                  *)

ProcessEvent ==
  /\ waiting = None
  /\ toWorker # <<>>
  /\ toWorker' = Tail(toWorker)
  /\ LET e == Head(toWorker)
     IN \/ /\ e.op = "setRequestHandler"
           /\ installed' = e.handler
           /\ UNCHANGED blocked
        \/ /\ e.op = "call"
           /\ blocked' = FALSE
           /\ UNCHANGED installed
  /\ UNCHANGED <<running, current, active, owner, waiting, callback>>

\* Without a handler the request is processed at once.
processRequest ==
  /\ waiting = None
  /\ installed # None
  /\ waiting' = installed
  /\ UNCHANGED <<running, current, active, owner, toWorker, installed, callback, blocked>>

-----------------------------------------------------------------------------
ScriptStep(s) ==
  \/ StartScript(s)
  \/ \E h \in Handlers : onRequest(s, h)
  \/ onRequestNone(s)
  \/ stopScript(s)

Next ==
  \/ \E s \in Scripts : ScriptStep(s) \/ ScriptCall(s)
  \/ ViewCall
  \/ RunHandler
  \/ HandlerReturns
  \/ ProcessEvent
  \/ processRequest

\* Both event loops process what is queued for them, and a handler's function
\* returns.  The worker's loop looks for queued events between any two
\* requests, so requests do not keep an event waiting for ever.
Fairness ==
  /\ SF_vars(ProcessEvent)
  /\ WF_vars(RunHandler)
  /\ WF_vars(HandlerReturns)

Spec == Init /\ [][Next]_vars /\ Fairness

-----------------------------------------------------------------------------
\* A function is run for a request only while its script runs and has neither
\* replaced nor removed it, however late the event arrives
\* (JsCallState::active, jsobjects/server.cpp).
StaleHandlerSilent ==
  [][callback' # callback /\ callback' # None =>
       /\ owner[callback'] \in running
       /\ current[owner[callback']] = callback']_vars

\* The handler that is installed once the worker has processed what is queued.
settled ==
  LET sets == {i \in DOMAIN toWorker : toWorker[i].op = "setRequestHandler"}
  IN IF sets = {} THEN installed
     ELSE toWorker[CHOOSE i \in sets : \A j \in sets : j <= i].handler

\* As far as one script goes, what is installed follows what it registered
\* last: no registration is lost or comes into force late, and none is left
\* behind by a script that has stopped.
InstalledFollows == \A s \in Scripts : settled = current[s]

\* The worker that waits for a handler is released, whatever the scripts do in
\* the meantime ("sem.release() will always be called", server.cpp:766).
RequestIsReleased == waiting # None ~> waiting = None

\* A handler comes into force unless it is replaced before.
HandlerTakesEffect ==
  \A s \in Scripts, h \in Handlers :
    current[s] = h ~> installed = h \/ current[s] # h

\* The two threads do not wait for each other: the event a request has queued
\* "is guaranteed to be delivered" (server.cpp:765).
EventIsDelivered == ~(blocked /\ waiting # None)
=============================================================================
