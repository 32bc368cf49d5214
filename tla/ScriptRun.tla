------------------------------- MODULE ScriptRun -------------------------------
(***************************************************************************)
(* One run of a script: its body, the timers it sets, and its end.         *)
(*                                                                         *)
(* Body and callbacks run in the main thread, one at a time.  What ends a  *)
(* run is always a posted event (Script::stopped and Script::idle are      *)
(* connected queued), delivered once the code that is executing returns    *)
(* and before the user or a timer is heard again.                          *)
(***************************************************************************)
EXTENDS Naturals, FiniteSets

CONSTANTS
  MaxTimers,  \* bound: timers set by a run
  MaxCalls    \* bound: calls of the Script object by a body or a callback

VARIABLES
  script,         \* whether _script exists
  mode,           \* RunMode of the run
  timers,         \* Script::_timers: the ids of the active ones
  repeating,      \* the ids that setInterval returned
  lastTimerId,
  idleConnected,  \* whether Script::idle ends the run
  periodic,       \* whether JScriptControl::_timer is active
  executing,      \* the body, the callback of a timer, or nothing
  first,          \* whether the body executes for the first time
  calls,          \* calls made by what is executing
  posted,         \* stopScript events posted
  asked           \* the user or the script has ended the run, or it failed

vars == <<script, mode, timers, repeating, lastTimerId, idleConnected, periodic,
          executing, first, calls, posted, asked>>

Body == 0
Nothing == MaxTimers + 1

Init ==
  /\ script = FALSE /\ mode = "Once"
  /\ timers = {} /\ repeating = {} /\ lastTimerId = 0
  /\ idleConnected = FALSE /\ periodic = FALSE
  /\ executing = Nothing /\ first = FALSE /\ calls = 0
  /\ posted = 0 /\ asked = FALSE

isRunning == periodic \/ timers # {}

\* The main thread is back in its event loop, and no event is left in it.
quiet == executing = Nothing /\ posted = 0

-----------------------------------------------------------------------------
(* Calls made by the script.                                               *)

Call == executing # Nothing /\ calls < MaxCalls /\ calls' = calls + 1

startTimer(singleShot) ==
  /\ Call /\ lastTimerId < MaxTimers
  /\ lastTimerId' = lastTimerId + 1
  /\ timers' = timers \cup {lastTimerId'}
  /\ repeating' = IF singleShot THEN repeating ELSE repeating \cup {lastTimerId'}
  /\ UNCHANGED <<script, mode, idleConnected, periodic, executing, first, posted, asked>>

\* An event is posted for a signal that has a connection.
idle(left) == IF left = {} /\ idleConnected THEN posted + 1 ELSE posted

removeTimer(id) ==
  /\ Call /\ id \in timers
  /\ timers' = timers \ {id}
  /\ posted' = idle(timers')
  /\ UNCHANGED <<script, mode, repeating, lastTimerId, idleConnected, periodic,
                 executing, first, asked>>

stop ==
  /\ Call
  /\ posted' = posted + 1 /\ asked' = TRUE
  /\ UNCHANGED <<script, mode, timers, repeating, lastTimerId, idleConnected, periodic,
                 executing, first>>

-----------------------------------------------------------------------------
(* Executing the body and the callbacks.                                   *)

runScript(m) ==
  /\ quiet /\ ~isRunning
  /\ script' = TRUE /\ mode' = m
  /\ timers' = {} /\ repeating' = {} /\ lastTimerId' = 0
  /\ idleConnected' = FALSE /\ asked' = FALSE
  /\ executing' = Body /\ first' = TRUE /\ calls' = 0
  /\ UNCHANGED <<periodic, posted>>

\* In Once mode a script without timers has ended, one with timers ends when it
\* becomes idle.
bodyReturns ==
  /\ executing = Body /\ executing' = Nothing
  /\ IF ~first THEN UNCHANGED <<idleConnected, periodic, posted>>
     ELSE IF mode = "Periodically"
          THEN periodic' = TRUE /\ UNCHANGED <<idleConnected, posted>>
          ELSE /\ idleConnected' = (timers # {})
               /\ posted' = IF timers = {} THEN posted + 1 ELSE posted
               /\ UNCHANGED periodic
  /\ UNCHANGED <<script, mode, timers, repeating, lastTimerId, first, calls, asked>>

bodyFails ==
  /\ executing = Body /\ executing' = Nothing
  /\ posted' = posted + 1 /\ asked' = TRUE
  /\ UNCHANGED <<script, mode, timers, repeating, lastTimerId, idleConnected, periodic,
                 first, calls>>

executeScript ==
  /\ quiet /\ periodic
  /\ executing' = Body /\ first' = FALSE /\ calls' = 0
  /\ UNCHANGED <<script, mode, timers, repeating, lastTimerId, idleConnected, periodic,
                 posted, asked>>

\* A single-shot timer is no longer pending while its function is called.
timeout(id) ==
  /\ quiet /\ id \in timers
  /\ timers' = IF id \in repeating THEN timers ELSE timers \ {id}
  /\ executing' = id /\ calls' = 0
  /\ UNCHANGED <<script, mode, repeating, lastTimerId, idleConnected, periodic, first,
                 posted, asked>>

callbackReturns ==
  /\ executing \in 1 .. MaxTimers /\ executing' = Nothing
  /\ posted' = IF executing \in repeating THEN posted ELSE idle(timers)
  /\ UNCHANGED <<script, mode, timers, repeating, lastTimerId, idleConnected, periodic,
                 first, calls, asked>>

-----------------------------------------------------------------------------
(* The end of a run.                                                       *)

stopScript ==
  /\ script' = FALSE
  /\ timers' = {} /\ repeating' = {}
  /\ idleConnected' = FALSE /\ periodic' = FALSE
  /\ UNCHANGED <<mode, lastTimerId, executing, first, calls>>

PostedStop ==
  /\ executing = Nothing /\ posted > 0
  /\ posted' = posted - 1
  /\ stopScript /\ UNCHANGED asked

UserStop ==
  /\ quiet /\ isRunning
  /\ stopScript /\ asked' = TRUE /\ UNCHANGED posted

Next ==
  \/ \E m \in {"Once", "Periodically"} : runScript(m)
  \/ \E singleShot \in BOOLEAN : startTimer(singleShot)
  \/ \E id \in 1 .. MaxTimers : removeTimer(id) \/ timeout(id)
  \/ stop \/ bodyReturns \/ bodyFails \/ callbackReturns
  \/ executeScript \/ PostedStop \/ UserStop

Spec == Init /\ [][Next]_vars

\* In Once mode a script keeps running until every timer it has set is over, unless
\* it asks for its end (JScriptControl::stopScript).
OnceRunsToTheEnd ==
  [][script /\ ~script' /\ mode = "Once" => timers = {} \/ asked']_vars
=============================================================================
