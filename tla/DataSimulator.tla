---------------------------- MODULE DataSimulator ----------------------------
(***************************************************************************)
(* The simulations of register values: which registers each one reserves, *)
(* and the single timer that runs all of them.                             *)
(*                                                                         *)
(* One device and one register type: simulations of different ones share   *)
(* the timer only.  Everything happens in the main thread; the timer fires *)
(* when it is due or later.  The clock is kept relative: an entry holds    *)
(* the time left until it is due, 0 when that has passed.                  *)
(***************************************************************************)
EXTENDS Integers, FiniteSets

CONSTANTS
  N,          \* addresses 0 .. N-1; the code's are 16 bits wide
  Lengths,    \* registers a data type takes (1, 2 or 4)
  Intervals,  \* intervals the dialogs accept, in ticks
  MergeFiles  \* whether project files are merged into the open project

ASSUME AddressAssumption == N \in Nat \ {0}
ASSUME LengthAssumption == Lengths \subseteq 1 .. N
ASSUME IntervalAssumption == Intervals \subseteq Nat \ {0}
ASSUME MergeAssumption == MergeFiles \in BOOLEAN

Addr == 0 .. N - 1

\* The modes that produce values (Random, Increment, Decrement, Toggle) are one.
Modes == {"Off", "Disabled", "Running"}

VARIABLES
  sim,   \* _simulationMap; an address without an entry has mode Off
  timer  \* time left on the single-shot timer, Stopped when it is not active

vars == <<sim, timer>>

Stopped == -1
Entry == [mode : Modes, length : Lengths \cup {1}, interval : Intervals \cup {0}, due : Nat]
NoEntry == [mode |-> "Off", length |-> 1, interval |-> 0, due |-> 0]

TypeOK ==
  /\ sim \in [Addr -> Entry]
  /\ timer \in Nat \cup {Stopped}

\* Addresses are quint16: the register after the last one is register 0.
reg(addr, i) == IF addr + i < N THEN addr + i ELSE addr + i - N
registers(addr, length) == {reg(addr, i) : i \in 0 .. length - 1}

running(addr) == sim[addr].mode = "Running"
hasSimulation(addr) == sim[addr].mode # "Off"

Init ==
  /\ sim = [addr \in Addr |-> NoEntry]
  /\ timer = Stopped

-----------------------------------------------------------------------------
(* The timer.                                                              *)

dues(map) == {map[addr].due : addr \in {a \in Addr : map[a].mode # "Off"}}

\* Bug: armed for the last simulation that is due.
scheduleNextRunLatest(map) ==
  \/ /\ dues(map) = {}
     /\ timer' = Stopped
  \/ \E due \in dues(map) :
       /\ \A other \in dues(map) : due >= other
       /\ timer' = due

\* Every entry counts, the reserved ones included, which are always due.
scheduleNextRun(map) ==
  \/ /\ dues(map) = {}
     /\ timer' = Stopped
  \/ \E due \in dues(map) :
       /\ \A other \in dues(map) : due <= other
       /\ timer' = due

\* Bug: a time that has passed is not taken for zero.
afterUnclamped(t) == IF t > 0 \/ timer = 0 THEN t - 1 ELSE t

after(t) == IF t > 0 THEN t - 1 ELSE t

Tick ==
  /\ sim' = [addr \in Addr |-> [sim[addr] EXCEPT !.due = after(@)]]
  /\ timer' = after(timer)

runsNow(addr) == running(addr) /\ sim[addr].due = 0 /\ sim[addr].interval > 0

\* Bug: the timer is left alone when nothing was due.
on_timeoutUnarmed ==
  LET map == [addr \in Addr |->
                IF runsNow(addr) THEN [sim[addr] EXCEPT !.due = sim[addr].interval] ELSE sim[addr]]
  IN /\ timer = 0
     /\ sim' = map
     /\ IF map = sim THEN timer' = Stopped ELSE scheduleNextRun(map)

on_timeout ==
  LET map == [addr \in Addr |->
                IF runsNow(addr) THEN [sim[addr] EXCEPT !.due = sim[addr].interval] ELSE sim[addr]]
  IN /\ timer = 0
     /\ sim' = map
     /\ scheduleNextRun(map)

-----------------------------------------------------------------------------
(* Starting and stopping, from the dialogs that write a register.          *)

\* An address that has a simulation of its own is always accepted.
canStartSimulation(addr, length) ==
  \/ sim[addr].mode \notin {"Off", "Disabled"}
  \/ \A i \in 1 .. length - 1 : ~hasSimulation(reg(addr, i))

\* Bug: the registers after the first are not reserved.
startedAlone(map, addr, length, interval) ==
  [map EXCEPT ![addr] = [mode |-> "Running", length |-> length, interval |-> interval, due |-> 0]]

\* The map after startSimulation: the first register runs, the others are
\* reserved, whatever was there before.
started(map, addr, length, interval) ==
  LET taken == registers(addr, length)
  IN [a \in Addr |->
        IF a \in taken
        THEN [mode |-> IF a = addr THEN "Running" ELSE "Disabled",
              length |-> length, interval |-> interval, due |-> 0]
        ELSE map[a]]

\* Bug: the button is enabled for a reserved register.
DialogStartReserved(addr, length, interval) ==
  /\ canStartSimulation(addr, length)
  /\ sim' = started(sim, addr, length, interval)
  /\ scheduleNextRun(sim')

\* The button is disabled for a reserved register and when canStartSimulation
\* says no.  Starting at an address in use replaces its simulation.
DialogStart(addr, length, interval) ==
  /\ sim[addr].mode # "Disabled"
  /\ canStartSimulation(addr, length)
  /\ sim' = started(sim, addr, length, interval)
  /\ scheduleNextRun(sim')

\* Mode set to Off and accepted: as many entries go as the entry's type has.
\* Without an entry nothing happens.
DialogStop(addr) ==
  /\ running(addr)
  /\ sim' = [a \in Addr |->
               IF a \in registers(addr, sim[addr].length) THEN NoEntry ELSE sim[a]]
  /\ scheduleNextRun(sim')

-----------------------------------------------------------------------------
(* Projects.  A file holds the running simulations of the project it was   *)
(* saved from; loading starts them in the order of their addresses without *)
(* asking canStartSimulation.                                              *)

Saved == [length : Lengths, interval : Intervals]
Files ==
  {file \in UNION {[s -> Saved] : s \in SUBSET Addr} :
     \A a, b \in DOMAIN file :
       a # b => registers(a, file[a].length) \cap registers(b, file[b].length) = {}}

covering(file, a) == {addr \in DOMAIN file : a \in registers(addr, file[addr].length)}

\* The last simulation started over a register is the one that is kept.
loaded(map, file) ==
  [a \in Addr |->
     IF covering(file, a) = {} THEN map[a]
     ELSE LET addr == CHOOSE x \in covering(file, a) : \A y \in covering(file, a) : y <= x
          IN started(map, addr, file[addr].length, file[addr].interval)[a]]

\* Closing the project stops the timer and forgets every simulation; no view
\* is told, they are closed as well.
CloseProject ==
  /\ sim' = [addr \in Addr |-> NoEntry]
  /\ timer' = Stopped

\* Opening a project closes the one that is open first; only a file dropped on
\* the window may be merged with simulations that are already there.
LoadProject(file) ==
  /\ MergeFiles \/ dues(sim) = {}
  /\ sim' = loaded(sim, file)
  /\ scheduleNextRun(sim')

-----------------------------------------------------------------------------
Next ==
  \/ Tick
  \/ on_timeout
  \/ \E addr \in Addr, length \in Lengths, interval \in Intervals :
       DialogStart(addr, length, interval)
  \/ \E addr \in Addr : DialogStop(addr)
  \/ CloseProject
  \/ \E file \in Files : LoadProject(file)

\* Time passes, and a timer that is due fires.
Fairness == WF_vars(Tick) /\ WF_vars(on_timeout)

Spec == Init /\ [][Next]_vars /\ Fairness

-----------------------------------------------------------------------------
\* Starts by dialogs and reloads never let two running simulations write the
\* same register, although canStartSimulation accepts every address in use and
\* loading does not ask it: what starting replaces and stopping removes has to
\* match what is reserved, around the last address too.
OneWriterPerRegister ==
  \A a, b \in Addr :
    running(a) /\ running(b) /\ a # b =>
      registers(a, sim[a].length) \cap registers(b, sim[b].length) = {}

\* What makes it inductive: the registers of a running simulation after its
\* first are reserved, none of them runs or is free.
FollowersReserved ==
  \A a \in Addr : running(a) =>
    \A i \in 1 .. sim[a].length - 1 : sim[reg(a, i)].mode = "Disabled"

\* As long as a simulation exists the timer is on, and it never fires later
\* than the first running simulation is due: the timer is shared, and every
\* start, stop, load and run has to leave it at the earliest of the others.
TimerCovers ==
  \A a \in Addr : running(a) => timer # Stopped /\ timer <= sim[a].due

\* A running simulation runs again and again until it is stopped, however the
\* user starts and stops the others.
RunsForever == \A a \in Addr : []<>(~running(a) \/ sim[a].due = sim[a].interval)
=============================================================================
