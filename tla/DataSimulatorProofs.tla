------------------------- MODULE DataSimulatorProofs -------------------------
(***************************************************************************)
(* Theorems about the data simulator, for any number of addresses, any set *)
(* of lengths and intervals and any number of simulations.                 *)
(***************************************************************************)
EXTENDS DataSimulator, TLAPS

Maps == [Addr -> Entry]

-----------------------------------------------------------------------------
(* Addresses that wrap around.                                             *)

LEMMA LengthIsInt == \A length \in Lengths \cup {1} : length \in Nat /\ length >= 1 /\ length <= N
BY LengthAssumption, AddressAssumption

LEMMA EntryFields ==
  ASSUME NEW e \in Entry
  PROVE  /\ e.mode \in Modes /\ e.interval \in Nat /\ e.due \in Nat
         /\ e.length \in Lengths \cup {1} /\ e.length \in 1 .. N
         /\ e.interval \in Intervals \cup {0}
<1>1. /\ e.mode \in Modes /\ e.due \in Nat
      /\ e.length \in Lengths \cup {1} /\ e.interval \in Intervals \cup {0}
  BY DEF Entry
<1>2. e.length \in 1 .. N BY <1>1, LengthIsInt, AddressAssumption
<1>3. \A i \in Intervals \cup {0} : i \in Nat BY IntervalAssumption
<1>4. QED BY <1>1, <1>2, <1>3

LEMMA RegType ==
  ASSUME NEW a \in Addr, NEW i \in 0 .. N - 1
  PROVE  reg(a, i) \in Addr /\ reg(a, 0) = a
BY AddressAssumption DEF reg, Addr

LEMMA RegInjective ==
  ASSUME NEW a \in Addr, NEW b \in Addr, NEW i \in 0 .. N - 1, reg(a, i) = reg(b, i)
  PROVE  a = b
BY AddressAssumption DEF reg, Addr

\* Of two simulations that meet in a register, the one whose register it is
\* sooner starts in a register of the other.
LEMMA RegDifference ==
  ASSUME NEW a \in Addr, NEW b \in Addr, NEW i \in 0 .. N - 1, NEW j \in 0 .. N - 1,
         i <= j, reg(a, i) = reg(b, j)
  PROVE  a = reg(b, j - i)
BY AddressAssumption DEF reg, Addr

\* The registers of a simulation are its first and those after it.
LEMMA Registers ==
  ASSUME NEW a \in Addr, NEW length \in 1 .. N
  PROVE  /\ registers(a, length) \subseteq Addr
         /\ a \in registers(a, length)
         /\ \A b \in registers(a, length) : \E i \in 0 .. length - 1 :
              i \in 0 .. N - 1 /\ b = reg(a, i)
         /\ \A i \in 0 .. length - 1 : reg(a, i) \in registers(a, length)
<1>1. \A i \in 0 .. length - 1 : i \in 0 .. N - 1 BY AddressAssumption
<1>2. \A i \in 0 .. length - 1 : reg(a, i) \in Addr BY <1>1, RegType
<1>3. 0 \in 0 .. length - 1 /\ reg(a, 0) = a BY AddressAssumption, <1>1, RegType
<1>4. QED BY <1>1, <1>2, <1>3 DEF registers

-----------------------------------------------------------------------------
(* The timer.                                                              *)

\* The timer t is on and expires by the time a running simulation is due.
Covers(t, map) ==
  \A a \in Addr : map[a].mode = "Running" => t # Stopped /\ t <= map[a].due

LEMMA ScheduledTimer ==
  ASSUME NEW map \in Maps, scheduleNextRun(map)
  PROVE  timer' \in Nat \cup {Stopped} /\ Covers(timer', map)
<1>1. \A a \in Addr : map[a].due \in Nat BY EntryFields DEF Maps
<1>2. dues(map) \subseteq Nat BY <1>1 DEF dues
<1>3. \A a \in Addr : map[a].mode = "Running" => map[a].due \in dues(map) BY DEF dues
<1>4. CASE dues(map) = {} /\ timer' = Stopped BY <1>3, <1>4 DEF Covers
<1>5. CASE \E due \in dues(map) : (\A other \in dues(map) : due <= other) /\ timer' = due
  <2>1. timer' \in Nat /\ \A other \in dues(map) : timer' <= other BY <1>2, <1>5
  <2>2. timer' # Stopped BY <2>1 DEF Stopped
  <2>3. QED BY <1>3, <2>1, <2>2 DEF Covers
<1>6. QED BY <1>4, <1>5 DEF scheduleNextRun

-----------------------------------------------------------------------------
(* What the operations make of the map.                                    *)

LEMMA NoEntryType == NoEntry \in Entry
BY IntervalAssumption DEF NoEntry, Entry, Modes

LEMMA StartedType ==
  ASSUME NEW map \in Maps, NEW addr \in Addr, NEW length \in Lengths, NEW interval \in Intervals
  PROVE  started(map, addr, length, interval) \in Maps
BY DEF started, Maps, Entry, Modes

\* The registers of the simulations of a file are disjoint, so that at most one
\* of them covers a register and loading has no choice.
LEMMA FileType ==
  ASSUME NEW file \in Files
  PROVE  /\ DOMAIN file \subseteq Addr
         /\ \A x \in DOMAIN file : file[x].length \in Lengths /\ file[x].interval \in Intervals
         /\ \A x, y \in DOMAIN file : x # y =>
              registers(x, file[x].length) \cap registers(y, file[y].length) = {}
<1>1. PICK s \in SUBSET Addr : file \in [s -> Saved] BY DEF Files
<1>2. \A x \in s : file[x] \in Saved BY <1>1
<1>3. QED BY <1>1, <1>2 DEF Files, Saved

LEMMA LoadedEntry ==
  ASSUME NEW map \in Maps, NEW file \in Files, NEW a \in Addr
  PROVE  /\ covering(file, a) = {} => loaded(map, file)[a] = map[a]
         /\ \A x \in covering(file, a) :
              loaded(map, file)[a] = started(map, x, file[x].length, file[x].interval)[a]
<1>1. ASSUME NEW x \in covering(file, a)
      PROVE  covering(file, a) = {x}
  BY <1>1, FileType DEF covering
<1>2. ASSUME NEW x \in covering(file, a)
      PROVE  (CHOOSE y \in covering(file, a) : \A z \in covering(file, a) : z <= y) = x
  <2>1. x \in Int BY FileType DEF covering, Addr
  <2>2. covering(file, a) = {x} BY <1>1
  <2>3. x <= x BY <2>1
  <2>4. QED BY <2>2, <2>3
<1>3. QED BY <1>2 DEF loaded

LEMMA LoadedType ==
  ASSUME NEW map \in Maps, NEW file \in Files
  PROVE  loaded(map, file) \in Maps
<1>1. ASSUME NEW a \in Addr PROVE loaded(map, file)[a] \in Entry
  <2>1. CASE covering(file, a) = {} BY <2>1, LoadedEntry DEF Maps
  <2>2. ASSUME NEW x \in covering(file, a) PROVE loaded(map, file)[a] \in Entry
    <3>1. x \in Addr /\ file[x].length \in Lengths /\ file[x].interval \in Intervals
      BY FileType DEF covering
    <3>2. started(map, x, file[x].length, file[x].interval) \in Maps BY <3>1, StartedType
    <3>3. QED BY <3>2, LoadedEntry DEF Maps
  <2>3. QED BY <2>1, <2>2
<1>2. loaded(map, file) = [a \in Addr |-> loaded(map, file)[a]] BY DEF loaded
<1>3. QED BY <1>1, <1>2 DEF Maps

-----------------------------------------------------------------------------
(* Types.                                                                  *)

LEMMA InitType == Init => TypeOK
BY NoEntryType DEF Init, TypeOK

LEMMA AfterType ==
  ASSUME NEW t \in Nat \cup {Stopped}
  PROVE  after(t) \in Nat \cup {Stopped} /\ (t \in Nat => after(t) \in Nat /\ after(t) <= t)
BY DEF after, Stopped

LEMMA DialogStopMap ==
  ASSUME TypeOK, NEW addr \in Addr, DialogStop(addr)
  PROVE  sim' \in Maps
BY NoEntryType DEF TypeOK, DialogStop, Maps

LEMMA RunMap ==
  ASSUME TypeOK, on_timeout
  PROVE  /\ sim' \in Maps
         /\ \A a \in Addr : sim'[a].mode = sim[a].mode /\ sim'[a].length = sim[a].length
<1>1. ASSUME NEW a \in Addr
      PROVE  /\ sim'[a] \in Entry
             /\ sim'[a].mode = sim[a].mode /\ sim'[a].length = sim[a].length
  <2>1. sim[a] \in Entry /\ sim[a].interval \in Nat BY EntryFields DEF TypeOK
  <2>2. [sim[a] EXCEPT !.due = sim[a].interval] \in Entry BY <2>1 DEF Entry
  <2>3. sim'[a] = IF runsNow(a) THEN [sim[a] EXCEPT !.due = sim[a].interval] ELSE sim[a]
    BY DEF on_timeout
  <2>4. QED BY <2>1, <2>2, <2>3 DEF Entry
<1>2. sim' = [a \in Addr |-> sim'[a]] BY DEF on_timeout
<1>3. QED BY <1>1, <1>2 DEF Maps

LEMMA TickMap ==
  ASSUME TypeOK, Tick
  PROVE  /\ sim' \in Maps
         /\ \A a \in Addr : /\ sim'[a].mode = sim[a].mode
                             /\ sim'[a].length = sim[a].length
                             /\ sim'[a].due = after(sim[a].due)
<1>1. ASSUME NEW a \in Addr
      PROVE  /\ sim'[a] \in Entry
             /\ sim'[a].mode = sim[a].mode /\ sim'[a].length = sim[a].length
             /\ sim'[a].due = after(sim[a].due)
  <2>1. sim[a] \in Entry /\ sim[a].due \in Nat BY EntryFields DEF TypeOK
  <2>2. after(sim[a].due) \in Nat BY <2>1, AfterType
  <2>3. sim'[a] = [sim[a] EXCEPT !.due = after(@)] BY DEF Tick
  <2>4. QED BY <2>1, <2>2, <2>3 DEF Entry
<1>2. sim' = [a \in Addr |-> sim'[a]] BY DEF Tick
<1>3. QED BY <1>1, <1>2 DEF Maps

\* What every step but the passing of time leaves the timer at.
LEMMA StepTimer ==
  ASSUME TypeOK, Next, ~Tick
  PROVE  /\ sim' \in Maps
         /\ timer' \in Nat \cup {Stopped}
         /\ Covers(timer', sim')
<1>1. sim \in Maps BY DEF TypeOK, Maps
<1>2. CASE on_timeout
  <2>1. sim' \in Maps BY <1>2, RunMap
  <2>2. scheduleNextRun(sim') BY <1>2 DEF on_timeout
  <2>3. QED BY <2>1, <2>2, ScheduledTimer
<1>3. ASSUME NEW addr \in Addr, NEW length \in Lengths, NEW interval \in Intervals,
             DialogStart(addr, length, interval)
      PROVE  sim' \in Maps /\ timer' \in Nat \cup {Stopped} /\ Covers(timer', sim')
  <2>1. sim' \in Maps BY <1>1, <1>3, StartedType DEF DialogStart
  <2>2. QED BY <1>3, <2>1, ScheduledTimer DEF DialogStart
<1>4. ASSUME NEW addr \in Addr, DialogStop(addr)
      PROVE  sim' \in Maps /\ timer' \in Nat \cup {Stopped} /\ Covers(timer', sim')
  <2>1. sim' \in Maps BY <1>4, DialogStopMap
  <2>2. QED BY <1>4, <2>1, ScheduledTimer DEF DialogStop
<1>5. CASE CloseProject
  <2>1. sim' \in Maps BY <1>5, NoEntryType DEF CloseProject, Maps
  <2>2. Covers(timer', sim') BY <1>5 DEF CloseProject, Covers, NoEntry
  <2>3. QED BY <1>5, <2>1, <2>2 DEF CloseProject
<1>6. ASSUME NEW file \in Files, LoadProject(file)
      PROVE  sim' \in Maps /\ timer' \in Nat \cup {Stopped} /\ Covers(timer', sim')
  <2>1. sim' \in Maps BY <1>1, <1>6, LoadedType DEF LoadProject
  <2>2. QED BY <1>6, <2>1, ScheduledTimer DEF LoadProject
<1>7. QED BY <1>2, <1>3, <1>4, <1>5, <1>6 DEF Next

LEMMA NextType == TypeOK /\ [Next]_vars => TypeOK'
<1> SUFFICES ASSUME TypeOK, [Next]_vars PROVE TypeOK'
  OBVIOUS
<1>1. CASE Tick
  <2>1. sim' \in Maps BY <1>1, TickMap
  <2>2. timer' \in Nat \cup {Stopped} BY <1>1, AfterType DEF Tick, TypeOK
  <2>3. QED BY <2>1, <2>2 DEF TypeOK, Maps
<1>2. CASE Next /\ ~Tick BY <1>2, StepTimer DEF TypeOK, Maps
<1>3. CASE UNCHANGED vars BY <1>3 DEF TypeOK, vars
<1>4. QED BY <1>1, <1>2, <1>3

\* Whatever is started, stopped, loaded and run, an address has a well-formed
\* entry and the timer a time (startSimulation, stopSimulation,
\* scheduleNextRun in datasimulator.cpp).
THEOREM TypeCorrect == Spec => []TypeOK
<1>1. QED BY InitType, NextType, PTL DEF Spec

-----------------------------------------------------------------------------
(* The shared timer.                                                       *)

LEMMA NextCovers == TypeOK /\ TimerCovers /\ [Next]_vars => TimerCovers'
<1> SUFFICES ASSUME TypeOK, TimerCovers, [Next]_vars PROVE TimerCovers'
  OBVIOUS
<1>1. CASE Tick
  <2> SUFFICES ASSUME NEW a \in Addr, sim'[a].mode = "Running"
               PROVE  timer' # Stopped /\ timer' <= sim'[a].due
    BY DEF TimerCovers, running
  <2>1. sim[a].mode = "Running" /\ sim'[a].due = after(sim[a].due) BY <1>1, TickMap
  <2>2. timer # Stopped /\ timer <= sim[a].due BY <2>1 DEF TimerCovers, running
  <2>3. timer \in Nat /\ sim[a].due \in Nat BY <2>2, EntryFields DEF TypeOK
  <2>4. timer' = after(timer) BY <1>1 DEF Tick
  <2>5. QED BY <2>1, <2>2, <2>3, <2>4 DEF after, Stopped
<1>2. CASE Next /\ ~Tick
  <2>1. Covers(timer', sim') BY <1>2, StepTimer
  <2>2. QED BY <2>1 DEF Covers, TimerCovers, running
<1>3. CASE UNCHANGED vars BY <1>3 DEF TimerCovers, running, vars
<1>4. QED BY <1>1, <1>2, <1>3

\* The one timer that runs all simulations is on while one runs, and never set
\* for later than the first of them (scheduleNextRun in datasimulator.cpp).
THEOREM TimerIsInTime == Spec => []TimerCovers
<1>1. Init => TimerCovers BY DEF Init, TimerCovers, running, NoEntry
<1>2. QED BY <1>1, NextCovers, TypeCorrect, PTL DEF Spec

-----------------------------------------------------------------------------
(* Reservations.                                                           *)

Reserved(map) ==
  \A a \in Addr : map[a].mode = "Running" =>
    \A i \in 1 .. map[a].length - 1 : map[reg(a, i)].mode = "Disabled"

Disjoint(map) ==
  \A a, b \in Addr : map[a].mode = "Running" /\ map[b].mode = "Running" /\ a # b =>
    registers(a, map[a].length) \cap registers(b, map[b].length) = {}

\* Of two running simulations that shared a register one would start in a
\* reserved one.
LEMMA ReservedIsDisjoint ==
  ASSUME NEW map \in Maps, Reserved(map)
  PROVE  Disjoint(map)
<1>1. ASSUME NEW a \in Addr, NEW b \in Addr,
             map[a].mode = "Running", map[b].mode = "Running",
             NEW i \in 0 .. N - 1, NEW j \in 0 .. map[b].length - 1, i <= j,
             reg(a, i) = reg(b, j)
      PROVE  a = b
  <2>1. map[b].length \in 1 .. N BY EntryFields DEF Maps
  <2>2. j \in 0 .. N - 1 /\ j - i \in 0 .. map[b].length - 1 BY <1>1, <2>1, AddressAssumption
  <2>3. a = reg(b, j - i) BY <1>1, <2>2, RegDifference
  <2>4. CASE j - i = 0 BY <2>3, <2>4, RegType, AddressAssumption
  <2>5. CASE j - i # 0
    <3>1. j - i \in 1 .. map[b].length - 1 BY <2>1, <2>2, <2>5, AddressAssumption
    <3>2. map[a].mode = "Disabled" BY <1>1, <2>3, <3>1 DEF Reserved
    <3>3. QED BY <1>1, <3>2
  <2>6. QED BY <2>4, <2>5
<1>2. ASSUME NEW a \in Addr, NEW b \in Addr,
             map[a].mode = "Running", map[b].mode = "Running", NEW x,
             x \in registers(a, map[a].length), x \in registers(b, map[b].length)
      PROVE  a = b
  <2>1. map[a].length \in 1 .. N /\ map[b].length \in 1 .. N BY EntryFields DEF Maps
  <2>2. PICK i \in 0 .. map[a].length - 1 : i \in 0 .. N - 1 /\ x = reg(a, i)
    BY <1>2, <2>1, Registers
  <2>3. PICK j \in 0 .. map[b].length - 1 : j \in 0 .. N - 1 /\ x = reg(b, j)
    BY <1>2, <2>1, Registers
  <2>4. CASE i <= j BY <1>1, <1>2, <2>2, <2>3, <2>4
  <2>5. CASE j <= i BY <1>1, <1>2, <2>2, <2>3, <2>5
  <2>6. QED BY <2>1, <2>4, <2>5
<1>3. QED BY <1>2 DEF Disjoint

\* What is started becomes the only simulation of its registers.
LEMMA StartedReserves ==
  ASSUME NEW map \in Maps, NEW addr \in Addr, NEW length \in Lengths, NEW interval
  PROVE  LET new == started(map, addr, length, interval)
         IN /\ new[addr].mode = "Running" /\ new[addr].length = length
            /\ \A i \in 1 .. length - 1 : new[reg(addr, i)].mode = "Disabled"
            /\ \A a \in registers(addr, length) : a # addr => new[a].mode = "Disabled"
            /\ \A a \in Addr \ registers(addr, length) : new[a] = map[a]
<1>1. length \in 1 .. N BY LengthIsInt, AddressAssumption
<1>2. addr \in registers(addr, length) /\ registers(addr, length) \subseteq Addr
  BY <1>1, Registers
<1>3. ASSUME NEW i \in 1 .. length - 1
      PROVE  reg(addr, i) \in registers(addr, length) /\ reg(addr, i) # addr
  <2>1. i \in 0 .. length - 1 /\ i \in 1 .. N - 1 BY <1>1, AddressAssumption
  <2>2. reg(addr, i) # addr BY <2>1, AddressAssumption DEF reg, Addr
  <2>3. QED BY <1>1, <2>1, <2>2, Registers
<1>4. QED BY <1>2, <1>3 DEF started

LEMMA StartKeepsReserved ==
  ASSUME NEW map \in Maps, Reserved(map), NEW addr \in Addr, NEW length \in Lengths,
         NEW interval, map[addr].mode # "Disabled"
  PROVE  Reserved(started(map, addr, length, interval))
<1> DEFINE new == started(map, addr, length, interval)
<1>1. /\ new[addr].mode = "Running" /\ new[addr].length = length
      /\ \A i \in 1 .. length - 1 : new[reg(addr, i)].mode = "Disabled"
      /\ \A a \in registers(addr, length) : a # addr => new[a].mode = "Disabled"
      /\ \A a \in Addr \ registers(addr, length) : new[a] = map[a]
  BY StartedReserves
<1> HIDE DEF new
<1> SUFFICES ASSUME NEW a \in Addr, new[a].mode = "Running", NEW i \in 1 .. new[a].length - 1
             PROVE  new[reg(a, i)].mode = "Disabled"
  BY DEF Reserved, new
<1>2. CASE a = addr BY <1>1, <1>2
<1>3. CASE a # addr
  <2>1. a \notin registers(addr, length) BY <1>1, <1>3
  <2>2. new[a] = map[a] BY <1>1, <2>1
  <2>3. map[reg(a, i)].mode = "Disabled" BY <2>2 DEF Reserved
  <2>4. reg(a, i) # addr BY <2>3
  <2>5. map[a].length \in 1 .. N BY EntryFields DEF Maps
  <2>6. i \in 0 .. N - 1 BY <2>2, <2>5, AddressAssumption
  <2>7. reg(a, i) \in Addr BY <2>6, RegType
  <2>8. QED BY <1>1, <2>3, <2>4, <2>7
<1>4. QED BY <1>2, <1>3

LEMMA StopKeepsReserved ==
  ASSUME TypeOK, Reserved(sim), NEW addr \in Addr, DialogStop(addr)
  PROVE  Reserved(sim')
<1>1. sim \in Maps BY DEF TypeOK, Maps
<1>2. Disjoint(sim) /\ sim[addr].mode = "Running"
  BY <1>1, ReservedIsDisjoint DEF DialogStop, running
<1>3. sim' = [a \in Addr |->
               IF a \in registers(addr, sim[addr].length) THEN NoEntry ELSE sim[a]]
  BY DEF DialogStop
<1> SUFFICES ASSUME NEW a \in Addr, sim'[a].mode = "Running", NEW i \in 1 .. sim'[a].length - 1
             PROVE  sim'[reg(a, i)].mode = "Disabled"
  BY DEF Reserved
<1>4. a \notin registers(addr, sim[addr].length) /\ sim'[a] = sim[a] BY <1>3 DEF NoEntry
<1>5. sim[a].length \in 1 .. N /\ sim[addr].length \in 1 .. N BY <1>1, EntryFields DEF Maps
<1>6. i \in 0 .. N - 1 /\ i \in 0 .. sim[a].length - 1 BY <1>4, <1>5, AddressAssumption
<1>7. reg(a, i) \in Addr /\ reg(a, i) \in registers(a, sim[a].length)
  BY <1>5, <1>6, RegType, Registers
<1>8. a # addr BY <1>4, <1>5, Registers
<1>9. registers(a, sim[a].length) \cap registers(addr, sim[addr].length) = {}
  BY <1>2, <1>4, <1>8 DEF Disjoint
<1>10. sim'[reg(a, i)] = sim[reg(a, i)] BY <1>3, <1>7, <1>9
<1>11. QED BY <1>4, <1>10 DEF Reserved

\* A file loaded where nothing runs brings its own reservations.
LEMMA LoadReserves ==
  ASSUME NEW map \in Maps, NEW file \in Files, \A a \in Addr : map[a].mode # "Running"
  PROVE  Reserved(loaded(map, file))
<1> DEFINE new == loaded(map, file)
<1> SUFFICES ASSUME NEW a \in Addr, new[a].mode = "Running", NEW i \in 1 .. new[a].length - 1
             PROVE  new[reg(a, i)].mode = "Disabled"
  BY DEF Reserved
<1>1. covering(file, a) # {} BY LoadedEntry
<1>2. PICK x \in covering(file, a) : TRUE BY <1>1
<1>3. /\ x \in DOMAIN file /\ x \in Addr /\ a \in registers(x, file[x].length)
      /\ file[x].length \in Lengths /\ file[x].interval \in Intervals
  BY <1>2, FileType DEF covering
<1> DEFINE run == started(map, x, file[x].length, file[x].interval)
<1>4. new[a] = run[a] BY <1>2, LoadedEntry
<1>5. /\ run[x].length = file[x].length
      /\ \A j \in 1 .. file[x].length - 1 : run[reg(x, j)].mode = "Disabled"
      /\ \A b \in registers(x, file[x].length) : b # x => run[b].mode = "Disabled"
  BY <1>3, StartedReserves
<1> HIDE DEF new, run
<1>6. a = x BY <1>3, <1>4, <1>5
<1>7. i \in 1 .. file[x].length - 1 BY <1>4, <1>5, <1>6
<1>8. file[x].length \in 1 .. N BY <1>3, LengthIsInt, AddressAssumption
<1>9. i \in 0 .. N - 1 /\ i \in 0 .. file[x].length - 1 BY <1>7, <1>8, AddressAssumption
<1>10. reg(x, i) \in Addr /\ reg(x, i) \in registers(x, file[x].length)
  BY <1>3, <1>8, <1>9, RegType, Registers
<1>11. x \in covering(file, reg(x, i)) BY <1>3, <1>10 DEF covering
<1>12. new[reg(x, i)] = run[reg(x, i)] BY <1>10, <1>11, LoadedEntry DEF new, run
<1>13. QED BY <1>5, <1>6, <1>7, <1>12

LEMMA NextReserved ==
  ASSUME ~MergeFiles, TypeOK, FollowersReserved, [Next]_vars
  PROVE  FollowersReserved'
<1>1. Reserved(sim) /\ sim \in Maps BY DEF FollowersReserved, Reserved, running, TypeOK, Maps
<1>2. SUFFICES Reserved(sim') BY DEF FollowersReserved, Reserved, running
<1>3. ASSUME \A a \in Addr : sim'[a].mode = sim[a].mode /\ sim'[a].length = sim[a].length
      PROVE  Reserved(sim')
  <2> SUFFICES ASSUME NEW a \in Addr, sim'[a].mode = "Running", NEW i \in 1 .. sim'[a].length - 1
               PROVE  sim'[reg(a, i)].mode = "Disabled"
    BY DEF Reserved
  <2>1. sim[a].length \in 1 .. N BY <1>1, EntryFields DEF Maps
  <2>2. i \in 1 .. sim[a].length - 1 /\ i \in 0 .. N - 1 BY <1>3, <2>1, AddressAssumption
  <2>3. reg(a, i) \in Addr BY <2>2, RegType
  <2>4. sim[reg(a, i)].mode = "Disabled" BY <1>1, <1>3, <2>2 DEF Reserved
  <2>5. QED BY <1>3, <2>3, <2>4
<1>4. CASE Tick BY <1>3, <1>4, TickMap
<1>5. CASE on_timeout BY <1>3, <1>5, RunMap
<1>6. ASSUME NEW addr \in Addr, NEW length \in Lengths, NEW interval \in Intervals,
             DialogStart(addr, length, interval)
      PROVE  Reserved(sim')
  BY <1>1, <1>6, StartKeepsReserved DEF DialogStart
<1>7. ASSUME NEW addr \in Addr, DialogStop(addr)
      PROVE  Reserved(sim')
  BY <1>1, <1>7, StopKeepsReserved
<1>8. CASE CloseProject BY <1>8 DEF CloseProject, Reserved, NoEntry
<1>9. ASSUME NEW file \in Files, LoadProject(file)
      PROVE  Reserved(sim')
  <2>1. dues(sim) = {} BY <1>9 DEF LoadProject
  <2>2. \A a \in Addr : sim[a].mode # "Running" BY <2>1 DEF dues
  <2>3. QED BY <1>1, <1>9, <2>2, LoadReserves DEF LoadProject
<1>10. CASE UNCHANGED vars BY <1>1, <1>10 DEF vars
<1>11. QED BY <1>4, <1>5, <1>6, <1>7, <1>8, <1>9, <1>10 DEF Next

\* Unless project files are merged, the registers of a running simulation stay
\* reserved for it, whatever else is started and stopped around it
\* (startSimulation and stopSimulation in datasimulator.cpp).
THEOREM ReservationsHold == ~MergeFiles => (Spec => []FollowersReserved)
<1> SUFFICES ASSUME ~MergeFiles PROVE Spec => []FollowersReserved
  OBVIOUS
<1>1. Init => FollowersReserved BY DEF Init, FollowersReserved, running, NoEntry
<1>2. TypeOK /\ FollowersReserved /\ [Next]_vars => FollowersReserved'
  BY NextReserved
<1>3. QED BY <1>1, <1>2, TypeCorrect, PTL DEF Spec

\* Unless project files are merged, no register is written by two running
\* simulations, although canStartSimulation lets a longer one start over an
\* address that has one already (datasimulator.cpp).
THEOREM OneWriter == ~MergeFiles => (Spec => []OneWriterPerRegister)
<1> SUFFICES ASSUME ~MergeFiles PROVE Spec => []OneWriterPerRegister
  OBVIOUS
<1>1. TypeOK /\ FollowersReserved => OneWriterPerRegister
  <2> SUFFICES ASSUME TypeOK, FollowersReserved PROVE OneWriterPerRegister
    OBVIOUS
  <2>1. sim \in Maps /\ Reserved(sim) BY DEF TypeOK, FollowersReserved, running, Reserved, Maps
  <2>2. Disjoint(sim) BY <2>1, ReservedIsDisjoint
  <2>3. QED BY <2>2 DEF Disjoint, OneWriterPerRegister, running
<1>2. Spec => []FollowersReserved BY ReservationsHold
<1>3. QED BY <1>1, <1>2, TypeCorrect, PTL
=============================================================================
