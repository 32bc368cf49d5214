# OpenModSim in TLA+

OpenModSim is a Modbus slave (server) simulator: one process serves Modbus/TCP,
Modbus RTU over TCP and serial RTU clients, while forms, data-map tables,
scripts and simulations show and change the same registers. This directory
holds a TLA+ model of the parts in which several actors meet or a long sequence
of legal steps may go wrong: the registers and their copies, the registration
of the views' ranges, the request handlers of scripts, the delayed responses of
the two TCP servers, the serial line and its sniffer, the simulations, the
timers of scripts, and the life of a project with its forms and files. TLC
checks the modules on small instances; TLAPS proves the theorems for every
instance.

All paths below are relative to the repository (`src/src/...` is the program).

## 1. The system

Two threads matter. The **main thread** runs the user interface, the scripts
and the simulations. The **worker thread** of `ModbusMultiServer` runs the
Modbus servers. Nearly every call of the multi-server from the main thread is a
`BlockingQueuedConnection`: the caller waits until the worker has run it. A
user event makes several such calls, and between two of them the worker may
serve clients.

    forms, rows, simulations, scripts            (main thread)
          |  blocking calls              ^  one queued event per request
          v                              |  (only with Server.onRequest)
    ModbusMultiServer: master maps, list of servers   (worker thread)
          |  setMap / setData copies     ^  dataWritten
          v                              |
    ModbusServer per connection: its own copy of every map
          |
    ModbusTcpServer / ModbusRtuTcpServer / ModbusRtuSerialServer: clients

### Components

| Component | State | Operations | Meets | Hard part | Correct when |
|---|---|---|---|---|---|
| Register map `ModbusDataUnitMap` | ranges per view, ranges added on request, a *local* copy over the merged range, a *global* copy over the address space, two flags | add / remove / ensure a range, read, write, clear, switch the flags | owned by the multi-server, copied into each server | two copies, either may be the served one; 16-bit lengths; gaps in the merged range | the copies agree; what is registered is served; gaps are refused |
| Multi-server `ModbusMultiServer` | master maps, counted unit ids, server list, definitions | register and release unit ids and ranges, connect, disconnect, set definitions, write, propagate client writes | views, scripts, simulations, every server | copies of maps follow writes, registrations and connections in any interleaving | the copies cannot be told from one register store; registrations are neither lost nor leaked |
| Server of a connection `ModbusServer` | copies of maps, unit ids, definitions | the Modbus function codes | clients, multi-server | write-then-read with a late refusal, registers added on request | an acknowledged write is visible everywhere |
| Data form `FormDataView` | unit id, range | open, define, move to another unit id, close | multi-server | one event is four calls | end state equals the registry |
| Data map `DataMapDataModel` | rows with unit id, address, type | add, move, delete, close | multi-server | order of release, removal and clearing | as above; a deleted register stays cleared |
| Script server object `jsobjects/server` | call state of each script, installed handler | `Server.onRequest`, reads and writes, destructor | worker thread, both ways | a stale handler, a request waiting for a thread that waits | no dead function runs; the worker is always released |
| Modbus/TCP server | sockets, buffers, list of delayed responses with a count and a limit, one timer | request loop, delay, flush, open, close | sockets, `ModbusServer` | one list for all clients, batches, limit, timer that is not restarted | each request is answered once, in time |
| Modbus RTU over TCP server | sockets, a response queue each, one timer | the same, per socket | the same | no transaction id: order is all a client has | answers come in the order of the requests |
| Data simulator | simulation or reservation per register, one timer | start, stop, run, load | dialogs, project files, multi-server | reservations of several registers, one timer for all | one writer per register; every simulation goes on running |
| Serial RTU server, sniffer | byte buffer, pairing of requests and responses, inter-frame time, idle timer, delayed replies | read, split, flush, switch mode, open, close | serial driver, bus master, other devices | chunks and pauses say little about frames; recovery after garbage | frames are reported whole with their direction; garbage costs nothing that follows |
| Project life cycle | forms, path, modified flag, project file | create, edit, close, reopen, delete, save, load, merge, exit | user, file system | nested dialogs, saving that fails, truncation in place, changes that set no flag | nothing that set the flag is lost unless the user gives it up |
| Forms on two panels | canonical windows, clones, parked forms, active panel | split, open, move, close, save, load | project file | a clone whose original is elsewhere | a project comes back with the forms it had |
| Run of a script | timers, periodic timer, posted ends | run, set and clear timers, stop | event loop | ends are posted and delivered later | a run ends when it should |
| Messages, error simulations, storage, console, dialogs, log, preferences | values and widgets | conversions, display | main thread | none of their own | not modelled (section 6) |

`PROJECT.json` lists every component with its sources, every hazard at its
line, and the lines each definition models.

## 2. The modules

### Registers and registrations

* **UnitMap** - `ModbusDataUnitMap` for one register type, as a record
  (`units` per view, `auto`, `local`, `global`, `isGlobal`, `wide`) with pure
  operators named after the methods. A range is the set of its addresses.
  `Width` stands for 65536, `Narrow` for 9999. The global copy has entries for
  `Stored`, one address fewer than `Points`, as the code allocates it; reads
  beyond it give 0. `InMergedRange` keeps the length of the merged range in
  16 bits (`% Width`), as the code does, so a length of `Width` becomes 0.
* **MultiServer** - one action per blocking call (`addUnitMap`, `removeUnitMap`,
  `addDeviceId`, `removeDeviceId`, `clearUnmappedData`, `setModbusDefinitions`,
  `setUseGlobalUnitMap`, `connectDevice`, `disconnectDevice`, ...) and one per
  kind of client request. The worker is single-threaded, so each is one step;
  a client's write includes everything `on_dataWritten` does before the reply.
  A user event of a view is the sequence `calls`; client requests and connection
  errors interleave with it, other user events wait for its end, because the
  main thread is blocked or busy.
* **RegisterStore** - the abstract promise: one value per mapped register,
  whatever connection or view reaches it. **MultiServerStore** gives the
  refinement mapping `storeBar`, the global copy of the master map at the
  registered addresses.
* **UnitMapProofs**, **MultiServerProofs** - what the operations of a map return
  and keep, and the theorems about registrations, copies and the refinement,
  one section per invariant.
* **MCMultiServer** - instances for TLC.

### Script handlers

* **ScriptHandler** - main thread and worker as two processes: queued
  `setRequestHandler` events (`toWorker`), the event a request posts
  (`waiting`, which is also the worker's `sem.acquire()`), the callback being
  run (`callback`), a blocking call (`blocked`). A script executes on its own
  event or inside its own callback, never while a call blocks. `Handlers` are
  the `JsCallState` objects; one that nothing refers to any more is free to be
  allocated again. `CallsAnyTime` is TRUE in the code; FALSE restricts the
  *environment* to blocking calls made while no handler is or will be
  installed, which isolates what the installation protocol itself adds.
* **ScriptHandlerProofs** - its theorems. `After` says what a queue of events
  leaves installed.
* **ScriptRun** - one run of a script: the body, `setTimeout` and `setInterval`
  timers, run modes Once and Periodically. Whatever ends a run is a posted call
  of `stopScript`. Body and callbacks may make any calls, up to `MaxCalls`, and
  posted calls are delivered before the user or a timer is heard, as Qt's event
  loop delivers posted events before it polls for new ones.

### Delayed responses

* **ResponseChannel** - the abstract promise of both servers: a request that was
  processed is answered once, on the connection it came from, unless that
  connection is gone; with `Ordered`, in the order of the requests.
* **RtuTcpResponses** - `ModbusRtuTcpServer`: a queue per socket, each response
  due no earlier than the one ahead of it, one timer for the heads of all
  queues. **RtuTcpProofs** has its theorems.
* **TcpResponses** - `ModbusTcpServer`: one list by due time, the count beside
  it, the limit with its "busy" answer, the request loop over a buffer (which
  is not interrupted by other events), the error simulations. The list is in due
  order, so what is due is a prefix of it (`dueBy`); what of it goes to one
  socket (`requestsTo`) is picked by rank among the places of that socket.
  **MCTcpResponses** gives the settings, **TcpProofs** has the theorems.

In both modules time is the number of milliseconds left, for the responses and for the timer
alike, and stops at 0: the code only compares due times with the present and
with each other. `Early` is how much too early a coarse `QTimer` may fire;
`timeout` is enabled from then on, and must find the timer restarted when
nothing was due yet.

### Serial line

* **SerialLine** - `ModbusRtuSerialServer` and `RtuSnifferParser`, with the bus
  around them: a master that sends requests to this port's device, to another
  device or to all, with retries; devices that answer; frames that lose their
  last byte; stray bytes. The line is the sequence of bytes sent so far, and
  since both buffers always hold the latest bytes read, a buffer is two
  positions in it (`head`, `got`). `on_readyRead` takes any chunk up to an end
  in `chunkEnds`, with any answer to "was there a silence before it". The
  checksum of some bytes matches when they are exactly an undamaged frame.
  `clean` says that so far nothing has come in a form that only a faulty line,
  a driver holding bytes back for longer than the idle delay, or a port set up
  in the middle of a frame produces. One round of the parser's loop is
  `nextFrame`, and `takeFrames` the state after as many rounds as the bytes have
  room for frames; a round that finds no frame changes nothing, so that is
  where the loop stops.
* **SerialLineProofs** - its theorems.

### Simulations

* **DataSimulator** - `DataSimulator` and what the dialogs and project files ask
  of it: an entry per register, the first register of a simulation `Running`,
  the others `Disabled`. Time is kept relative, as in the modules above. The
  user may start any type anywhere the dialog's button allows, again over a
  running simulation too; addresses wrap around as 16-bit ones do.
  **DataSimulatorProofs** has the theorems.

### Projects

* **ProjectLife** - `MainWindow`'s and `AppProject`'s handling of one project:
  forms with a version each, open or parked, path and modified flag, the modal
  dialogs as a state (`dialog`) with what is to go on afterwards (`next`), the
  project files on disk. A form changes by `edit`, which sets the flag
  (`definitionChanged`, `contentsChanged`, a renamed form), or by
  `editUnnoticed`, which does not: the rows of a data map but for clearing and
  adding on request, and the colours, data types and code pages of the other
  views have no connection to `markModified` although all of it is saved. The
  AutoMap (`syncAutoRequestMap`) appears without the flag as well. Both kinds of
  change happen while a dialog is shown, through requests and scripts. The
  variable `unnoticed` is history and has no counterpart in the code: the forms
  with changes that set no flag since the project was saved or loaded. Writing a
  file may be refused or fail half way, and the program may crash at any time.
  **MCProjectLife** gives the symmetry, **ProjectLifeProofs** the theorems.
* **ProjectForms** - the canonical windows, parked forms and clones of the split
  view, and `formsLoaded`, what saving and loading makes of each form.

Definitions marked "Bug:" are the mistakes the properties must detect; no action
uses them.

## 3. The runs

| Run | Module | Instance | Checks and shows |
|---|---|---|---|
| registry | MCMultiServer | 2 unit ids, 2 ports, 2 forms, 1 row, 3 addresses | `RegistryAgrees`, `NoOrphanRange`: no interleaving of the calls of opening, redefining, moving and closing views with requests, port changes and errors loses or leaks a unit id or a range |
| store | MCMultiServer | 1 unit id, 2 ports, a form and a row with a gap between their ranges, a script writing into the gap | `TypeOK`, `MasterCopiesAgree`, `ServersAgree`, `MappedIsServed`, `GapsAreRefused`, `IsRegisterStore`: in local mode the copies are one register store |
| definitions | MCMultiServer | 1 form, 2 ports, every setting (global map, add on request, narrow space), a script switching the global map | `AcknowledgedWriteIsVisible` |
| script | ScriptHandler | 1 script, 3 call states, 4 queued events | `InstalledFollows`, `EventIsDelivered`, `StaleHandlerSilent`, `RequestIsReleased`, `HandlerTakesEffect` |
| rtu_tcp | RtuTcpResponses | 2 sockets, 3 requests in flight, delays 0, 1 and 3, a timer 1 ms early | `TimerCovers`, `OnlyOpenQueues`, `EveryResponseLeaves`, `AnswersInOrder` |
| tcp | MCTcpResponses | 2 sockets, 3 requests, limit 2, batches of 2, no / fixed / random delay / no response | `CountIsExact`, `TimerCovers`, `EveryResponseLeaves`, `AnswersAreComplete` |
| simulator | DataSimulator | 5 addresses, values of 1, 2 and 4 registers | `TypeOK`, `OneWriterPerRegister`, `FollowersReserved`, `TimerCovers`, `RunsForever`: starting, stopping and loading in any order never gives a register two writers and never stops the others |
| project | MCProjectLife | a form and the AutoMap, 2 files, 2 versions | `TypeOK`, `UnmodifiedIsSaved`, `NoSilentLoss`: through failed saves, second dialogs, cancelling, merging and crashes no change that set the flag is lost; of those that set none (divergence 11) the properties claim nothing |
| serial | SerialLine | 2 devices, functions 3 and 6, 3 frames, 1 fault, 1 switch of mode or port | `TypeOK`, `FramesAreWhole`, `DirectionsAreRight`, `CaptureIsBounded`, `FrameAfterSilenceIsSeen`, `LeftoversAreReported` |
| blocking_calls | ScriptHandler | 1 script, `CallsAnyTime` | violates `EventIsDelivered` |
| forms | ProjectForms | a data view and the AutoMap | violates `RoundTripsForms` |
| script_once | ScriptRun | 2 timers, 2 calls per function | violates `OnceRunsToTheEnd` |

### What the violated runs show

Each states what a comment, a test or the documentation says of the program,
and the code does otherwise; `PROJECT.json` "findings" quotes the lines.

1. *blocking_calls*: the worker waits for the main thread to run a handler
   while the main thread waits in a blocking call, from a view or from the
   handler itself.
2. *forms*: a clone on the right panel is loaded by looking for its original on
   the left panel. When the original has been moved to the right or closed, the
   clone is loaded as a form of its own, and the project has one form more
   after every such round trip.
3. *script_once*: `clearInterval` of the last timer posts the end of a run in
   Once mode at once; a timer the same callback sets afterwards is lost.

### Known divergences without a run

Instances and settings of the runs above are chosen around these; each was
reproduced with the module named, by the change given.

1. MultiServer, run store with `UserDefs <- AllDefs` and add on request:
   `ensureRange` rebuilds a server's local copy from its global copy, which
   client writes never reach, so a register added on request returns others to
   older values (`modbusdataunitmap.cpp:146`; `ServersAgree` fails). The unit
   test of it writes through `setData`, which fills both copies.
2. MultiServer, views at the first and the last address: the length of the
   merged range, 65536, is cast to `quint16`; `isMapped` says yes and nothing is
   served (`modbusdataunitmap.cpp:594`; `MappedIsServed` fails).
3. MultiServer, deleting a row and then opening another port: the row's value
   was cleared in the master map only, and comes back from the first server
   (`modbusmultiserver.cpp:218`, `:409`), though the comment at `:215` says it
   should not.
4. ScriptHandler with two scripts: the destructor of any script's `Server`
   object removes whatever handler is installed (`jsobjects/server.cpp:63`).
   The run has one script, and the theorems that name any number of scripts
   claim nothing about this.
5. TcpResponses: with "no response" set, the loop returns after one request and
   leaves the rest of the buffer, which is answered once more data arrives and
   responses are on again (`modbustcpserver.cpp:172`, action `muteRequest`).
6. DataSimulator with `MergeFiles = TRUE`: a file merged into the open project
   starts its simulations without asking `canStartSimulation`, so a register may
   get two writers (`projectaddressspacexml.cpp:203`; `OneWriterPerRegister`
   fails in three states).
7. DataSimulator: starting a shorter value where a longer one runs leaves the
   rest of its registers reserved by nobody, and stopping does not free them,
   while `tests/test_datasimulator.cpp:137` expects the map to be empty after a
   stop. No property asks for it.
8. ProjectLife: deleting a parked form does not mark the project as modified
   (`projectformmanager.cpp:376`), and a merged file's path becomes that of a
   project without one (`appproject.cpp:585`).
9. MultiServer, run store with a script that writes two registers of which the
   servers hold one (`ScriptRanges` a range that starts at the last registered
   address): the master map takes the write, each server refuses all of it, and
   the register they do hold keeps its old value for clients while the views
   show the new one (`modbusmultiserver.cpp:1161`; `ServersAgree` fails).
10. TcpResponses with three sockets: `close()` drops the delayed responses, and
    its loop runs over the list that each disconnected socket leaves, so that a
    skipped client stays connected and is never answered
    (`modbustcpserver.cpp:389`; `AnswersAreComplete` fails in nine states).
11. ProjectLife: changes that are saved but set no modified flag. Rows of a data
    map added, inserted, deleted (`formdatamapview.cpp:1434`, `:1444`, `:1472`),
    coloured (`:948`), edited or moved (`datamapdatamodel.cpp`) emit no
    `definitionChanged`, which for data maps comes from `:1505` and `:1552` only
    and is all that `projectformmanager.cpp:287` connects; the same goes for the
    colours, the data type and the code page of a data view. The AutoMap is
    created without the flag (`appproject.cpp:182`). `confirmSaveOnClose` then
    asks nothing, and closing, loading or leaving loses the change. Without their
    exception for `unnoticed` forms `UnmodifiedIsSaved` fails in five states and
    `NoSilentLoss` in six. No run states it: nothing in the repository says which
    changes are to be asked about, except that the layout of the windows is not
    (`appproject.cpp:720`); moving a form to the other panel and reordering tabs
    do set the flag (`mainwindow.cpp:375`, `:1397`, `:1415`), against the comment
    there.

### Bounds and why they are enough

* Addresses: 3 or 4 points are the least that hold a view, a gap, another view,
  and the last address without a global entry; `Narrow = 1` puts a point on
  each side of the narrow space. Ranges are those of `UnitRanges`, `ReqRanges`,
  `ScriptRanges`; a client asks for a mapped range and for one across the gap
  or outside.
* Values 0 and 1: 0 is also the cleared value, so a stale, a cleared and a
  written register are told apart by one other value. Registry runs need none.
* Two ports, because the take-over and the propagation are between the first
  server and another; they are symmetric, as are rows that differ in nothing.
  Symmetry is used in runs without liveness only.
* One register type: types have separate ranges and copies in every map and no
  operation relates two of them, except that some function codes refuse a unit
  id without any register of the type (`checksType`).
* `MaxQueue` limits the events waiting for the worker and is the bound of the
  script's installations in a row. Three call states are the one in force, the
  one replaced and a new one.
* Three requests give two responses in one queue and one in another, or a list
  at its limit of 2 and one more. A request that is nowhere in the server may
  come again, so runs are not limited to three. Delays 0, 1, 3 (0, 1, 2 for
  TCP) cover at once, at the edge of an early timer, and later.
* DataSimulator: 5 addresses hold a value of 4 registers with one beside it, and
  make the longest one wrap around the end; all project files over them are
  tried, each as it may be saved (disjoint reservations). One interval: what is
  due first depends on when simulations were started.
* ProjectLife: the AutoMap and another form, so that one may be lost while another
  is kept, and two files, so that the project's own file and another one may be written, merged
  or destroyed. Versions 1 and 2 tell a saved form from one changed since. The definitions in a
  file are left out: loading it sets adding on request or not, as it may. A file
  merged into a project that has a path brings no AutoMap.
* SerialLine: three frames are what precedes, the frame in question and what
  follows, with one of them damaged or stray. Function 3 has requests and
  responses of different sizes, function 6 of one size. `MaxRtuAduSize` is the
  longest frame of the model, and garbage beyond it is reached with two frames.
  Chunks may end at the ends of frames, after 3 bytes (too few to be a frame)
  and at the end of what has been sent.
* ScriptRun: two timers and two calls per function are the least in which a
  timer is cleared and another one set.

### Fairness

* MultiServer: none, its properties are safety.
* ScriptHandler: strong fairness of `ProcessEvent`, since the worker's event
  loop takes queued events between any two requests although a request in
  progress disables them again and again; weak fairness of `RunHandler` and
  `HandlerReturns`, since the main event loop delivers what is posted and a
  script's function is assumed to return. A script that loops for ever keeps
  the worker waiting for ever; that is outside of the model.
* RtuTcpResponses: weak fairness of `Tick` and of a timer at 0: time goes on and
  the event loop delivers an expired timer. An *early* time-out is possible and
  never relied on.
* TcpResponses: weak fairness of the request loop, which runs to its end, and
  strong fairness of `Tick` and of the expired timer, which a buffer being
  processed disables now and then; between two socket events the loop always
  looks at its timers.
* DataSimulator: weak fairness of `Tick` and of `on_timeout`, for the same
  reasons. A simulation that is started again and again need not run, which
  `RunsForever` allows for: starting is one of the things that stop it.
* SerialLine: weak fairness of `on_snifferIdleTimeout`; new bytes that keep
  starting the timer again disable it only if they leave nothing behind.
* ProjectLife, ProjectForms, ScriptRun: none, safety only.
* New connections, requests, user events and script actions are never forced.

## 4. What is proved

Every proof is checked by TLAPS; none assumes more than the named assumptions on
the constants in the modules that declare them, and the hypotheses its
statement has. Where a theorem has a hypothesis, the property is false without
it, or says nothing there, and the reason is given below.

### Registers and registrations (UnitMapProofs, MultiServerProofs)

For any unit ids, ports, views, address widths, values and ranges:

* `TypeCorrect`: `Spec => []TypeOK`, one step per action. No operation, the
  take-over of a first server's values included, produces a map of another
  shape or a value from nowhere, and no view that is not open makes a call.
* `MappedAddressesAreServed`: `Within(Stored) => (Spec => []MappedIsServed)`, in
  every setting. The invariant is `Good`, that a local copy is present exactly
  on the merged range of what is registered, for the master maps and all
  copies. That it holds for maps everywhere is shown once for any set of maps
  that the operations do not leave (`Closed`, `MapsStay`, `StepStays`), and
  used three times. `Within(Stored)` keeps ranges off the last address:
  divergence 2 of section 3 is what happens with it.
* `AcknowledgedWritesAreVisible`: `Within(Addr) => (Spec =>
  AcknowledgedWriteIsVisible)`, in every setting: with a global map or local
  ones, registers added on request, a narrow space and any switching. The
  argument is that a server takes all of a write or serves none of its range,
  for which local copies have to be whole (`Good` again). `Within(Addr)` says
  that ranges end within the 16-bit address space.
* `GapsAreNeverServed`: `Spec => GapsAreRefused`, in every setting.
* `MasterMapsAgree`: `AlwaysWide => (Spec => []MasterCopiesAgree)`. Inductive
  with `TypeOK`. In the narrow space a rebuilt local copy shows 0 where the
  global copy keeps a value, hence `AlwaysWide`.
* `RegistryHolds`: `Spec => []Registry`, and from it `RegistrationsAgree` and
  `NoRangeIsOrphaned`, with no hypothesis. `RegistryAgrees` speaks of the
  moments between two user events only. `Registry` says what holds in the
  middle of one: there are places `held` and `owner` of the views, equal to
  `home` but for the view whose calls are under way, such that the counts are
  the numbers of views at each unit id (`Counted`), a range in a master map
  belongs to the view that owns it (`Owned`), and the calls that are left lead
  from there to `home` (`Left`); every server has the unit ids (`AddressesFollow`)
  and the ranges (`UnitsFollow`) of the master maps. Each call then is one case
  of `ToMove` or `ToClose` becoming another.
* `CopiesFollowWrites`: `LocalHyp => (Spec => []ServersAgree)`. The invariant
  `Local` joins all of the above: a copy of a map has what the master map has
  at each registered address (`Follows`), both have whole local copies, equal
  ranges, and a unit id without a master map has nothing registered anywhere
  (`Unknown`). The hard step is `connectDevice`, which writes what the first
  server holds into the master map and every other server (`TakeOverFollows`):
  it changes no register, because that server followed the master map before.
  `LocalHyp` is a conjunction of three conditions: no global map and nothing
  added on request (`LocalOnly`; in global mode local copies are not kept up
  by design, and divergence 1 is the other), ranges within the address space,
  and scripts whose writes do not cross the end of a range that a view may
  choose (`WholeWrites`; writes of one register never do, and divergence 9 is a
  write that does). That every registered range is one a view has chosen is an
  invariant of its own (`RangesGiven`). A write then lies within what a server
  has registered, and is taken, or names none of it (`TakenOrNothing`). The
  instance of the run store satisfies `LocalHyp`.
* `ImplementsRegisterStore`: `LocalHyp => (Spec => IsRegisterStore)`. Each
  action is a step of RegisterStore or changes nothing it can see
  (`StoreStep`): the calls of the views change what is mapped (`Remap`) and
  keep each register that stays registered, a new connection keeps all of them
  (`ConnectKeepsFollowing`), a write is a `Write` of its unit id, and a reply
  from a copy that follows is a `Read`. Read/Write Multiple Registers is a
  `Write` whose reply carries the values after it.

### Script handlers (ScriptHandlerProofs)

For any call states and any length of the worker's queue:

* `StaleHandlersAreSilent`: the function run for a request belongs to a running
  script and is its current one, for any number of scripts. It follows from
  `ActiveIsCurrent` - an active call state is the current one of its owner, and
  its owner runs - which every action preserves only together with the types.
* `NoMutualWait`: `~CallsAnyTime => (Spec => []EventIsDelivered)`. The
  strengthening `SafeCalls` says that a request waits for the installed handler
  only, and that while the main thread waits no handler is installed and no
  installation is queued. Together with the run blocking_calls: the deadlock
  comes from blocking calls while a handler is installed, and from nothing else
  in the protocol.
* `InstallationFollows`: `Scripts = {s} => (Spec => []InstalledFollows)`. What
  is installed in the end is what the last installation in the queue says
  (`After`); appending an installation makes it the last one (`AfterSet`),
  another event changes nothing (`AfterCall`), nor does taking the first event
  and carrying it out (`AfterTail`). With two scripts it is false (divergence 4).

### Delayed responses (RtuTcpProofs, TcpProofs)

For any sockets, requests, delays and limit:

* `TimerIsInTime`, `ClosedIsOwedNothing` (RtuTcpProofs): `TimerCovers` and
  `OnlyOpenQueues` for queues of any length. `TimerCovers` is not inductive:
  the timer is started for the heads only. The invariant `IInv` adds
  `QueuesInDueOrder`, which `enqueueResponse` keeps by chaining due times
  (`DueAtBounds`, `AppendInDueOrder`), a flush by sending a prefix
  (`TailInDueOrder`) and the clock because it is monotone (`TickIInv`).
* `AnswersComeInOrder` (RtuTcpProofs): `Spec => AnswersInOrder`, the refinement
  of the ordered ResponseChannel. `Flushed` shows that what is sent and what
  is left make up each queue; each step then serves its connections
  (`StepServes`), and `OnlyOpenQueues` gives the case of connections that close.
* `CountIsLength`, `ListIsBounded`, `TimerIsInTime` (TcpProofs): the counter is
  the length of the list, the list keeps its limit, and the timer is on and
  early enough. They need each other and the due order of the list, which an
  insertion keeps because what is due by a time is a prefix; and a buffer that
  is being processed is never empty (`BuffersOK`).
* `OnlyCloseDropsAnswers` (TcpProofs): for any number of clients, every step of
  the server is a step of the unordered ResponseChannel, except a `close` that
  leaves a client connected (`Skipping`). `AnswersComplete` is the refinement
  itself, `Spec => AnswersAreComplete`, for fewer than three sockets, with
  which `Skipping` is impossible; with three it is false (divergence 10). What
  the list owes a socket is the number of its places in it and the set of
  requests found there, which `requestsTo` lists exactly (`Ranks`,
  `ListsWhatIsOwed`) and which add up over two lists (`OwingJoined`). An
  insertion and a flush both are a list taken apart and put together again
  (`Split`). The invariant is the one above, with the socket being processed
  among the open ones (`ConnectionsOK`).

### Serial line (SerialLineProofs)

For any devices, functions, sizes of at least a frame, chunks, pauses and faults:

* `TypeCorrect`: `Spec => []TypeOK`. The invariant `Basics` adds that the frames
  are on the line, apart from each other and with the sizes of their functions
  (`FramesOnLine`), and that a request being answered is not a frame yet
  (`NotYetFrame`): without that nothing says what the parser makes of the bytes
  it has. `MatchCases` and `SizesOf` read off what `matchFrame` can find,
  `WholeMatches` and `MatchedIsFrame` that it finds a frame if and only if the
  bytes are one.
* The loop of `extractFrames` is a function of the number of rounds, so a fact
  about all rounds is a set of parser states that has the first one and with
  each state the next one (`Extracted`). `LoopEnds` shows that after as many
  rounds as `takeFrames` takes no whole frame is left at the head: each round
  takes at least four bytes. Each theorem below chooses its set.
* `CaptureBounded`: `Spec => []CaptureIsBounded`. The length test comes after
  the loop, so nothing about the loop is needed but that it only takes bytes.
* `SilenceSeparates`: `Spec => FrameAfterSilenceIsSeen`. A silence drops what
  is left before the frame is parsed, and then the frame is at the head
  (`SeenByCapture`, `SeenByServer`). No condition on what came before: damaged
  frames, noise, and switches of mode and port are all allowed.
* `WholeFrames`: `Spec => []FramesAreWhole`. The invariant `CleanCapture` says
  that on a line without faults the frames leave no byte between them
  (`Tiled`), that what a capture keeps begins where a frame begins
  (`Boundary`), and that it has reported all frames up to there (`WholeUpTo`).
  The hard case is a flush in the middle of a frame: what has begun is never
  long enough for one (`BegunIsShort`), and a driver that holds bytes back for
  the idle delay makes the line faulty.
* `RightDirections`: `Spec => []DirectionsAreRight`. Where request and response
  differ in size, their bytes tell them apart (`ToldApart`), on any line. Where
  they do not, `OrderKept` joins `CleanCapture` with `Paired` (on a line in order
  requests and responses alternate, and the master waits on the last one) and
  `CaptureInOrder` (the request the parser remembers is the one whose response
  is next); `DirectionTold` is the step from there to one frame.

### Simulations and projects (DataSimulatorProofs, ProjectLifeProofs)

* `TypeCorrect`, `TimerIsInTime` (DataSimulatorProofs): for any number of
  addresses, lengths and intervals.
* `ReservationsHold`, `OneWriter`: `FollowersReserved` and
  `OneWriterPerRegister`, both under `~MergeFiles` (divergence 6). The first is
  inductive with the types: `canStartSimulation` looks at the first register
  only, and that is enough because a reserved register is never started. The
  second follows from it.
* `TypeCorrect`, `UnmodifiedProjectIsSaved`, `NothingIsLostSilently`
  (ProjectLifeProofs): for any forms, files and versions; the last two speak of
  the changes that set the modified flag and say of no other that it is kept
  (divergence 11). The invariant adds
  that a path names a file that was written or read (`PathExists`), that an
  intact file opens forms it has (`FilesOK`), and, in the states between a
  dialog and what it was asked for, that the project to be discarded is empty
  or unmodified (`ToBeDiscarded`). It is that part that carries the user's
  answer over to the step that discards. That an AutoMap comes into being through
  definitions, loading and merging without changing another form is a lemma
  (`SyncResult`).

## 5. What is only model-checked

* Liveness - `RequestIsReleased`, `HandlerTakesEffect`, `EveryResponseLeaves`
  of both servers, `RunsForever`, `LeftoversAreReported` - and with it anything
  with ENABLED is outside of the prover.
* Checked by no run and proved by no theorem: `ServersAgree` for scripts that
  write across the end of a view's range, which holds where the merged range
  covers the write and fails where it does not (divergence 9), and for global
  maps. `MasterCopiesAgree` and `EventIsDelivered` are false without their
  hypotheses.

Every invariant and every action property of a passing run, and both refinements
of ResponseChannel and the one of RegisterStore, are stated by a theorem.

## 6. What is not modelled

* Inside the modelled parts: timestamps, descriptions and write sources per
  address, byte order, packing of bits, 32- and 64-bit values, diagnostics and
  file or FIFO function codes, the bytes of MBAP headers and CRCs. They change
  what a value looks like and not who sees it.
* Three or more TCP clients in `close()`: the loop runs over the list that each
  disconnected socket leaves, and which sockets it reaches is undefined in C++.
  The model has the choice of sockets that stay; the instance of the run has
  two sockets and does not meet it, the theorem `OnlyCloseDropsAnswers` does.
* A jump of the wall clock, which the due times use while the timer is
  monotonic.
* Data races on `useGlobalUnitMap`, `connections` and `getModbusDefinitions`,
  which the main thread reads without a lock; nothing the model contains
  depends on the value it gets.
* In the serial server: counters and the log of communication events, CRC
  arithmetic, port errors. A reply whose delay is over leaves in any order, and
  may leave on a port opened again; the model has both and states nothing.
* In the simulator: the values, and `pauseSimulations`, `resumeSimulations`,
  `restartSimulations`, which nothing calls. `FormDataView::on_dataSimulated`
  accepts one address more than the form shows (`formdataview.cpp:1220`); the
  write goes to the simulation's address all the same.
* In the project: XML, settings, comments, tab order, the user-state file with
  the layout of the windows; a later project of several dropped at once.
* The thread in which the last reference to a script's function is dropped
  (`jsobjects/server.h:170`), rows of a data map that share a key and so a
  registration (`datamapdatamodel.cpp:1000`), the settings a script and the
  user change in turn (`modbusmultiserver.cpp:143`), the refusal of a first
  request for a type nobody uses (`modbusserver.cpp:681`).
* Frames of the RTU over TCP server out of a byte stream.
* Messages, the error simulation flags themselves (their effect on replies is in
  TcpResponses and SerialLine), storage, console, the other dialogs,
  controls, logs and preferences: conversions and single-threaded user
  interface, the largest part of the sources by lines. Vendored Qt modules and
  generated parsers are not part of the inventory.

## 7. Plan

The modelling is done, and so are the proofs of all safety properties. What is
left to prove is `ServersAgree` under a hypothesis weaker than `WholeWrites`:
a write across the end of a view's range is taken by every server as long as
the merged range of all views covers it.

## 8. Running it

    tlasany MultiServer.tla
    tlc -workers 2 -config MCMultiServerStore.cfg MCMultiServer.tla
    tlc -workers 2 -config RtuTcpResponses.cfg RtuTcpResponses.tla
    tlc -workers 2 -config SerialLine.cfg SerialLine.tla
    tlapm RtuTcpProofs.tla
    tlapm MultiServerProofs.tla     # about three minutes
    tlapm SerialLineProofs.tla      # about three minutes
