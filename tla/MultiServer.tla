----------------------------- MODULE MultiServer -----------------------------
(***************************************************************************)
(* ModbusMultiServer and the ModbusServer of each connection, with the     *)
(* views that register their ranges and the Modbus clients that read and   *)
(* write.                                                                  *)
(*                                                                         *)
(* The master maps belong to ModbusMultiServer; every connection's server  *)
(* answers from a COPY of them.  All of this runs on one worker thread, so *)
(* a call or a request is one step.  The views live in the main thread and *)
(* make one blocking call after the other: between two calls of one user   *)
(* event the worker may serve clients (the sequence calls), while other    *)
(* user events wait until the event is over.                               *)
(***************************************************************************)
EXTENDS UnitMap, Sequences

CONSTANTS
  Devs, NoDev,   \* Modbus unit ids; NoDev: a view that is not open
  FirstDev,      \* the unit id every new form starts with
  Conns,         \* connections (ports); each has at most one server
  Forms,         \* the ids used by data forms; the others are data-map rows
  UnitRanges,    \* ranges a view registers
  ReqRanges,     \* ranges a client or a view reads or writes
  ScriptRanges,  \* ranges a script writes wherever it likes
  UserDefs,      \* definitions the user may choose
  GlobalChoices  \* values a script may give to Server.useGlobalUnitMap

ASSUME DevsAssumption == FirstDev \in Devs /\ NoDev \notin Devs
ASSUME FormsAssumption == Forms \subseteq Ids
ASSUME RangesAssumption ==
  UnitRanges \cup ReqRanges \cup ScriptRanges \subseteq (SUBSET Points) \ {{}}

Definitions == [useGlobal : BOOLEAN, autoAdd : BOOLEAN, wide : BOOLEAN]
DefaultDefinitions == [useGlobal |-> FALSE, autoAdd |-> FALSE, wide |-> TRUE]

\* A map with the flags the definitions df prescribe.
flagged(m, df) == [m EXCEPT !.isGlobal = df.useGlobal, !.wide = df.wide]

ASSUME DefsAssumption == UserDefs \subseteq Definitions /\ GlobalChoices \subseteq BOOLEAN

Rows == Ids \ Forms

VARIABLES
  master,  \* _modbusDataUnitMaps, the empty map where there is none
  known,   \* the unit ids _modbusDataUnitMaps has an entry for
  refs,    \* _deviceIds, a counted set
  list,    \* _modbusServerList
  online,  \* connections whose server is in ConnectedState
  saddr,   \* _serverAddresses of each server
  smap,    \* _modbusDataUnitMaps of each server
  defs,    \* _definitions
  home,    \* the unit id a view has registered with
  calls,   \* the calls the current user event has still to make
  answer   \* the unit id and values of the last reply to a client

vars == <<master, known, refs, list, online, saddr, smap, defs, home, calls, answer>>
core == <<master, known, smap>>
setup == <<refs, list, online, saddr, defs>>

\* What a reply carried, at the addresses that have a global entry.
NoValues == [a \in Stored |-> Absent]
Answers == [dev : Devs \cup {NoDev}, values : [Stored -> Vals \cup {Absent}]]
NoAnswer == [dev |-> NoDev, values |-> NoValues]

Calls ==
  [op : {"addDeviceId", "removeDeviceId"}, dev : Devs]
  \cup [op : {"addUnitMap"}, id : Ids, dev : Devs, range : SUBSET Points]
  \cup [op : {"removeUnitMap"}, id : Ids, dev : Devs]
  \cup [op : {"clearUnmappedData"}, dev : Devs, range : SUBSET Points]

listed == {list[i] : i \in DOMAIN list}
deviceIds == {d \in Devs : refs[d] > 0}

TypeOK ==
  /\ master \in [Devs -> Maps]
  /\ known \subseteq Devs
  /\ refs \in [Devs -> Nat]
  /\ list \in Seq(Conns)
  /\ online \subseteq listed
  /\ saddr \in [Conns -> SUBSET Devs]
  /\ smap \in [Conns -> [Devs -> Maps]]
  /\ defs \in Definitions
  /\ home \in [Ids -> Devs \cup {NoDev}]
  /\ calls \in Seq(Calls)
  /\ answer \in Answers

Init ==
  /\ master = [d \in Devs |-> EmptyMap]
  /\ known = {}
  /\ refs = [d \in Devs |-> 0]
  /\ list = <<>>
  /\ online = {}
  /\ saddr = [s \in Conns |-> {}]
  /\ smap = [s \in Conns |-> [d \in Devs |-> EmptyMap]]
  /\ defs = DefaultDefinitions
  /\ home = [i \in Ids |-> NoDev]
  /\ calls = <<>>
  /\ answer = NoAnswer

-----------------------------------------------------------------------------
(* One server's access to its copy of a map, under the definitions df.     *)

\* Add on request: the range is registered unless it is covered.
ensureAutoAddRange(df, m, r) ==
  IF df.autoAdd /\ r # {}
  THEN ensureRange(flagged(m, df), r)
  ELSE m

\* Gaps are refused to client requests only.
accepts(m, r, inRequest) == Holds(m, r) /\ (inRequest => isMapped(m, r))

writeData(df, m, data, inRequest) ==
  LET e == ensureAutoAddRange(df, m, DOMAIN data)
  IN IF accepts(e, DOMAIN data, inRequest) THEN writeServed(e, data) ELSE e

\* Bug: only the first server of the list hears of a write.
writeFirst(maps, d, data, serving) ==
  [s \in Conns |-> IF list # <<>> /\ s = list[1]
                   THEN [maps[s] EXCEPT ![d] = writeData(defs, @, data, s \in serving)]
                   ELSE maps[s]]

\* A write reaches every listed server; one that is serving a request still
\* applies the rules for requests.
writeAll(maps, d, data, serving) ==
  [s \in Conns |-> IF s \in listed
                   THEN [maps[s] EXCEPT ![d] = writeData(defs, @, data, s \in serving)]
                   ELSE maps[s]]

-----------------------------------------------------------------------------
(* The calls of the main thread, run by the worker.                        *)

\* Every listed server gets a fresh copy for each of its addresses; an
\* address without a master map gets an empty one.
reconfigureServers(maps, keys) ==
  /\ master' = maps
  /\ known' = keys \cup UNION {saddr[s] : s \in listed}
  /\ smap' = [s \in Conns |-> [d \in Devs |->
                IF s \in listed /\ d \in saddr[s] THEN maps[d] ELSE smap[s][d]]]

addDeviceId(d) ==
  /\ refs' = [refs EXCEPT ![d] = @ + 1]
  /\ saddr' = [s \in Conns |-> IF s \in listed /\ refs[d] = 0
                               THEN saddr[s] \cup {d} ELSE saddr[s]]
  /\ UNCHANGED <<core, list, online, defs>>

\* Bug: the uses of a unit id are not counted.
removeDeviceIdUncounted(d) ==
  /\ refs' = [refs EXCEPT ![d] = 0]
  /\ saddr' = [s \in Conns |-> IF s \in listed THEN saddr[s] \ {d} ELSE saddr[s]]
  /\ smap' = [s \in Conns |-> IF s \in listed THEN [smap[s] EXCEPT ![d] = EmptyMap]
                              ELSE smap[s]]
  /\ UNCHANGED <<master, known, list, online, defs>>

\* The last release of a unit id takes it, and its map, from every server.
removeDeviceId(d) ==
  /\ refs' = [refs EXCEPT ![d] = IF @ = 0 THEN 0 ELSE @ - 1]
  /\ saddr' = [s \in Conns |-> IF s \in listed /\ refs[d] = 1
                               THEN saddr[s] \ {d} ELSE saddr[s]]
  /\ smap' = [s \in Conns |-> IF s \in listed /\ refs[d] = 1
                              THEN [smap[s] EXCEPT ![d] = EmptyMap] ELSE smap[s]]
  /\ UNCHANGED <<master, known, list, online, defs>>

\* A map that exists already keeps the flags it has.
addUnitMap(id, d, r) ==
  LET m == IF d \in known THEN master[d]
           ELSE flagged(EmptyMap, defs)
  IN /\ reconfigureServers([master EXCEPT ![d] = addUnit(m, id, r)], known \cup {d})
     /\ UNCHANGED setup

removeUnitMap(id, d) ==
  /\ reconfigureServers([master EXCEPT ![d] = removeUnit(@, id)], known \cup {d})
  /\ UNCHANGED setup

\* The servers are not told.
clearUnmappedData(d, r) ==
  /\ master' = IF d \in known THEN [master EXCEPT ![d] = clearUnmapped(@, r)] ELSE master
  /\ UNCHANGED <<known, smap, setup>>

Run(c) ==
  \/ c.op = "addDeviceId" /\ addDeviceId(c.dev)
  \/ c.op = "removeDeviceId" /\ removeDeviceId(c.dev)
  \/ c.op = "addUnitMap" /\ addUnitMap(c.id, c.dev, c.range)
  \/ c.op = "removeUnitMap" /\ removeUnitMap(c.id, c.dev)
  \/ c.op = "clearUnmappedData" /\ clearUnmappedData(c.dev, c.range)

Call ==
  /\ calls # <<>>
  /\ calls' = Tail(calls)
  /\ Run(Head(calls))
  /\ UNCHANGED <<home, answer>>

-----------------------------------------------------------------------------
(* User events: the calls each of them makes, in order.                    *)

CallAddDevice(d) == [op |-> "addDeviceId", dev |-> d]
CallRemoveDevice(d) == [op |-> "removeDeviceId", dev |-> d]
CallAddUnit(id, d, r) == [op |-> "addUnitMap", id |-> id, dev |-> d, range |-> r]
CallRemoveUnit(id, d) == [op |-> "removeUnitMap", id |-> id, dev |-> d]
CallClear(d, r) == [op |-> "clearUnmappedData", dev |-> d, range |-> r]

Event(id, d, todo) ==
  /\ calls = <<>>
  /\ calls' = todo
  /\ home' = [home EXCEPT ![id] = d]
  /\ UNCHANGED <<core, setup, answer>>

registered(id) == home[id] # NoDev /\ master[home[id]].units[id] # {}
rangeOf(id) == master[home[id]].units[id]

\* A new form takes a reference to the default unit id at once and registers
\* its range when its definition is set.
OpenForm(id) ==
  /\ id \in Forms
  /\ home[id] = NoDev
  /\ Event(id, FirstDev, <<CallAddDevice(FirstDev)>>)

\* The range of a form or the number of registers of a row changes.
Define(id, r) ==
  /\ home[id] # NoDev
  /\ Event(id, home[id], <<CallAddUnit(id, home[id], r)>>)

\* Bug: the range stays registered with the old unit id.
ChangeFormDeviceKeepingRange(id, d) ==
  /\ id \in Forms
  /\ registered(id)
  /\ d # home[id]
  /\ Event(id, d, <<CallRemoveDevice(home[id]), CallAddDevice(d),
                    CallAddUnit(id, d, rangeOf(id))>>)

ChangeFormDevice(id, d) ==
  /\ id \in Forms
  /\ registered(id)
  /\ d # home[id]
  /\ Event(id, d, <<CallRemoveUnit(id, home[id]), CallRemoveDevice(home[id]),
                    CallAddDevice(d), CallAddUnit(id, d, rangeOf(id))>>)

CloseForm(id) ==
  /\ id \in Forms
  /\ home[id] # NoDev
  /\ Event(id, NoDev, <<CallRemoveDevice(home[id]), CallRemoveUnit(id, home[id])>>)

AddRow(id, d, r) ==
  /\ id \in Rows
  /\ home[id] = NoDev
  /\ Event(id, d, <<CallAddDevice(d), CallAddUnit(id, d, r)>>)

\* The unit id or the address of a row changes.
MoveRow(id, d, r) ==
  /\ id \in Rows
  /\ home[id] # NoDev
  /\ <<d, r>> # <<home[id], rangeOf(id)>>
  /\ Event(id, d, <<CallRemoveUnit(id, home[id]), CallRemoveDevice(home[id]),
                    CallAddDevice(d), CallAddUnit(id, d, r)>>)

\* A row that is deleted clears its registers, one whose view is closed does
\* not.
RemoveRow(id) ==
  /\ id \in Rows
  /\ home[id] # NoDev
  /\ Event(id, NoDev, <<CallRemoveUnit(id, home[id]), CallRemoveDevice(home[id]),
                        CallClear(home[id], rangeOf(id))>>)

CloseRow(id) ==
  /\ id \in Rows
  /\ home[id] # NoDev
  /\ Event(id, NoDev, <<CallRemoveUnit(id, home[id]), CallRemoveDevice(home[id])>>)

UserEvent ==
  \E id \in Ids :
    \/ OpenForm(id)
    \/ \E r \in UnitRanges : Define(id, r)
    \/ \E d \in Devs : ChangeFormDevice(id, d)
    \/ CloseForm(id)
    \/ \E d \in Devs, r \in UnitRanges : AddRow(id, d, r)
    \/ \E d \in Devs, r \in UnitRanges : MoveRow(id, d, r)
    \/ RemoveRow(id)
    \/ CloseRow(id)

-----------------------------------------------------------------------------
(* User events of one call: the call is the step.                          *)

\* A write by a view, a script or a simulation (ModbusMultiServer::setData
\* with a source other than ModbusClient): unknown unit ids are reported,
\* data the master map has already is not written again, and what a server
\* refuses is not undone anywhere.
setDataLocally(d, data) ==
  /\ calls = <<>>
  /\ d \in known
  /\ getData(master[d], DOMAIN data) # data
  /\ master' = [master EXCEPT ![d] = setData(@, data)]
  /\ smap' = writeAll(smap, d, data, {})
  /\ UNCHANGED <<known, setup, home, calls, answer>>

\* A view writes within the range it has registered.
ViewWrite(id, data) ==
  /\ home[id] # NoDev
  /\ DOMAIN data \subseteq rangeOf(id)
  /\ setDataLocally(home[id], data)

ScriptWrite(d, data) == setDataLocally(d, data)

\* The flags change in place; the servers keep the values they have.
setModbusDefinitions(df) ==
  LET new == [df EXCEPT !.useGlobal = @ /\ ~df.autoAdd]
  IN /\ calls = <<>>
     /\ defs' = new
     /\ master' = [d \in Devs |-> IF d \in known
                     THEN flagged(master[d], new) ELSE master[d]]
     /\ smap' = [s \in Conns |-> [d \in Devs |->
                   IF s \in listed /\ d \in saddr[s]
                   THEN flagged(smap[s][d], new) ELSE smap[s][d]]]
     /\ UNCHANGED <<known, refs, list, online, saddr, home, calls, answer>>

setUseGlobalUnitMap(use) ==
  /\ calls = <<>>
  /\ reconfigureServers([d \in Devs |-> IF d \in known
                           THEN [master[d] EXCEPT !.isGlobal = use] ELSE master[d]], known)
  /\ UNCHANGED <<setup, home, calls, answer>>

-----------------------------------------------------------------------------
(* Connections.                                                            *)

servedPoints(m) == {p \in Points : Served(m, p) # Absent}

\* A new server copies the master map of unit id d, then takes over the values
\* the FIRST server of the list (servers, s included) serves over the served
\* range; if that changed anything its dataWritten signal writes the values
\* back to the master map and to every server.  The new server still has the
\* default definitions then.
takeOver(s, d, servers) ==
  LET own == IF s \in listed THEN defs ELSE DefaultDefinitions
      first == servers[1]
      m == master[d]
      r == servedPoints(m)
      copy == [c \in Conns |-> IF c = s THEN m ELSE smap[c][d]]
      src == ensureAutoAddRange(IF first = s THEN own ELSE defs, copy[first], r)
      read == [copy EXCEPT ![first] = src]
      data == [p \in r |-> IF Holds(src, r) THEN Served(src, p) ELSE Served(m, p)]
      before == ensureAutoAddRange(own, read[s], r)
      after == writeData(own, read[s], data, FALSE)
      written == [read EXCEPT ![s] = after]
      defsOf(c) == IF c = s THEN own ELSE defs
  IN IF r = {} THEN [master |-> m, maps |-> copy]
     ELSE IF after = before THEN [master |-> m, maps |-> written]
     ELSE [master |-> setData(m, data),
           maps |-> [c \in Conns |-> IF c \in listed \cup {s}
                       THEN writeData(defsOf(c), written[c], data, FALSE)
                       ELSE written[c]]]

\* Finally the server gets the definitions and is started; a port that
\* cannot be opened leaves it in the list.
connectDevice(s, opened) ==
  LET servers == IF s \in listed THEN list ELSE Append(list, s)
      taken == [d \in deviceIds |-> takeOver(s, d, servers)]
  IN /\ calls = <<>>
     /\ s \notin online
     /\ list' = servers
     /\ online' = IF opened THEN online \cup {s} ELSE online
     /\ saddr' = [saddr EXCEPT ![s] = deviceIds]
     /\ known' = known \cup deviceIds
     /\ master' = [d \in Devs |-> IF d \in deviceIds THEN taken[d].master ELSE master[d]]
     /\ smap' = [c \in Conns |-> [d \in Devs |->
          IF d \notin deviceIds THEN IF c = s THEN EmptyMap ELSE smap[c][d]
          ELSE IF c = s THEN flagged(taken[d].maps[c], defs)
          ELSE taken[d].maps[c]]]
     /\ UNCHANGED <<refs, defs, home, calls, answer>>

removeAt(seq, i) == [j \in 1 .. Len(seq) - 1 |-> seq[IF j < i THEN j ELSE j + 1]]

\* Bug: a server leaves the list and goes on listening.
disconnectDeviceListening(s) ==
  /\ calls = <<>>
  /\ \E i \in DOMAIN list : list[i] = s /\ list' = removeAt(list, i)
  /\ saddr' = [saddr EXCEPT ![s] = {}]
  /\ smap' = [smap EXCEPT ![s] = [d \in Devs |-> EmptyMap]]
  /\ UNCHANGED <<master, known, refs, online, defs, home, calls, answer>>

disconnectDevice(s) ==
  /\ calls = <<>>
  /\ \E i \in DOMAIN list : list[i] = s /\ list' = removeAt(list, i)
  /\ online' = online \ {s}
  /\ saddr' = [saddr EXCEPT ![s] = {}]
  /\ smap' = [smap EXCEPT ![s] = [d \in Devs |-> EmptyMap]]
  /\ UNCHANGED <<master, known, refs, defs, home, calls, answer>>

\* Closing every connection stops the servers and leaves them in the list.
closeConnections ==
  /\ calls = <<>>
  /\ online' = {}
  /\ UNCHANGED <<core, refs, list, saddr, defs, home, calls, answer>>

\* Closing a project ends with no connection, no view and no master map.
clearAddressSpace ==
  /\ calls = <<>>
  /\ online = {}
  /\ \A i \in Ids : home[i] = NoDev
  /\ master' = [d \in Devs |-> EmptyMap]
  /\ known' = {}
  /\ UNCHANGED <<smap, setup, home, calls, answer>>

\* A connection error stops the server and leaves it in the list.
on_errorOccurred(s) ==
  /\ s \in online
  /\ online' = online \ {s}
  /\ UNCHANGED <<core, refs, list, saddr, defs, home, calls, answer>>

-----------------------------------------------------------------------------
(* Requests of Modbus clients, between any two calls.                      *)

\* A unit id the server does not have is not answered, unless registers are
\* added on request.
addressed(s, d) == s \in online /\ (d \in saddr[s] \/ defs.autoAdd)

\* Some function codes refuse a unit id without any register before they
\* look at the range (checksType); the others go straight to the range.
fetched(s, d, r) == ensureAutoAddRange(defs, smap[s][d], r)
refuses(s, d, r, checksType) ==
  \/ checksType /\ ~contains(smap[s][d])
  \/ ~accepts(fetched(s, d, r), r, TRUE)

replied(d, r, m) ==
  [dev |-> d, values |-> [a \in Stored |-> IF a \in r THEN Served(m, a) ELSE Absent]]

ClientRefused(s, d, r, checksType) ==
  /\ addressed(s, d)
  /\ refuses(s, d, r, checksType)
  /\ smap' = IF checksType /\ ~contains(smap[s][d]) THEN smap
             ELSE [smap EXCEPT ![s][d] = fetched(s, d, r)]
  /\ answer' = [dev |-> d, values |-> NoValues]
  /\ UNCHANGED <<master, known, setup, home, calls>>

ClientRead(s, d, r, checksType) ==
  /\ addressed(s, d)
  /\ ~refuses(s, d, r, checksType)
  /\ smap' = [smap EXCEPT ![s][d] = fetched(s, d, r)]
  /\ answer' = replied(d, r, fetched(s, d, r))
  /\ UNCHANGED <<master, known, setup, home, calls>>

\* Bug: on_dataWritten updates the master map and tells no server.
clientWrittenUntold(s, d, data) ==
  [master |-> IF d \in known THEN [master EXCEPT ![d] = setData(@, data)] ELSE master,
   maps |-> [smap EXCEPT ![s][d] = writeServed(fetched(s, d, DOMAIN data), data)]]

\* The write, and what on_dataWritten does with it before the reply: the
\* values go to the master map and from there to every server, unless the
\* unit id has no master map.
clientWritten(s, d, data) ==
  LET own == [smap EXCEPT ![s][d] = writeServed(fetched(s, d, DOMAIN data), data)]
  IN IF d \in known
     THEN [master |-> [master EXCEPT ![d] = setData(@, data)],
           maps |-> writeAll(own, d, data, {s})]
     ELSE [master |-> master, maps |-> own]

ClientWrite(s, d, data, checksType) ==
  LET w == clientWritten(s, d, data)
  IN /\ addressed(s, d)
     /\ ~refuses(s, d, DOMAIN data, checksType)
     /\ master' = w.master
     /\ smap' = w.maps
     /\ answer' = [dev |-> d, values |-> NoValues]
     /\ UNCHANGED <<known, setup, home, calls>>

\* Bug: the values are read before the write.
ClientReadWriteReadingFirst(s, d, data, rr) ==
  LET w == clientWritten(s, d, data)
      e == fetched(s, d, rr)
  IN /\ addressed(s, d)
     /\ ~refuses(s, d, DOMAIN data, FALSE)
     /\ master' = w.master
     /\ smap' = w.maps
     /\ answer' = IF accepts(e, rr, TRUE) THEN replied(d, rr, e)
                  ELSE [dev |-> d, values |-> NoValues]
     /\ UNCHANGED <<known, setup, home, calls>>

\* Read/Write Multiple Registers writes first; a range it cannot read then is
\* refused with the write already done.
ClientReadWrite(s, d, data, rr) ==
  LET w == clientWritten(s, d, data)
      e == ensureAutoAddRange(defs, w.maps[s][d], rr)
  IN /\ addressed(s, d)
     /\ ~refuses(s, d, DOMAIN data, FALSE)
     /\ master' = w.master
     /\ smap' = [w.maps EXCEPT ![s][d] = e]
     /\ answer' = IF accepts(e, rr, TRUE) THEN replied(d, rr, e)
                  ELSE [dev |-> d, values |-> NoValues]
     /\ UNCHANGED <<known, setup, home, calls>>

-----------------------------------------------------------------------------
ClientRequest ==
  \E s \in Conns, d \in Devs, r \in ReqRanges :
    \/ \E checks \in BOOLEAN : ClientRefused(s, d, r, checks)
    \/ \E checks \in BOOLEAN : ClientRead(s, d, r, checks)
    \/ \E data \in Data(r), checks \in BOOLEAN : ClientWrite(s, d, data, checks)
    \/ \E data \in Data(r), rr \in ReqRanges : ClientReadWrite(s, d, data, rr)

LocalWrite ==
  \/ \E id \in Ids, r \in ReqRanges : \E data \in Data(r) : ViewWrite(id, data)
  \/ \E d \in Devs, r \in ScriptRanges : \E data \in Data(r) : ScriptWrite(d, data)

Reconfigure ==
  \/ \E df \in UserDefs : setModbusDefinitions(df)
  \/ \E use \in GlobalChoices : setUseGlobalUnitMap(use)

Connection ==
  \/ \E s \in Conns, opened \in BOOLEAN : connectDevice(s, opened)
  \/ \E s \in Conns : disconnectDevice(s)
  \/ \E s \in Conns : on_errorOccurred(s)
  \/ closeConnections
  \/ clearAddressSpace

Next == UserEvent \/ Call \/ LocalWrite \/ Reconfigure \/ Connection \/ ClientRequest

Spec == Init /\ [][Next]_vars

-----------------------------------------------------------------------------
(* Safety.                                                                 *)

mappedBy(s, d) ==
  IF smap[s][d].isGlobal THEN Entries(smap[s][d]) ELSE MappedPoints(smap[s][d])

\* The two copies inside the master map never part: updateDataUnitMap fills
\* the local copy from the global one, setData and clearUnmappedData change
\* both (modbusdataunitmap.cpp), so a view may read either.
MasterCopiesAgree ==
  \A d \in Devs, a \in Stored : master[d].local[a] \in {Absent, master[d].global[a]}

\* What a server would answer at an address a view has registered is what the
\* views show for it: the copies that setMap hands out follow every write.
ServersAgree ==
  \A s \in Conns : s \in listed =>
    \A d \in saddr[s] : \A a \in Stored \cap UnitPoints(smap[s][d]) :
      Served(smap[s][d], a) \in {Absent, master[d].global[a]}

\* Every address for which isMapped() promises service is inside the served
\* range (modbusdataunitmap.cpp:155, "may be served to a Modbus client").
MappedIsServed ==
  \A s \in Conns, d \in Devs : \A p \in mappedBy(s, d) : Served(smap[s][d], p) # Absent

\* Between two user events every listed server has exactly the unit ids that
\* views hold, with the ranges the master maps have for them: no sequence of
\* opening, moving and closing views loses or leaks a registration.
RegistryAgrees ==
  calls = <<>> => \A s \in Conns : s \in listed =>
    /\ saddr[s] = {home[i] : i \in {j \in Ids : home[j] # NoDev}}
    /\ \A d \in saddr[s] : smap[s][d].units = master[d].units

\* A range no open view stands for is not left in a master map.
NoOrphanRange ==
  calls = <<>> => \A d \in Devs, i \in Ids :
                    master[d].units[i] # {} => home[i] = d

\* What a reply carries was read at a registered address, or at one the server
\* added on request, or from a server in global mode: the gaps that merging
\* the views' ranges leaves are refused (modbusserver.cpp:497).
GapsAreRefused ==
  [][answer' # answer => \A a \in Stored : answer'.values[a] # Absent =>
       \E s \in online : LET m == smap'[s][answer'.dev]
                         IN m.isGlobal \/ a \in MappedPoints(m)]_vars

\* Once a client's write is acknowledged the views show it, and so does every
\* connection that serves those registers to clients (on_dataWritten).
AcknowledgedWriteIsVisible ==
  [][\A s \in online, d \in known, r \in ReqRanges :
       \A data \in Data(r), checks \in BOOLEAN :
         answer' = [dev |-> d, values |-> NoValues] /\ ClientWrite(s, d, data, checks) =>
           /\ \A a \in r \cap Entries(master[d]) : master'[d].global[a] = data[a]
           /\ \A t \in listed, a \in r :
                isMapped(smap'[t][d], r) => Served(smap'[t][d], a) \in {data[a], Absent}]_vars
=============================================================================
