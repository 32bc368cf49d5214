-------------------------- MODULE MultiServerProofs --------------------------
(***************************************************************************)
(* Theorems about the multi-server, for every number of connections, unit  *)
(* ids and views, every address width and all definitions:                 *)
(*   - types (TypeOK);                                                     *)
(*   - sets of maps that no operation leaves (Closed, MapsStay), and with  *)
(*     them that local copies are whole (Good): what is mapped is served,  *)
(*     acknowledged writes are visible, gaps are refused;                  *)
(*   - the two copies of a master map (MastersAgree);                      *)
(*   - the registry, in the middle of events too (Registry);               *)
(*   - with ranges registered by views only, the servers' copies follow    *)
(*     the master maps (Local), and all copies implement RegisterStore.    *)
(***************************************************************************)
EXTENDS MultiServerStore, UnitMapProofs, FiniteSetTheorems

-----------------------------------------------------------------------------
(* The operations of a server on its copy return maps.                     *)

LEMMA FlaggedType ==
  ASSUME NEW m \in Maps, NEW df \in Definitions
  PROVE  flagged(m, df) \in Maps
BY DEF flagged, Maps, Definitions

LEMMA AutoAddType ==
  ASSUME NEW df \in Definitions, NEW m \in Maps, NEW r \in SUBSET Points
  PROVE  ensureAutoAddRange(df, m, r) \in Maps
BY FlaggedType, EnsureRangeType DEF ensureAutoAddRange

LEMMA WriteDataType ==
  ASSUME NEW df \in Definitions, NEW m \in Maps, NEW r \in SUBSET Points,
         NEW data \in [r -> Vals], NEW inRequest
  PROVE  writeData(df, m, data, inRequest) \in Maps
<1>1. DOMAIN data = r OBVIOUS
<1>2. ensureAutoAddRange(df, m, r) \in Maps BY AutoAddType
<1>3. writeServed(ensureAutoAddRange(df, m, r), data) \in Maps BY <1>2, WriteServedType
<1>4. QED BY <1>1, <1>2, <1>3 DEF writeData

LEMMA WriteAllType ==
  ASSUME defs \in Definitions, NEW maps \in [Conns -> [Devs -> Maps]], NEW d \in Devs,
         NEW r \in SUBSET Points, NEW data \in [r -> Vals], NEW serving
  PROVE  writeAll(maps, d, data, serving) \in [Conns -> [Devs -> Maps]]
<1>1. \A s \in Conns : writeData(defs, maps[s][d], data, s \in serving) \in Maps
  BY WriteDataType
<1>2. QED BY <1>1 DEF writeAll

LEMMA FetchedType ==
  ASSUME defs \in Definitions, smap \in [Conns -> [Devs -> Maps]],
         NEW s \in Conns, NEW d \in Devs, NEW r \in SUBSET Points
  PROVE  fetched(s, d, r) \in Maps
BY AutoAddType DEF fetched

LEMMA RepliedType ==
  ASSUME NEW m \in Maps, NEW d \in Devs, NEW r
  PROVE  replied(d, r, m) \in Answers
<1>1. \A a \in Stored : a \in Points
  BY WidthAssumption DEF Stored, Points
<1>2. \A a \in Stored : Served(m, a) \in Vals \cup {Absent}
  BY <1>1, ServedType
<1>3. QED BY <1>2 DEF replied, Answers

LEMMA NoValuesType ==
  ASSUME NEW d \in Devs
  PROVE  [dev |-> d, values |-> NoValues] \in Answers
BY DEF NoValues, Answers

LEMMA ClientWrittenType ==
  ASSUME TypeOK, NEW s \in Conns, NEW d \in Devs, NEW r \in SUBSET Points,
         NEW data \in [r -> Vals]
  PROVE  /\ clientWritten(s, d, data).master \in [Devs -> Maps]
         /\ clientWritten(s, d, data).maps \in [Conns -> [Devs -> Maps]]
<1> DEFINE own == [smap EXCEPT ![s][d] = writeServed(fetched(s, d, r), data)]
<1>1. DOMAIN data = r OBVIOUS
<1>2. writeServed(fetched(s, d, r), data) \in Maps
  BY FetchedType, WriteServedType DEF TypeOK
<1>3. own \in [Conns -> [Devs -> Maps]] BY <1>2 DEF TypeOK
<1>4. setData(master[d], data) \in Maps BY SetDataType DEF TypeOK
<1>5. [master EXCEPT ![d] = setData(@, data)] \in [Devs -> Maps]
  BY <1>4 DEF TypeOK
<1> HIDE DEF own
<1>6. writeAll(own, d, data, {s}) \in [Conns -> [Devs -> Maps]]
  BY <1>3, WriteAllType DEF TypeOK
<1> DEFINE newMaster == [master EXCEPT ![d] = setData(@, data)]
           newMaps == writeAll(own, d, data, {s})
<1>7. clientWritten(s, d, data) =
        IF d \in known THEN [master |-> newMaster, maps |-> newMaps]
        ELSE [master |-> master, maps |-> own]
  BY <1>1 DEF clientWritten, own
<1>8. newMaster \in [Devs -> Maps] /\ newMaps \in [Conns -> [Devs -> Maps]]
  BY <1>5, <1>6
<1>9. master \in [Devs -> Maps] BY DEF TypeOK
<1> HIDE DEF newMaster, newMaps
<1>10. QED BY <1>3, <1>7, <1>8, <1>9

-----------------------------------------------------------------------------
(* The calls of the main thread keep the types.                            *)

\* What a call carries, by its kind.
LEMMA CallFields ==
  ASSUME NEW c \in Calls
  PROVE  /\ c.dev \in Devs
         /\ c.op \in {"addUnitMap", "removeUnitMap"} => c.id \in Ids
         /\ c.op \in {"addUnitMap", "clearUnmappedData"} => c.range \in SUBSET Points
BY DEF Calls

LEMMA ReconfigureType ==
  ASSUME TypeOK, NEW maps \in [Devs -> Maps], NEW keys \in SUBSET Devs,
         reconfigureServers(maps, keys)
  PROVE  /\ master' \in [Devs -> Maps]
         /\ known' \subseteq Devs
         /\ smap' \in [Conns -> [Devs -> Maps]]
<1>1. listed \subseteq Conns BY DEF TypeOK, listed
<1>2. known' \subseteq Devs BY <1>1 DEF TypeOK, reconfigureServers
<1>3. QED BY <1>2 DEF TypeOK, reconfigureServers

LEMMA AddDeviceType ==
  ASSUME TypeOK, NEW d \in Devs, addDeviceId(d)
  PROVE  refs' \in [Devs -> Nat] /\ saddr' \in [Conns -> SUBSET Devs]
BY DEF TypeOK, addDeviceId

LEMMA RemoveDeviceType ==
  ASSUME TypeOK, NEW d \in Devs, removeDeviceId(d)
  PROVE  /\ refs' \in [Devs -> Nat]
         /\ saddr' \in [Conns -> SUBSET Devs]
         /\ smap' \in [Conns -> [Devs -> Maps]]
<1>1. refs' \in [Devs -> Nat] BY DEF TypeOK, removeDeviceId
<1>2. saddr' \in [Conns -> SUBSET Devs] BY DEF TypeOK, removeDeviceId
<1>3. smap' \in [Conns -> [Devs -> Maps]]
  BY EmptyMapType DEF TypeOK, removeDeviceId
<1>4. QED BY <1>1, <1>2, <1>3

LEMMA CallKeepsType == TypeOK /\ Call => TypeOK'
<1> SUFFICES ASSUME TypeOK, Call PROVE TypeOK'
  OBVIOUS
<1> DEFINE c == Head(calls)
<1>1. c \in Calls /\ calls' \in Seq(Calls) BY DEF Call, TypeOK
<1>2. UNCHANGED <<home, answer>> /\ Run(c) BY DEF Call
<1>3. /\ c.dev \in Devs
      /\ c.op \in {"addUnitMap", "removeUnitMap"} => c.id \in Ids
      /\ c.op \in {"addUnitMap", "clearUnmappedData"} => c.range \in SUBSET Points
  BY <1>1, CallFields
<1> HIDE DEF c
<1>4. CASE addDeviceId(c.dev)
  <2>1. UNCHANGED <<core, list, online, defs>> BY <1>4 DEF addDeviceId
  <2>2. refs' \in [Devs -> Nat] /\ saddr' \in [Conns -> SUBSET Devs]
    BY <1>3, <1>4, AddDeviceType
  <2>3. QED BY <1>1, <1>2, <2>1, <2>2 DEF TypeOK, core, listed
<1>5. CASE removeDeviceId(c.dev)
  <2>1. UNCHANGED <<master, known, list, online, defs>> BY <1>5 DEF removeDeviceId
  <2>2. QED BY <1>1, <1>2, <1>3, <1>5, <2>1, RemoveDeviceType DEF TypeOK, listed
<1>6. CASE c.op = "addUnitMap" /\ addUnitMap(c.id, c.dev, c.range)
  <2> DEFINE m == IF c.dev \in known THEN master[c.dev] ELSE flagged(EmptyMap, defs)
             new == [master EXCEPT ![c.dev] = addUnit(m, c.id, c.range)]
  <2>1. m \in Maps BY <1>3, EmptyMapType, FlaggedType DEF TypeOK
  <2>2. addUnit(m, c.id, c.range) \in Maps BY <1>3, <1>6, <2>1, AddUnitType
  <2>3. new \in [Devs -> Maps] BY <2>2 DEF TypeOK
  <2>4. reconfigureServers(new, known \cup {c.dev}) /\ UNCHANGED setup
    BY <1>6 DEF addUnitMap
  <2> HIDE DEF new
  <2>5. known \cup {c.dev} \in SUBSET Devs BY <1>3 DEF TypeOK
  <2>6. QED BY <1>1, <1>2, <2>3, <2>4, <2>5, ReconfigureType DEF TypeOK, setup, listed
<1>7. CASE c.op = "removeUnitMap" /\ removeUnitMap(c.id, c.dev)
  <2> DEFINE new == [master EXCEPT ![c.dev] = removeUnit(@, c.id)]
  <2>1. removeUnit(master[c.dev], c.id) \in Maps BY <1>3, <1>7, RemoveUnitType DEF TypeOK
  <2>2. new \in [Devs -> Maps] BY <2>1 DEF TypeOK
  <2>3. reconfigureServers(new, known \cup {c.dev}) /\ UNCHANGED setup
    BY <1>7 DEF removeUnitMap
  <2> HIDE DEF new
  <2>4. known \cup {c.dev} \in SUBSET Devs BY <1>3 DEF TypeOK
  <2>5. QED BY <1>1, <1>2, <2>2, <2>3, <2>4, ReconfigureType DEF TypeOK, setup, listed
<1>8. CASE clearUnmappedData(c.dev, c.range)
  <2>1. clearUnmapped(master[c.dev], c.range) \in Maps BY <1>3, ClearType DEF TypeOK
  <2>2. master' \in [Devs -> Maps] BY <2>1, <1>8 DEF TypeOK, clearUnmappedData
  <2>3. UNCHANGED <<known, smap, setup>> BY <1>8 DEF clearUnmappedData
  <2>4. QED BY <1>1, <1>2, <2>2, <2>3 DEF TypeOK, setup, listed
<1>9. QED BY <1>2, <1>4, <1>5, <1>6, <1>7, <1>8 DEF Run

-----------------------------------------------------------------------------
(* User events keep the types.                                             *)

\* The calls an event may queue.
LEMMA CallTypes ==
  ASSUME NEW id \in Ids, NEW d \in Devs, NEW r \in SUBSET Points
  PROVE  {CallAddDevice(d), CallRemoveDevice(d), CallAddUnit(id, d, r),
          CallRemoveUnit(id, d), CallClear(d, r)} \subseteq Calls
BY DEF Calls, CallAddDevice, CallRemoveDevice, CallAddUnit, CallRemoveUnit, CallClear

LEMMA EventType ==
  ASSUME TypeOK, NEW id \in Ids, NEW d \in Devs \cup {NoDev},
         NEW todo \in Seq(Calls), Event(id, d, todo)
  PROVE  TypeOK'
BY DEF TypeOK, Event, core, setup, listed

LEMMA UserEventKeepsType == TypeOK /\ UserEvent => TypeOK'
<1> SUFFICES ASSUME TypeOK, NEW id \in Ids,
                    \/ OpenForm(id)
                    \/ \E r \in UnitRanges : Define(id, r)
                    \/ \E d \in Devs : ChangeFormDevice(id, d)
                    \/ CloseForm(id)
                    \/ \E d \in Devs, r \in UnitRanges : AddRow(id, d, r)
                    \/ \E d \in Devs, r \in UnitRanges : MoveRow(id, d, r)
                    \/ RemoveRow(id)
                    \/ CloseRow(id)
             PROVE  TypeOK'
  BY DEF UserEvent
<1>1. \A r \in UnitRanges : r \in SUBSET Points BY RangesAssumption
<1>2. home[id] # NoDev => home[id] \in Devs /\ rangeOf(id) \in SUBSET Points
  <2>1. ASSUME home[id] # NoDev
        PROVE  home[id] \in Devs /\ master[home[id]] \in Maps
    BY <2>1 DEF TypeOK
  <2>2. \A m \in Maps : m.units[id] \in SUBSET Points BY DEF Maps
  <2>3. QED BY <2>1, <2>2 DEF rangeOf
<1>3. CASE OpenForm(id)
  <2>1. <<CallAddDevice(FirstDev)>> \in Seq(Calls)
    BY DevsAssumption, CallTypes
  <2>2. QED BY <1>3, <2>1, DevsAssumption, EventType DEF OpenForm
<1>4. ASSUME NEW r \in UnitRanges, Define(id, r) PROVE TypeOK'
  <2>1. home[id] \in Devs BY <1>2, <1>4 DEF Define
  <2>2. <<CallAddUnit(id, home[id], r)>> \in Seq(Calls)
    BY <1>1, <2>1, CallTypes
  <2>3. QED BY <1>4, <2>1, <2>2, EventType DEF Define
<1>5. ASSUME NEW d \in Devs, ChangeFormDevice(id, d) PROVE TypeOK'
  <2>1. home[id] \in Devs /\ rangeOf(id) \in SUBSET Points
    BY <1>2, <1>5 DEF ChangeFormDevice, registered
  <2>2. {CallRemoveUnit(id, home[id]), CallRemoveDevice(home[id]), CallAddDevice(d),
         CallAddUnit(id, d, rangeOf(id))} \subseteq Calls
    BY <2>1, CallTypes
  <2>3. <<CallRemoveUnit(id, home[id]), CallRemoveDevice(home[id]), CallAddDevice(d),
          CallAddUnit(id, d, rangeOf(id))>> \in Seq(Calls)
    BY <2>2
  <2>4. QED BY <1>5, <2>3, EventType DEF ChangeFormDevice
<1>6. CASE CloseForm(id)
  <2>1. home[id] \in Devs BY <1>2, <1>6 DEF CloseForm
  <2>2. {CallRemoveDevice(home[id]), CallRemoveUnit(id, home[id])} \subseteq Calls
    BY <2>1, CallTypes
  <2>3. <<CallRemoveDevice(home[id]), CallRemoveUnit(id, home[id])>> \in Seq(Calls)
    BY <2>2
  <2>4. QED BY <1>6, <2>3, EventType DEF CloseForm
<1>7. ASSUME NEW d \in Devs, NEW r \in UnitRanges, AddRow(id, d, r) PROVE TypeOK'
  <2>1. {CallAddDevice(d), CallAddUnit(id, d, r)} \subseteq Calls
    BY <1>1, CallTypes
  <2>2. <<CallAddDevice(d), CallAddUnit(id, d, r)>> \in Seq(Calls) BY <2>1
  <2>3. QED BY <1>7, <2>2, EventType DEF AddRow
<1>8. CASE RemoveRow(id)
  <2>1. home[id] \in Devs /\ rangeOf(id) \in SUBSET Points
    BY <1>2, <1>8 DEF RemoveRow
  <2>2. {CallRemoveUnit(id, home[id]), CallRemoveDevice(home[id]),
         CallClear(home[id], rangeOf(id))} \subseteq Calls
    BY <2>1, CallTypes
  <2>3. <<CallRemoveUnit(id, home[id]), CallRemoveDevice(home[id]),
          CallClear(home[id], rangeOf(id))>> \in Seq(Calls)
    BY <2>2
  <2>4. QED BY <1>8, <2>3, EventType DEF RemoveRow
<1>9. ASSUME NEW d \in Devs, NEW r \in UnitRanges, MoveRow(id, d, r) PROVE TypeOK'
  <2>1. home[id] \in Devs BY <1>2, <1>9 DEF MoveRow
  <2>2. {CallRemoveUnit(id, home[id]), CallRemoveDevice(home[id]), CallAddDevice(d),
         CallAddUnit(id, d, r)} \subseteq Calls
    BY <1>1, <2>1, CallTypes
  <2>3. <<CallRemoveUnit(id, home[id]), CallRemoveDevice(home[id]), CallAddDevice(d),
          CallAddUnit(id, d, r)>> \in Seq(Calls)
    BY <2>2
  <2>4. QED BY <1>9, <2>3, EventType DEF MoveRow
<1>10. CASE CloseRow(id)
  <2>1. home[id] \in Devs BY <1>2, <1>10 DEF CloseRow
  <2>2. {CallRemoveUnit(id, home[id]), CallRemoveDevice(home[id])} \subseteq Calls
    BY <2>1, CallTypes
  <2>3. <<CallRemoveUnit(id, home[id]), CallRemoveDevice(home[id])>> \in Seq(Calls)
    BY <2>2
  <2>4. QED BY <1>10, <2>3, EventType DEF CloseRow
<1>11. QED BY <1>3, <1>4, <1>5, <1>6, <1>7, <1>8, <1>9, <1>10

LEMMA LocalWriteKeepsType == TypeOK /\ LocalWrite => TypeOK'
<1>1. ASSUME TypeOK, NEW d \in Devs, NEW r \in SUBSET Points, NEW data \in [r -> Vals],
             setDataLocally(d, data)
      PROVE  TypeOK'
  <2>1. setData(master[d], data) \in Maps BY <1>1, SetDataType DEF TypeOK
  <2>2. master' \in [Devs -> Maps] BY <1>1, <2>1 DEF TypeOK, setDataLocally
  <2>3. smap' \in [Conns -> [Devs -> Maps]]
    BY <1>1, WriteAllType DEF TypeOK, setDataLocally
  <2>4. UNCHANGED <<known, setup, home, calls, answer>> BY <1>1 DEF setDataLocally
  <2>5. QED BY <1>1, <2>2, <2>3, <2>4 DEF TypeOK, setup, listed
<1>2. ASSUME TypeOK, NEW id \in Ids, NEW r \in ReqRanges, NEW data \in Data(r),
             ViewWrite(id, data)
      PROVE  TypeOK'
  <2>1. home[id] \in Devs BY <1>2 DEF TypeOK, ViewWrite
  <2>2. QED BY <1>1, <1>2, <2>1, RangesAssumption DEF ViewWrite, Data
<1>3. ASSUME TypeOK, NEW d \in Devs, NEW r \in ScriptRanges, NEW data \in Data(r),
             ScriptWrite(d, data)
      PROVE  TypeOK'
  BY <1>1, <1>3, RangesAssumption DEF ScriptWrite, Data
<1>4. QED BY <1>2, <1>3 DEF LocalWrite

LEMMA ReconfigureKeepsType == TypeOK /\ Reconfigure => TypeOK'
<1>1. ASSUME TypeOK, NEW df \in UserDefs, setModbusDefinitions(df) PROVE TypeOK'
  <2> DEFINE new == [df EXCEPT !.useGlobal = @ /\ ~df.autoAdd]
  <2>1. new \in Definitions BY DefsAssumption DEF Definitions
  <2>2. /\ defs' = new
        /\ master' = [d \in Devs |-> IF d \in known THEN flagged(master[d], new)
                                     ELSE master[d]]
        /\ smap' = [s \in Conns |-> [d \in Devs |->
             IF s \in listed /\ d \in saddr[s] THEN flagged(smap[s][d], new)
             ELSE smap[s][d]]]
        /\ UNCHANGED <<known, refs, list, online, saddr, home, calls, answer>>
    BY <1>1 DEF setModbusDefinitions
  <2> HIDE DEF new
  <2>3. master' \in [Devs -> Maps] BY <1>1, <2>1, <2>2, FlaggedType DEF TypeOK
  <2>4. smap' \in [Conns -> [Devs -> Maps]] BY <1>1, <2>1, <2>2, FlaggedType DEF TypeOK
  <2>5. QED BY <1>1, <2>1, <2>2, <2>3, <2>4 DEF TypeOK, listed
<1>2. ASSUME TypeOK, NEW use \in GlobalChoices, setUseGlobalUnitMap(use) PROVE TypeOK'
  <2> DEFINE new == [d \in Devs |-> IF d \in known THEN [master[d] EXCEPT !.isGlobal = use]
                                   ELSE master[d]]
  <2>1. \A m \in Maps : [m EXCEPT !.isGlobal = use] \in Maps
    BY DefsAssumption DEF Maps
  <2>2. new \in [Devs -> Maps] BY <1>2, <2>1 DEF TypeOK
  <2>3. reconfigureServers(new, known) /\ UNCHANGED <<setup, home, calls, answer>>
    BY <1>2 DEF setUseGlobalUnitMap
  <2> HIDE DEF new
  <2>4. known \in SUBSET Devs BY <1>2 DEF TypeOK
  <2>5. QED BY <1>2, <2>2, <2>3, <2>4, ReconfigureType DEF TypeOK, setup, listed
<1>3. QED BY <1>1, <1>2 DEF Reconfigure

-----------------------------------------------------------------------------
(* Connections keep the types.                                             *)

LEMMA TakeOverType ==
  ASSUME TypeOK, NEW s \in Conns, NEW d \in Devs, NEW servers \in Seq(Conns),
         servers # <<>>
  PROVE  /\ takeOver(s, d, servers).master \in Maps
         /\ takeOver(s, d, servers).maps \in [Conns -> Maps]
         /\ \E r \in SUBSET Points : \E data \in [r -> Vals] :
              takeOver(s, d, servers).master \in {master[d], setData(master[d], data)}
<1> DEFINE own == IF s \in listed THEN defs ELSE DefaultDefinitions
           first == servers[1]
           m == master[d]
           r == servedPoints(m)
           copy == [c \in Conns |-> IF c = s THEN m ELSE smap[c][d]]
           src == ensureAutoAddRange(IF first = s THEN own ELSE defs, copy[first], r)
           read == [copy EXCEPT ![first] = src]
           data == [p \in r |-> IF Holds(src, r) THEN Served(src, p) ELSE Served(m, p)]
           before == ensureAutoAddRange(own, read[s], r)
           after == writeData(own, read[s], data, FALSE)
           written == [read EXCEPT ![s] = after]
           defsOf(c) == IF c = s THEN own ELSE defs
           final == [c \in Conns |-> IF c \in listed \cup {s}
                       THEN writeData(defsOf(c), written[c], data, FALSE)
                       ELSE written[c]]
<1>1. own \in Definitions /\ \A c \in Conns : defsOf(c) \in Definitions
  BY DEF TypeOK, DefaultDefinitions, Definitions
<1>2. first \in Conns OBVIOUS
<1>3. m \in Maps /\ r \in SUBSET Points BY DEF TypeOK, servedPoints
<1>4. copy \in [Conns -> Maps] BY <1>3 DEF TypeOK
<1>17. m = master[d] OBVIOUS
<1>5. takeOver(s, d, servers) =
        IF r = {} THEN [master |-> m, maps |-> copy]
        ELSE IF after = before THEN [master |-> m, maps |-> written]
        ELSE [master |-> setData(m, data), maps |-> final]
  BY DEF takeOver
<1>6. (IF first = s THEN own ELSE defs) \in Definitions BY <1>1 DEF TypeOK
<1> HIDE DEF own, first, m, copy
<1>7. src \in Maps BY <1>2, <1>3, <1>4, <1>6, AutoAddType
<1>8. read \in [Conns -> Maps] BY <1>4, <1>7
<1>9. data \in [r -> Vals]
  <2>1. \A p \in r : p \in Points /\ Served(m, p) # Absent BY DEF servedPoints
  <2>2. \A p \in r : Served(m, p) \in Vals BY <1>3, <2>1, ServedType
  <2>3. Holds(src, r) => \A p \in r : Served(src, p) \in Vals
    BY <1>7, <2>1, ServedType DEF Holds
  <2>4. QED BY <2>2, <2>3
<1> HIDE DEF r, src, read, data, defsOf
<1>10. after \in Maps BY <1>1, <1>3, <1>8, <1>9, WriteDataType
<1>11. written \in [Conns -> Maps] BY <1>8, <1>10
<1> HIDE DEF after, before, written
<1>12. final \in [Conns -> Maps] BY <1>1, <1>3, <1>9, <1>11, WriteDataType
<1>13. setData(m, data) \in Maps BY <1>3, <1>9, SetDataType
<1> HIDE DEF final
<1> DEFINE newMaster == setData(m, data)
<1>14. newMaster \in Maps BY <1>13
<1>18. \E y \in SUBSET Points : \E x \in [y -> Vals] : newMaster = setData(master[d], x)
  BY <1>3, <1>9, <1>17
<1>15. takeOver(s, d, servers) =
         IF r = {} THEN [master |-> m, maps |-> copy]
         ELSE IF after = before THEN [master |-> m, maps |-> written]
         ELSE [master |-> newMaster, maps |-> final]
  BY <1>5
<1> HIDE DEF newMaster
<1>16. takeOver(s, d, servers).master \in {m, newMaster} BY <1>15
<1>19. QED BY <1>3, <1>4, <1>11, <1>12, <1>14, <1>15, <1>16, <1>17, <1>18

LEMMA ConnectKeepsType ==
  ASSUME TypeOK, NEW s \in Conns, NEW opened \in BOOLEAN, connectDevice(s, opened)
  PROVE  TypeOK'
<1> DEFINE servers == IF s \in listed THEN list ELSE Append(list, s)
           taken == [d \in deviceIds |-> takeOver(s, d, servers)]
<1>1. servers \in Seq(Conns) /\ servers # <<>>
  BY DEF TypeOK, listed
<1>2. listed \subseteq {servers[i] : i \in DOMAIN servers}
  <2>1. CASE s \in listed BY <2>1 DEF listed
  <2>2. CASE s \notin listed
    <3>1. list \in Seq(Conns) BY DEF TypeOK
    <3>2. \A i \in DOMAIN list : i \in DOMAIN servers /\ servers[i] = list[i]
      BY <2>2, <3>1
    <3>3. QED BY <3>2 DEF listed
  <2>3. QED BY <2>1, <2>2
<1>3. s \in {servers[i] : i \in DOMAIN servers}
  <2>1. CASE s \in listed BY <2>1 DEF listed
  <2>2. CASE s \notin listed
    <3>1. list \in Seq(Conns) BY DEF TypeOK
    <3>2. Len(servers) \in DOMAIN servers /\ servers[Len(servers)] = s
      BY <2>2, <3>1
    <3>3. QED BY <3>2
  <2>3. QED BY <2>1, <2>2
<1>4. deviceIds \subseteq Devs BY DEF deviceIds
<1> HIDE DEF servers
<1>5. \A d \in deviceIds : /\ taken[d].master \in Maps
                          /\ taken[d].maps \in [Conns -> Maps]
  BY <1>1, <1>4, TakeOverType
<1>6. /\ list' = servers
      /\ online' = IF opened THEN online \cup {s} ELSE online
      /\ saddr' = [saddr EXCEPT ![s] = deviceIds]
      /\ known' = known \cup deviceIds
      /\ master' = [d \in Devs |-> IF d \in deviceIds THEN taken[d].master ELSE master[d]]
      /\ smap' = [c \in Conns |-> [d \in Devs |->
           IF d \notin deviceIds THEN IF c = s THEN EmptyMap ELSE smap[c][d]
           ELSE IF c = s THEN flagged(taken[d].maps[c], defs)
           ELSE taken[d].maps[c]]]
      /\ UNCHANGED <<refs, defs, home, calls, answer>>
  BY DEF connectDevice, servers
<1> HIDE DEF taken
<1>7. master' \in [Devs -> Maps] BY <1>5, <1>6 DEF TypeOK
<1>8. smap' \in [Conns -> [Devs -> Maps]]
  <2>1. ASSUME NEW c \in Conns, NEW d \in Devs
        PROVE  (IF d \notin deviceIds THEN IF c = s THEN EmptyMap ELSE smap[c][d]
                ELSE IF c = s THEN flagged(taken[d].maps[c], defs)
                ELSE taken[d].maps[c]) \in Maps
    <3>1. CASE d \notin deviceIds BY <3>1, EmptyMapType DEF TypeOK
    <3>2. CASE d \in deviceIds
      <4>1. taken[d].maps[c] \in Maps BY <1>5, <3>2
      <4>2. flagged(taken[d].maps[c], defs) \in Maps BY <4>1, FlaggedType DEF TypeOK
      <4>3. QED BY <3>2, <4>1, <4>2
    <3>3. QED BY <3>1, <3>2
  <2>2. QED BY <1>6, <2>1
<1>9. saddr' \in [Conns -> SUBSET Devs] BY <1>4, <1>6 DEF TypeOK
<1>10. online' \subseteq listed' BY <1>2, <1>3, <1>6 DEF TypeOK, listed
<1>11. QED BY <1>1, <1>4, <1>6, <1>7, <1>8, <1>9, <1>10 DEF TypeOK

LEMMA DisconnectKeepsType ==
  ASSUME TypeOK, NEW s \in Conns, disconnectDevice(s)
  PROVE  TypeOK'
<1>1. PICK i \in DOMAIN list : list[i] = s /\ list' = removeAt(list, i)
  BY DEF disconnectDevice
<1>2. list \in Seq(Conns) BY DEF TypeOK
<1>3. list' = [j \in 1 .. Len(list) - 1 |-> list[IF j < i THEN j ELSE j + 1]]
  BY <1>1 DEF removeAt
<1>4. i \in 1 .. Len(list) /\ Len(list) \in Nat BY <1>1, <1>2
<1>5. list' \in Seq(Conns)
  <2>1. \A j \in 1 .. Len(list) - 1 : list[IF j < i THEN j ELSE j + 1] \in Conns
    BY <1>2, <1>4
  <2>2. Len(list) - 1 \in Nat BY <1>4
  <2>3. QED BY <1>3, <2>1, <2>2
<1>6. DOMAIN list' = 1 .. Len(list) - 1 BY <1>3
<1>7. listed \ {s} \subseteq listed'
  <2> SUFFICES ASSUME NEW k \in DOMAIN list, list[k] # s
               PROVE  \E j \in DOMAIN list' : list'[j] = list[k]
    BY DEF listed
  <2>1. k \in 1 .. Len(list) /\ k # i BY <1>1, <1>2
  <2>2. CASE k < i
    <3>1. k \in 1 .. Len(list) - 1 /\ list'[k] = list[k] BY <1>3, <1>4, <2>1, <2>2
    <3>2. QED BY <1>6, <3>1
  <2>3. CASE k > i
    <3>1. k - 1 \in 1 .. Len(list) - 1 /\ list'[k - 1] = list[k]
      BY <1>3, <1>4, <2>1, <2>3
    <3>2. QED BY <1>6, <3>1
  <2>4. QED BY <1>4, <2>1, <2>2, <2>3
<1>8. /\ online' = online \ {s}
      /\ saddr' = [saddr EXCEPT ![s] = {}]
      /\ smap' = [smap EXCEPT ![s] = [d \in Devs |-> EmptyMap]]
      /\ UNCHANGED <<master, known, refs, defs, home, calls, answer>>
  BY DEF disconnectDevice
<1>9. [d \in Devs |-> EmptyMap] \in [Devs -> Maps] BY EmptyMapType
<1>10. smap' \in [Conns -> [Devs -> Maps]] BY <1>8, <1>9 DEF TypeOK
<1>11. online' \subseteq listed' BY <1>7, <1>8 DEF TypeOK
<1>12. QED BY <1>5, <1>8, <1>10, <1>11 DEF TypeOK

LEMMA ConnectionKeepsType == TypeOK /\ Connection => TypeOK'
<1> SUFFICES ASSUME TypeOK, Connection PROVE TypeOK'
  OBVIOUS
<1>1. ASSUME NEW s \in Conns, on_errorOccurred(s) PROVE TypeOK'
  BY <1>1 DEF on_errorOccurred, TypeOK, core, listed
<1>2. CASE closeConnections
  BY <1>2 DEF closeConnections, TypeOK, core, listed
<1>3. CASE clearAddressSpace
  <2>1. [d \in Devs |-> EmptyMap] \in [Devs -> Maps] BY EmptyMapType
  <2>2. QED BY <1>3, <2>1 DEF clearAddressSpace, TypeOK, setup, listed
<1>4. QED
  BY <1>1, <1>2, <1>3, ConnectKeepsType, DisconnectKeepsType DEF Connection

-----------------------------------------------------------------------------
(* Requests keep the types.                                                *)

LEMMA ClientRequestKeepsType == TypeOK /\ ClientRequest => TypeOK'
<1> SUFFICES ASSUME TypeOK, NEW s \in Conns, NEW d \in Devs, NEW r \in ReqRanges,
               \/ \E checks \in BOOLEAN : ClientRefused(s, d, r, checks)
               \/ \E checks \in BOOLEAN : ClientRead(s, d, r, checks)
               \/ \E data \in Data(r), checks \in BOOLEAN : ClientWrite(s, d, data, checks)
               \/ \E data \in Data(r), rr \in ReqRanges : ClientReadWrite(s, d, data, rr)
             PROVE  TypeOK'
  BY DEF ClientRequest
<1>1. \A x \in ReqRanges : x \in SUBSET Points BY RangesAssumption
<1>2. fetched(s, d, r) \in Maps BY <1>1, FetchedType DEF TypeOK
<1>3. [smap EXCEPT ![s][d] = fetched(s, d, r)] \in [Conns -> [Devs -> Maps]]
  BY <1>2 DEF TypeOK
<1>4. [dev |-> d, values |-> NoValues] \in Answers BY NoValuesType
<1>5. ASSUME NEW checks \in BOOLEAN, ClientRefused(s, d, r, checks) PROVE TypeOK'
  <2>1. smap' \in [Conns -> [Devs -> Maps]]
    BY <1>3, <1>5 DEF ClientRefused, TypeOK
  <2>2. answer' \in Answers BY <1>4, <1>5 DEF ClientRefused
  <2>3. UNCHANGED <<master, known, setup, home, calls>> BY <1>5 DEF ClientRefused
  <2>4. QED BY <2>1, <2>2, <2>3 DEF TypeOK, setup, listed
<1>6. ASSUME NEW checks \in BOOLEAN, ClientRead(s, d, r, checks) PROVE TypeOK'
  <2>1. smap' \in [Conns -> [Devs -> Maps]] BY <1>3, <1>6 DEF ClientRead
  <2>2. answer' \in Answers BY <1>2, <1>6, RepliedType DEF ClientRead
  <2>3. UNCHANGED <<master, known, setup, home, calls>> BY <1>6 DEF ClientRead
  <2>4. QED BY <2>1, <2>2, <2>3 DEF TypeOK, setup, listed
<1>7. ASSUME NEW data \in Data(r), NEW checks \in BOOLEAN, ClientWrite(s, d, data, checks)
      PROVE  TypeOK'
  <2>1. data \in [r -> Vals] BY DEF Data
  <2>2. master' \in [Devs -> Maps] /\ smap' \in [Conns -> [Devs -> Maps]]
    BY <1>1, <1>7, <2>1, ClientWrittenType DEF ClientWrite
  <2>3. answer' \in Answers BY <1>4, <1>7 DEF ClientWrite
  <2>4. UNCHANGED <<known, setup, home, calls>> BY <1>7 DEF ClientWrite
  <2>5. QED BY <2>2, <2>3, <2>4 DEF TypeOK, setup, listed
<1>8. ASSUME NEW data \in Data(r), NEW rr \in ReqRanges, ClientReadWrite(s, d, data, rr)
      PROVE  TypeOK'
  <2> DEFINE w == clientWritten(s, d, data)
             e == ensureAutoAddRange(defs, w.maps[s][d], rr)
  <2>1. data \in [r -> Vals] BY DEF Data
  <2>2. w.master \in [Devs -> Maps] /\ w.maps \in [Conns -> [Devs -> Maps]]
    BY <1>1, <2>1, ClientWrittenType
  <2>3. /\ master' = w.master
        /\ smap' = [w.maps EXCEPT ![s][d] = e]
        /\ answer' = IF accepts(e, rr, TRUE) THEN replied(d, rr, e)
                     ELSE [dev |-> d, values |-> NoValues]
    BY <1>8 DEF ClientReadWrite
  <2> HIDE DEF w
  <2>4. e \in Maps BY <1>1, <2>2, AutoAddType DEF TypeOK
  <2> HIDE DEF e
  <2>5. smap' \in [Conns -> [Devs -> Maps]] BY <2>2, <2>3, <2>4
  <2>6. answer' \in Answers BY <1>4, <2>3, <2>4, RepliedType
  <2>7. master' \in [Devs -> Maps] BY <2>2, <2>3
  <2>8. UNCHANGED <<known, setup, home, calls>> BY <1>8 DEF ClientReadWrite
  <2>9. QED BY <2>5, <2>6, <2>7, <2>8 DEF TypeOK, setup, listed
<1>9. QED BY <1>5, <1>6, <1>7, <1>8

-----------------------------------------------------------------------------
LEMMA InitType == Init => TypeOK
<1>1. EmptyMap \in Maps BY EmptyMapType
<1>2. DefaultDefinitions \in Definitions BY DEF DefaultDefinitions, Definitions
<1>3. NoAnswer \in Answers BY DEF NoAnswer, NoValues, Answers
<1>4. QED BY <1>1, <1>2, <1>3 DEF Init, TypeOK

LEMMA TypeStep == TypeOK /\ [Next]_vars => TypeOK'
<1> SUFFICES ASSUME TypeOK, [Next]_vars PROVE TypeOK'
  OBVIOUS
<1>1. CASE UNCHANGED vars BY <1>1 DEF TypeOK, vars, listed
<1>2. QED
  BY <1>1, UserEventKeepsType, CallKeepsType, LocalWriteKeepsType,
     ReconfigureKeepsType, ConnectionKeepsType, ClientRequestKeepsType DEF Next

\* Every variable keeps its type, whatever views, scripts and clients do: in
\* particular no "absent" marker is ever taken for a register value when a new
\* connection copies the served range of the first one (connectDevice).
THEOREM TypeCorrect == Spec => []TypeOK
BY InitType, TypeStep, PTL DEF Spec

-----------------------------------------------------------------------------
(* A set of maps the operations of the multi-server do not leave.          *)

\* G: the maps; D: the definitions in force; B: the addresses that are used.
Closed(G, D, B) ==
  /\ G \subseteq Maps /\ EmptyMap \in G /\ B \subseteq Points
  /\ \A m \in G : servedPoints(m) \subseteq B /\ \A i \in Ids : m.units[i] \subseteq B
  /\ \A m \in G, df \in D : flagged(m, df) \in G
  /\ \A m \in G, use \in GlobalChoices : [m EXCEPT !.isGlobal = use] \in G
  /\ \A m \in G, id \in Ids : removeUnit(m, id) \in G
  /\ \A m \in G, id \in Ids, r \in SUBSET B : addUnit(m, id, r) \in G
  /\ \A m \in G, df \in D, r \in SUBSET B : ensureAutoAddRange(df, m, r) \in G
  /\ \A m \in G, r \in SUBSET Points : \A data \in [r -> Vals] :
       /\ setData(m, data) \in G
       /\ Holds(m, r) => writeServed(m, data) \in G
  /\ \A m \in G, r \in SUBSET Points : clearUnmapped(m, r) \in G

normalised(df) == [df EXCEPT !.useGlobal = @ /\ ~df.autoAdd]

Permitted(D) ==
  /\ D \subseteq Definitions /\ DefaultDefinitions \in D
  /\ \A df \in UserDefs : normalised(df) \in D

Within(B) == UnitRanges \cup ReqRanges \cup ScriptRanges \subseteq SUBSET B

\* All maps are in G, the definitions in D and the ranges on their way in B.
MapsStay(G, D, B) ==
  /\ master \in [Devs -> G]
  /\ smap \in [Conns -> [Devs -> G]]
  /\ defs \in D
  /\ \A i \in DOMAIN calls : calls[i].op = "addUnitMap" => calls[i].range \subseteq B

LEMMA WriteDataStays ==
  ASSUME NEW G, NEW D, NEW B, Closed(G, D, B),
         NEW df \in D, NEW m \in G, NEW r \in SUBSET B, NEW data \in [r -> Vals],
         NEW inRequest
  PROVE  writeData(df, m, data, inRequest) \in G
<1>1. DOMAIN data = r /\ r \in SUBSET Points BY DEF Closed
<1>2. ensureAutoAddRange(df, m, r) \in G BY DEF Closed
<1>3. Holds(ensureAutoAddRange(df, m, r), r)
        => writeServed(ensureAutoAddRange(df, m, r), data) \in G
  BY <1>1, <1>2 DEF Closed
<1>4. QED BY <1>1, <1>2, <1>3 DEF writeData, accepts

LEMMA WriteAllStays ==
  ASSUME NEW G, NEW D, NEW B, Closed(G, D, B), defs \in D,
         NEW maps \in [Conns -> [Devs -> G]], NEW d \in Devs,
         NEW r \in SUBSET B, NEW data \in [r -> Vals], NEW serving
  PROVE  writeAll(maps, d, data, serving) \in [Conns -> [Devs -> G]]
<1>1. \A s \in Conns : writeData(defs, maps[s][d], data, s \in serving) \in G
  <2>1. \A s \in Conns : maps[s][d] \in G OBVIOUS
  <2>2. \A m \in G : \A inRequest : writeData(defs, m, data, inRequest) \in G
    BY WriteDataStays
  <2>3. QED BY <2>1, <2>2
<1>2. QED BY <1>1 DEF writeAll

LEMMA ReconfigureStays ==
  ASSUME NEW G, smap \in [Conns -> [Devs -> G]], NEW maps \in [Devs -> G], NEW keys,
         reconfigureServers(maps, keys)
  PROVE  master' \in [Devs -> G] /\ smap' \in [Conns -> [Devs -> G]]
BY DEF reconfigureServers

LEMMA CallStays ==
  ASSUME NEW G, NEW D, NEW B, Closed(G, D, B), Permitted(D), TypeOK, MapsStay(G, D, B), Call
  PROVE  MapsStay(G, D, B)'
<1> DEFINE c == Head(calls)
<1>1. calls \in Seq(Calls) /\ calls # <<>> /\ calls' = Tail(calls) /\ Run(c)
  BY DEF Call, TypeOK
<1>2. \A i \in DOMAIN calls' : i + 1 \in DOMAIN calls /\ calls'[i] = calls[i + 1]
  BY <1>1
<1>3. \A i \in DOMAIN calls' : calls'[i].op = "addUnitMap" => calls'[i].range \subseteq B
  BY <1>2 DEF MapsStay
<1>4. c \in Calls /\ 1 \in DOMAIN calls /\ c = calls[1] BY <1>1
<1>5. /\ c.dev \in Devs
      /\ c.op \in {"addUnitMap", "removeUnitMap"} => c.id \in Ids
      /\ c.op \in {"addUnitMap", "clearUnmappedData"} => c.range \in SUBSET Points
      /\ c.op = "addUnitMap" => c.range \subseteq B
  BY <1>4, CallFields DEF MapsStay
<1> HIDE DEF c
<1>6. CASE c.op = "addDeviceId" /\ addDeviceId(c.dev)
  BY <1>3, <1>6 DEF addDeviceId, core, MapsStay
<1>7. CASE c.op = "removeDeviceId" /\ removeDeviceId(c.dev)
  <2>1. EmptyMap \in G BY DEF Closed
  <2>2. smap' \in [Conns -> [Devs -> G]] BY <1>7, <2>1 DEF removeDeviceId, MapsStay
  <2>3. UNCHANGED <<master, defs>> BY <1>7 DEF removeDeviceId
  <2>4. QED BY <1>3, <2>2, <2>3 DEF MapsStay
<1>8. CASE c.op = "addUnitMap" /\ addUnitMap(c.id, c.dev, c.range)
  <2> DEFINE m == IF c.dev \in known THEN master[c.dev] ELSE flagged(EmptyMap, defs)
             new == [master EXCEPT ![c.dev] = addUnit(m, c.id, c.range)]
  <2>1. m \in G BY <1>5 DEF Closed, MapsStay
  <2>2. addUnit(m, c.id, c.range) \in G
    <3> HIDE DEF m
    <3>1. QED BY <1>5, <1>8, <2>1 DEF Closed
  <2>3. new \in [Devs -> G] BY <2>2 DEF MapsStay
  <2>4. reconfigureServers(new, known \cup {c.dev}) /\ UNCHANGED setup
    BY <1>8 DEF addUnitMap
  <2> HIDE DEF new
  <2>5. QED BY <1>3, <2>3, <2>4, ReconfigureStays DEF MapsStay, setup
<1>9. CASE c.op = "removeUnitMap" /\ removeUnitMap(c.id, c.dev)
  <2> DEFINE new == [master EXCEPT ![c.dev] = removeUnit(@, c.id)]
  <2>1. removeUnit(master[c.dev], c.id) \in G BY <1>5, <1>9 DEF Closed, MapsStay
  <2>2. new \in [Devs -> G] BY <2>1 DEF MapsStay
  <2>3. reconfigureServers(new, known \cup {c.dev}) /\ UNCHANGED setup
    BY <1>9 DEF removeUnitMap
  <2> HIDE DEF new
  <2>4. QED BY <1>3, <2>2, <2>3, ReconfigureStays DEF MapsStay, setup
<1>10. CASE c.op = "clearUnmappedData" /\ clearUnmappedData(c.dev, c.range)
  <2>1. clearUnmapped(master[c.dev], c.range) \in G
    BY <1>5, <1>10 DEF Closed, MapsStay
  <2>2. master' \in [Devs -> G] BY <1>10, <2>1 DEF clearUnmappedData, MapsStay
  <2>3. UNCHANGED <<smap, defs>> BY <1>10 DEF clearUnmappedData, setup
  <2>4. QED BY <1>3, <2>2, <2>3 DEF MapsStay
<1>11. QED BY <1>1, <1>6, <1>7, <1>8, <1>9, <1>10 DEF Run

LEMMA UserEventStays ==
  ASSUME NEW G, NEW D, NEW B, Closed(G, D, B), Within(B), TypeOK, MapsStay(G, D, B),
         UserEvent
  PROVE  MapsStay(G, D, B)'
<1>1. UNCHANGED <<master, smap, defs>>
  BY DEF UserEvent, OpenForm, Define, ChangeFormDevice, CloseForm, AddRow, MoveRow,
         RemoveRow, CloseRow, Event, core, setup
<1>2. \A id \in Ids : home[id] # NoDev => rangeOf(id) \subseteq B
  BY DEF TypeOK, MapsStay, Closed, rangeOf
<1>3. \A r \in UnitRanges : r \subseteq B BY DEF Within
<1>4. \A d, r : /\ CallAddDevice(d).op = "addDeviceId"
                /\ CallRemoveDevice(d).op = "removeDeviceId"
                /\ CallClear(d, r).op = "clearUnmappedData"
                /\ \A id : /\ CallRemoveUnit(id, d).op = "removeUnitMap"
                           /\ CallAddUnit(id, d, r).range = r
  BY DEF CallAddDevice, CallRemoveDevice, CallClear, CallRemoveUnit, CallAddUnit
<1>5. \A i \in DOMAIN calls' : calls'[i].op = "addUnitMap" => calls'[i].range \subseteq B
  <2>1. PICK id \in Ids :
          \/ OpenForm(id)
          \/ \E r \in UnitRanges : Define(id, r)
          \/ \E d \in Devs : ChangeFormDevice(id, d)
          \/ CloseForm(id)
          \/ \E d \in Devs, r \in UnitRanges : AddRow(id, d, r)
          \/ \E d \in Devs, r \in UnitRanges : MoveRow(id, d, r)
          \/ RemoveRow(id)
          \/ CloseRow(id)
    BY DEF UserEvent
  <2>2. CASE OpenForm(id) BY <1>4, <2>2 DEF OpenForm, Event
  <2>3. CASE \E r \in UnitRanges : Define(id, r) BY <1>3, <1>4, <2>3 DEF Define, Event
  <2>4. CASE \E d \in Devs : ChangeFormDevice(id, d)
    BY <1>2, <1>4, <2>4 DEF ChangeFormDevice, registered, Event
  <2>5. CASE CloseForm(id) BY <1>4, <2>5 DEF CloseForm, Event
  <2>6. CASE \E d \in Devs, r \in UnitRanges : AddRow(id, d, r)
    BY <1>3, <1>4, <2>6 DEF AddRow, Event
  <2>7. CASE \E d \in Devs, r \in UnitRanges : MoveRow(id, d, r)
    BY <1>3, <1>4, <2>7 DEF MoveRow, Event
  <2>8. CASE RemoveRow(id) BY <1>4, <2>8 DEF RemoveRow, Event
  <2>9. CASE CloseRow(id) BY <1>4, <2>9 DEF CloseRow, Event
  <2>10. QED BY <2>1, <2>2, <2>3, <2>4, <2>5, <2>6, <2>7, <2>8, <2>9
<1>6. QED BY <1>1, <1>5 DEF MapsStay

LEMMA LocalWriteStays ==
  ASSUME NEW G, NEW D, NEW B, Closed(G, D, B), Within(B), TypeOK, MapsStay(G, D, B),
         LocalWrite
  PROVE  MapsStay(G, D, B)'
<1>1. ASSUME NEW d \in Devs, NEW r \in SUBSET B, NEW data \in [r -> Vals],
             setDataLocally(d, data)
      PROVE  MapsStay(G, D, B)'
  <2>1. setData(master[d], data) \in G
    <3>1. r \in SUBSET Points BY DEF Closed
    <3>2. QED BY <3>1 DEF Closed, MapsStay
  <2>2. master' \in [Devs -> G] BY <1>1, <2>1 DEF setDataLocally, MapsStay
  <2>3. smap' \in [Conns -> [Devs -> G]]
    BY <1>1, WriteAllStays DEF setDataLocally, MapsStay
  <2>4. UNCHANGED <<defs, calls>> BY <1>1 DEF setDataLocally, setup
  <2>5. QED BY <2>2, <2>3, <2>4 DEF MapsStay
<1>2. ASSUME NEW id \in Ids, NEW r \in ReqRanges, NEW data \in Data(r), ViewWrite(id, data)
      PROVE  MapsStay(G, D, B)'
  <2>1. home[id] \in Devs BY <1>2 DEF TypeOK, ViewWrite
  <2>2. QED BY <1>1, <1>2, <2>1 DEF ViewWrite, Data, Within
<1>3. ASSUME NEW d \in Devs, NEW r \in ScriptRanges, NEW data \in Data(r),
             ScriptWrite(d, data)
      PROVE  MapsStay(G, D, B)'
  BY <1>1, <1>3 DEF ScriptWrite, Data, Within
<1>4. QED BY <1>2, <1>3 DEF LocalWrite

LEMMA ReconfigureStepStays ==
  ASSUME NEW G, NEW D, NEW B, Closed(G, D, B), Permitted(D), MapsStay(G, D, B), Reconfigure
  PROVE  MapsStay(G, D, B)'
<1>1. ASSUME NEW df \in UserDefs, setModbusDefinitions(df) PROVE MapsStay(G, D, B)'
  <2> DEFINE new == normalised(df)
  <2>1. new \in D BY DEF Permitted
  <2>2. \A m \in G : flagged(m, new) \in G BY <2>1 DEF Closed
  <2>3. /\ defs' = new
        /\ master' = [d \in Devs |-> IF d \in known THEN flagged(master[d], new)
                                     ELSE master[d]]
        /\ smap' = [s \in Conns |-> [d \in Devs |->
             IF s \in listed /\ d \in saddr[s] THEN flagged(smap[s][d], new)
             ELSE smap[s][d]]]
        /\ UNCHANGED calls
    BY <1>1 DEF setModbusDefinitions, normalised
  <2> HIDE DEF new
  <2>4. QED BY <2>1, <2>2, <2>3 DEF MapsStay
<1>2. ASSUME NEW use \in GlobalChoices, setUseGlobalUnitMap(use) PROVE MapsStay(G, D, B)'
  <2> DEFINE new == [d \in Devs |-> IF d \in known THEN [master[d] EXCEPT !.isGlobal = use]
                                   ELSE master[d]]
  <2>1. \A m \in G : [m EXCEPT !.isGlobal = use] \in G BY DEF Closed
  <2>2. new \in [Devs -> G] BY <2>1 DEF MapsStay
  <2>3. reconfigureServers(new, known) /\ UNCHANGED <<defs, calls>>
    BY <1>2 DEF setUseGlobalUnitMap, setup
  <2> HIDE DEF new
  <2>4. QED BY <2>2, <2>3, ReconfigureStays DEF MapsStay
<1>3. QED BY <1>1, <1>2 DEF Reconfigure

LEMMA TakeOverStays ==
  ASSUME NEW G, NEW D, NEW B, Closed(G, D, B), Permitted(D), TypeOK, MapsStay(G, D, B),
         NEW s \in Conns, NEW d \in Devs, NEW servers \in Seq(Conns), servers # <<>>
  PROVE  /\ takeOver(s, d, servers).master \in G
         /\ takeOver(s, d, servers).maps \in [Conns -> G]
<1> DEFINE own == IF s \in listed THEN defs ELSE DefaultDefinitions
           first == servers[1]
           m == master[d]
           r == servedPoints(m)
           copy == [c \in Conns |-> IF c = s THEN m ELSE smap[c][d]]
           src == ensureAutoAddRange(IF first = s THEN own ELSE defs, copy[first], r)
           read == [copy EXCEPT ![first] = src]
           data == [p \in r |-> IF Holds(src, r) THEN Served(src, p) ELSE Served(m, p)]
           before == ensureAutoAddRange(own, read[s], r)
           after == writeData(own, read[s], data, FALSE)
           written == [read EXCEPT ![s] = after]
           defsOf(c) == IF c = s THEN own ELSE defs
           final == [c \in Conns |-> IF c \in listed \cup {s}
                       THEN writeData(defsOf(c), written[c], data, FALSE)
                       ELSE written[c]]
<1>1. own \in D /\ \A c \in Conns : defsOf(c) \in D BY DEF MapsStay, Permitted
<1>2. first \in Conns OBVIOUS
<1>3. m \in G /\ m \in Maps /\ r \in SUBSET B /\ r \in SUBSET Points /\ G \subseteq Maps
  BY DEF MapsStay, Closed, servedPoints
<1>4. copy \in [Conns -> G] BY <1>3 DEF MapsStay
<1>5. takeOver(s, d, servers) =
        IF r = {} THEN [master |-> m, maps |-> copy]
        ELSE IF after = before THEN [master |-> m, maps |-> written]
        ELSE [master |-> setData(m, data), maps |-> final]
  BY DEF takeOver
<1>6. (IF first = s THEN own ELSE defs) \in D BY <1>1 DEF MapsStay
<1>7. \A p \in r : Served(m, p) # Absent BY DEF servedPoints
<1> HIDE DEF own, first, m, copy
<1>8. src \in G BY <1>2, <1>3, <1>4, <1>6 DEF Closed
<1>9. read \in [Conns -> G] BY <1>4, <1>8
<1>10. data \in [r -> Vals]
  <2>1. \A p \in r : Served(m, p) \in Vals BY <1>3, <1>7, ServedType
  <2>2. Holds(src, r) => \A p \in r : Served(src, p) \in Vals
    BY <1>3, <1>8, ServedType DEF Holds
  <2>3. QED BY <2>1, <2>2
<1> HIDE DEF r, src, read, data, defsOf
<1>11. after \in G BY <1>1, <1>3, <1>9, <1>10, WriteDataStays
<1>12. written \in [Conns -> G] BY <1>9, <1>11
<1> HIDE DEF after, before, written
<1>13. final \in [Conns -> G] BY <1>1, <1>3, <1>10, <1>12, WriteDataStays
<1> HIDE DEF final
<1> DEFINE newMaster == setData(m, data)
<1>14. newMaster \in G BY <1>3, <1>10 DEF Closed
<1>15. takeOver(s, d, servers) =
         IF r = {} THEN [master |-> m, maps |-> copy]
         ELSE IF after = before THEN [master |-> m, maps |-> written]
         ELSE [master |-> newMaster, maps |-> final]
  BY <1>5
<1> HIDE DEF newMaster
<1>16. QED BY <1>3, <1>4, <1>12, <1>13, <1>14, <1>15

LEMMA ConnectionStays ==
  ASSUME NEW G, NEW D, NEW B, Closed(G, D, B), Permitted(D), TypeOK, MapsStay(G, D, B),
         Connection
  PROVE  MapsStay(G, D, B)'
<1>1. EmptyMap \in G BY DEF Closed
<1>2. ASSUME NEW s \in Conns, NEW opened \in BOOLEAN, connectDevice(s, opened)
      PROVE  MapsStay(G, D, B)'
  <2> DEFINE servers == IF s \in listed THEN list ELSE Append(list, s)
             taken == [d \in deviceIds |-> takeOver(s, d, servers)]
  <2>1. servers \in Seq(Conns) /\ servers # <<>> BY DEF TypeOK, listed
  <2>2. deviceIds \subseteq Devs BY DEF deviceIds
  <2> HIDE DEF servers
  <2>3. \A d \in deviceIds : /\ taken[d].master \in G
                            /\ taken[d].maps \in [Conns -> G]
    BY <2>1, <2>2, TakeOverStays
  <2>4. /\ master' = [d \in Devs |-> IF d \in deviceIds THEN taken[d].master ELSE master[d]]
        /\ smap' = [c \in Conns |-> [d \in Devs |->
             IF d \notin deviceIds THEN IF c = s THEN EmptyMap ELSE smap[c][d]
             ELSE IF c = s THEN flagged(taken[d].maps[c], defs)
             ELSE taken[d].maps[c]]]
        /\ UNCHANGED <<defs, calls>>
    BY <1>2 DEF connectDevice, servers
  <2> HIDE DEF taken
  <2>5. master' \in [Devs -> G] BY <2>3, <2>4 DEF MapsStay
  <2>6. ASSUME NEW c \in Conns, NEW d \in Devs
        PROVE  (IF d \notin deviceIds THEN IF c = s THEN EmptyMap ELSE smap[c][d]
                ELSE IF c = s THEN flagged(taken[d].maps[c], defs)
                ELSE taken[d].maps[c]) \in G
    <3>1. CASE d \notin deviceIds BY <1>1, <3>1 DEF MapsStay
    <3>2. CASE d \in deviceIds
      <4>1. taken[d].maps[c] \in G BY <2>3, <3>2
      <4>2. flagged(taken[d].maps[c], defs) \in G BY <4>1 DEF Closed, MapsStay
      <4>3. QED BY <3>2, <4>1, <4>2
    <3>3. QED BY <3>1, <3>2
  <2>7. smap' \in [Conns -> [Devs -> G]] BY <2>4, <2>6
  <2>8. QED BY <2>4, <2>5, <2>7 DEF MapsStay
<1>3. ASSUME NEW s \in Conns, disconnectDevice(s) PROVE MapsStay(G, D, B)'
  <2>1. smap' = [smap EXCEPT ![s] = [d \in Devs |-> EmptyMap]] BY <1>3 DEF disconnectDevice
  <2>2. smap' \in [Conns -> [Devs -> G]] BY <1>1, <2>1 DEF MapsStay
  <2>3. UNCHANGED <<master, defs, calls>> BY <1>3 DEF disconnectDevice
  <2>4. QED BY <2>2, <2>3 DEF MapsStay
<1>4. ASSUME NEW s \in Conns, on_errorOccurred(s) PROVE MapsStay(G, D, B)'
  BY <1>4 DEF on_errorOccurred, MapsStay, core
<1>5. CASE closeConnections BY <1>5 DEF closeConnections, MapsStay, core
<1>6. CASE clearAddressSpace BY <1>1, <1>6 DEF clearAddressSpace, MapsStay, setup
<1>7. QED BY <1>2, <1>3, <1>4, <1>5, <1>6 DEF Connection

LEMMA FetchedStays ==
  ASSUME NEW G, NEW D, NEW B, Closed(G, D, B), MapsStay(G, D, B),
         NEW s \in Conns, NEW d \in Devs, NEW r \in SUBSET B
  PROVE  fetched(s, d, r) \in G
BY DEF Closed, MapsStay, fetched

LEMMA ClientWrittenStays ==
  ASSUME NEW G, NEW D, NEW B, Closed(G, D, B), MapsStay(G, D, B),
         NEW s \in Conns, NEW d \in Devs, NEW r \in SUBSET B,
         NEW data \in [r -> Vals], accepts(fetched(s, d, r), r, TRUE)
  PROVE  /\ clientWritten(s, d, data).master \in [Devs -> G]
         /\ clientWritten(s, d, data).maps \in [Conns -> [Devs -> G]]
<1> DEFINE own == [smap EXCEPT ![s][d] = writeServed(fetched(s, d, r), data)]
           newMaster == [master EXCEPT ![d] = setData(@, data)]
           newMaps == writeAll(own, d, data, {s})
<1>1. DOMAIN data = r /\ r \in SUBSET Points BY DEF Closed
<1>2. writeServed(fetched(s, d, r), data) \in G
  BY <1>1, FetchedStays DEF Closed, accepts
<1>3. own \in [Conns -> [Devs -> G]] BY <1>2 DEF MapsStay
<1>4. setData(master[d], data) \in G BY <1>1 DEF Closed, MapsStay
<1>5. newMaster \in [Devs -> G] BY <1>4 DEF MapsStay
<1>6. clientWritten(s, d, data) =
        IF d \in known THEN [master |-> newMaster, maps |-> newMaps]
        ELSE [master |-> master, maps |-> own]
  BY <1>1 DEF clientWritten
<1> HIDE DEF own
<1>7. newMaps \in [Conns -> [Devs -> G]] BY <1>3, WriteAllStays DEF MapsStay
<1> HIDE DEF newMaster, newMaps
<1>8. master \in [Devs -> G] BY DEF MapsStay
<1>9. QED BY <1>3, <1>5, <1>6, <1>7, <1>8

LEMMA ClientRequestStays ==
  ASSUME NEW G, NEW D, NEW B, Closed(G, D, B), Within(B), TypeOK, MapsStay(G, D, B),
         ClientRequest
  PROVE  MapsStay(G, D, B)'
<1>0. PICK s \in Conns, d \in Devs, r \in ReqRanges :
               \/ \E checks \in BOOLEAN : ClientRefused(s, d, r, checks)
               \/ \E checks \in BOOLEAN : ClientRead(s, d, r, checks)
               \/ \E data \in Data(r), checks \in BOOLEAN : ClientWrite(s, d, data, checks)
               \/ \E data \in Data(r), rr \in ReqRanges : ClientReadWrite(s, d, data, rr)
  BY DEF ClientRequest
<1>1. \A x \in ReqRanges : x \in SUBSET B BY DEF Within
<1>2. fetched(s, d, r) \in G BY <1>1, FetchedStays
<1>3. [smap EXCEPT ![s][d] = fetched(s, d, r)] \in [Conns -> [Devs -> G]]
  BY <1>2 DEF MapsStay
<1>4. ASSUME NEW checks \in BOOLEAN, ClientRefused(s, d, r, checks)
      PROVE  MapsStay(G, D, B)'
  <2>1. smap' \in [Conns -> [Devs -> G]] BY <1>3, <1>4 DEF ClientRefused, MapsStay
  <2>2. UNCHANGED <<master, defs, calls>> BY <1>4 DEF ClientRefused, setup
  <2>3. QED BY <2>1, <2>2 DEF MapsStay
<1>5. ASSUME NEW checks \in BOOLEAN, ClientRead(s, d, r, checks)
      PROVE  MapsStay(G, D, B)'
  <2>1. smap' \in [Conns -> [Devs -> G]] BY <1>3, <1>5 DEF ClientRead
  <2>2. UNCHANGED <<master, defs, calls>> BY <1>5 DEF ClientRead, setup
  <2>3. QED BY <2>1, <2>2 DEF MapsStay
<1>6. ASSUME NEW data \in Data(r), NEW checks \in BOOLEAN, ClientWrite(s, d, data, checks)
      PROVE  MapsStay(G, D, B)'
  <2>1. data \in [r -> Vals] /\ DOMAIN data = r BY DEF Data
  <2>2. accepts(fetched(s, d, r), r, TRUE) BY <1>6, <2>1 DEF ClientWrite, refuses
  <2>3. master' \in [Devs -> G] /\ smap' \in [Conns -> [Devs -> G]]
    BY <1>1, <1>6, <2>1, <2>2, ClientWrittenStays DEF ClientWrite
  <2>4. UNCHANGED <<defs, calls>> BY <1>6 DEF ClientWrite, setup
  <2>5. QED BY <2>3, <2>4 DEF MapsStay
<1>7. ASSUME NEW data \in Data(r), NEW rr \in ReqRanges, ClientReadWrite(s, d, data, rr)
      PROVE  MapsStay(G, D, B)'
  <2> DEFINE w == clientWritten(s, d, data)
             e == ensureAutoAddRange(defs, w.maps[s][d], rr)
  <2>1. data \in [r -> Vals] /\ DOMAIN data = r BY DEF Data
  <2>2. accepts(fetched(s, d, r), r, TRUE) BY <1>7, <2>1 DEF ClientReadWrite, refuses
  <2>3. w.master \in [Devs -> G] /\ w.maps \in [Conns -> [Devs -> G]]
    BY <1>1, <2>1, <2>2, ClientWrittenStays
  <2>4. master' = w.master /\ smap' = [w.maps EXCEPT ![s][d] = e]
    BY <1>7 DEF ClientReadWrite
  <2> HIDE DEF w
  <2>5. e \in G BY <1>1, <2>3 DEF Closed, MapsStay
  <2> HIDE DEF e
  <2>6. master' \in [Devs -> G] /\ smap' \in [Conns -> [Devs -> G]] BY <2>3, <2>4, <2>5
  <2>7. UNCHANGED <<defs, calls>> BY <1>7 DEF ClientReadWrite, setup
  <2>8. QED BY <2>6, <2>7 DEF MapsStay
<1>8. QED BY <1>0, <1>4, <1>5, <1>6, <1>7

\* Maps that start in such a set stay there.
LEMMA StepStays ==
  ASSUME NEW G, NEW D, NEW B, Closed(G, D, B), Permitted(D), Within(B), TypeOK,
         MapsStay(G, D, B), [Next]_vars
  PROVE  MapsStay(G, D, B)'
<1>1. CASE UNCHANGED vars BY <1>1 DEF vars, MapsStay
<1>2. QED
  BY <1>1, CallStays, UserEventStays, LocalWriteStays, ReconfigureStepStays,
     ConnectionStays, ClientRequestStays DEF Next

LEMMA InitStays ==
  ASSUME NEW G, NEW D, NEW B, Closed(G, D, B), Permitted(D), Init
  PROVE  MapsStay(G, D, B)
BY DEF Init, Closed, Permitted, MapsStay

-----------------------------------------------------------------------------
(* The local copies are the merged ranges, whatever the settings.          *)

GoodMaps(B) == {m \in Maps : Good(m, B)}

LEMMA GoodMapsAreClosed ==
  ASSUME NEW B \in {Stored, Addr}
  PROVE  Closed(GoodMaps(B), Definitions, B)
<1>1. B \subseteq Points BY WidthAssumption DEF Stored, Addr, Points
<1>2. GoodMaps(B) \subseteq Maps /\ \A m \in Maps : m \in GoodMaps(B) <=> Good(m, B)
  BY DEF GoodMaps
<1>3. EmptyMap \in GoodMaps(B) BY <1>2, EmptyMapType, EmptyMapGood
<1>4. ASSUME NEW m \in GoodMaps(B)
      PROVE  servedPoints(m) \subseteq B /\ \A i \in Ids : m.units[i] \subseteq B
  <2>1. servedPoints(m) \subseteq B BY <1>2, ServedIsInside DEF servedPoints
  <2>2. MappedPoints(m) \subseteq B BY <1>2 DEF Good
  <2>3. QED BY <2>1, <2>2 DEF MappedPoints, UnitPoints
<1>5. ASSUME NEW m \in GoodMaps(B), NEW df \in Definitions PROVE flagged(m, df) \in GoodMaps(B)
  <2>1. flagged(m, df) \in Maps BY <1>2, FlaggedType
  <2>2. SameShape(m, flagged(m, df)) BY <1>2, FlagsKeepShape DEF flagged
  <2>3. QED BY <1>2, <2>1, <2>2, ShapeKeepsGood
<1>6. ASSUME NEW m \in GoodMaps(B), NEW use \in GlobalChoices
      PROVE  [m EXCEPT !.isGlobal = use] \in GoodMaps(B)
  <2>1. [m EXCEPT !.isGlobal = use] \in Maps BY <1>2, DefsAssumption DEF Maps
  <2>2. SameShape(m, [m EXCEPT !.isGlobal = use]) BY <1>2, FlagsKeepShape
  <2>3. QED BY <1>2, <2>1, <2>2, ShapeKeepsGood
<1>7. \A m \in GoodMaps(B), id \in Ids : removeUnit(m, id) \in GoodMaps(B)
  BY <1>2, RemoveUnitType, RemoveUnitGood
<1>8. ASSUME NEW m \in GoodMaps(B), NEW id \in Ids, NEW r \in SUBSET B
      PROVE  addUnit(m, id, r) \in GoodMaps(B)
  <2>1. r \in SUBSET Points BY <1>1
  <2>2. QED BY <1>2, <2>1, AddUnitType, AddUnitGood
<1>9. ASSUME NEW m \in GoodMaps(B), NEW df \in Definitions, NEW r \in SUBSET B
      PROVE  ensureAutoAddRange(df, m, r) \in GoodMaps(B)
  <2>1. r \in SUBSET Points BY <1>1
  <2>2. flagged(m, df) \in GoodMaps(B) BY <1>5
  <2>3. ensureRange(flagged(m, df), r) \in GoodMaps(B)
    BY <1>2, <2>1, <2>2, EnsureRangeType, EnsureRangeGood
  <2>4. QED BY <2>3 DEF ensureAutoAddRange
<1>10. ASSUME NEW m \in GoodMaps(B), NEW r \in SUBSET Points, NEW data \in [r -> Vals]
       PROVE  /\ setData(m, data) \in GoodMaps(B)
              /\ Holds(m, r) => writeServed(m, data) \in GoodMaps(B)
  <2>1. setData(m, data) \in GoodMaps(B)
    BY <1>2, SetDataType, SetDataKeepsShape, ShapeKeepsGood
  <2>2. Holds(m, r) => writeServed(m, data) \in GoodMaps(B)
    BY <1>2, WriteServedType, WriteServedKeepsShape, ShapeKeepsGood
  <2>3. QED BY <2>1, <2>2
<1>11. \A m \in GoodMaps(B), r \in SUBSET Points : clearUnmapped(m, r) \in GoodMaps(B)
  BY <1>2, ClearType, ClearKeepsShape, ShapeKeepsGood
<1> HIDE DEF GoodMaps
<1>12. QED
  BY <1>1, <1>2, <1>3, <1>4, <1>5, <1>6, <1>7, <1>8, <1>9, <1>10, <1>11 DEF Closed

LEMMA AllDefinitionsPermitted == Permitted(Definitions)
BY DefsAssumption DEF Permitted, Definitions, DefaultDefinitions, normalised

\* Every map of the multi-server and of its servers keeps its local copy over
\* the merged range of what is registered (updateDataUnitMap), as long as what
\* is registered and asked for stays within B.
LEMMA MapsAreGood ==
  ASSUME NEW B \in {Stored, Addr}, Within(B)
  PROVE  /\ Init => MapsStay(GoodMaps(B), Definitions, B)
         /\ TypeOK /\ MapsStay(GoodMaps(B), Definitions, B) /\ [Next]_vars
              => MapsStay(GoodMaps(B), Definitions, B)'
<1>1. Closed(GoodMaps(B), Definitions, B) BY GoodMapsAreClosed
<1>2. Permitted(Definitions) BY AllDefinitionsPermitted
<1>3. QED BY <1>1, <1>2, InitStays, StepStays

\* Every address for which isMapped() promises service is served, in every
\* setting (global map, registers added on request, narrow address space, and
\* any switching between them): what getRange() and the merged range cover can
\* be fetched.  The last address of all is excluded: with it and the first one
\* registered the 16-bit length of the merged range is 0
\* (modbusdataunitmap.cpp, updateDataUnitMap).
THEOREM MappedAddressesAreServed == Within(Stored) => (Spec => []MappedIsServed)
<1> SUFFICES ASSUME Within(Stored) PROVE Spec => []MappedIsServed
  OBVIOUS
<1>1. MapsStay(GoodMaps(Stored), Definitions, Stored) => MappedIsServed
  <2> SUFFICES ASSUME MapsStay(GoodMaps(Stored), Definitions, Stored),
                      NEW s \in Conns, NEW d \in Devs, NEW p \in mappedBy(s, d)
               PROVE  Served(smap[s][d], p) # Absent
    BY DEF MappedIsServed
  <2> DEFINE m == smap[s][d]
  <2>1. m \in Maps /\ Good(m, Stored) BY DEF MapsStay, GoodMaps
  <2>2. p \in (IF m.isGlobal THEN Entries(m) ELSE MappedPoints(m)) BY DEF mappedBy
  <2> HIDE DEF m
  <2>3. m.isGlobal => Served(m, p) # Absent
    BY <2>1, <2>2, AbsentAssumption DEF Served, Entries, Maps
  <2>4. ASSUME ~m.isGlobal PROVE Served(m, p) # Absent
    <3>1. InMergedRange(m, p) BY <2>1, <2>2, <2>4, AllIsHeld DEF Good
    <3>2. p \in Points BY <2>1, <2>2, <2>4, WidthAssumption DEF Good, Stored, Points
    <3>3. QED BY <2>1, <2>4, <3>1, <3>2 DEF Served, Good, LocalIsMerged
  <2>5. QED BY <2>3, <2>4 DEF m
<1>2. Stored \in {Stored, Addr} OBVIOUS
<1>3. /\ Init => MapsStay(GoodMaps(Stored), Definitions, Stored)
      /\ TypeOK /\ MapsStay(GoodMaps(Stored), Definitions, Stored) /\ [Next]_vars
           => MapsStay(GoodMaps(Stored), Definitions, Stored)'
  BY <1>2, MapsAreGood
<1>4. QED BY <1>1, <1>3, TypeCorrect, PTL DEF Spec

-----------------------------------------------------------------------------
(* An acknowledged write.                                                  *)

\* A server that is told of a write shows it wherever it promises service:
\* what it cannot fetch it does not serve in part.
LEMMA WrittenIsServed ==
  ASSUME NEW df \in Definitions, NEW m \in GoodMaps(Addr), NEW r \in SUBSET Addr,
         NEW data \in [r -> Vals], NEW inRequest, NEW a \in r,
         isMapped(writeData(df, m, data, inRequest), r)
  PROVE  Served(writeData(df, m, data, inRequest), a) \in {data[a], Absent}
<1> DEFINE e == ensureAutoAddRange(df, m, r)
           n == writeData(df, m, data, inRequest)
<1>1. Closed(GoodMaps(Addr), Definitions, Addr) BY GoodMapsAreClosed
<1>2. e \in GoodMaps(Addr) BY <1>1 DEF Closed
<1>3. e \in Maps /\ Good(e, Addr) BY <1>2 DEF GoodMaps
<1>4. n = IF accepts(e, r, inRequest) THEN writeServed(e, data) ELSE e
  BY DEF writeData
<1>5. a \in Points BY WidthAssumption DEF Addr, Points
<1> HIDE DEF e, n
<1>6. CASE accepts(e, r, inRequest)
  <2> DEFINE glob == [x \in Stored |-> IF x \in DOMAIN data THEN data[x] ELSE e.global[x]]
             loc == [p \in Points |-> IF p \in DOMAIN data THEN data[p] ELSE e.local[p]]
  <2>1. n = writeServed(e, data) BY <1>4, <1>6
  <2>2. CASE e.isGlobal
    <3>1. n = [e EXCEPT !.global = glob] BY <2>1, <2>2 DEF writeServed
    <3>2. a \in Stored => glob[a] = data[a] OBVIOUS
    <3> HIDE DEF glob
    <3>3. n.isGlobal /\ n.global = glob /\ Entries(n) \subseteq Stored
      BY <1>3, <2>2, <3>1 DEF Maps, Entries
    <3>4. QED BY <3>2, <3>3 DEF Served, n
  <2>3. CASE ~e.isGlobal
    <3>1. n = [e EXCEPT !.local = loc] BY <2>1, <2>3 DEF writeServed
    <3>2. loc[a] = data[a] BY <1>5
    <3> HIDE DEF loc
    <3>3. ~n.isGlobal /\ n.local = loc BY <1>3, <2>3, <3>1 DEF Maps
    <3>4. QED BY <3>2, <3>3 DEF Served, n
  <2>4. QED BY <2>2, <2>3
<1>7. CASE ~accepts(e, r, inRequest)
  <2>1. n = e /\ isMapped(e, r) BY <1>4, <1>7 DEF n
  <2>2. PICK p \in r : Served(e, p) = Absent BY <1>7, <2>1 DEF accepts, Holds
  <2>3. ~e.isGlobal
    <3> SUFFICES ASSUME e.isGlobal PROVE FALSE OBVIOUS
    <3>1. p \in Entries(e) BY <2>1 DEF isMapped
    <3>2. QED BY <1>3, <2>2, <3>1, AbsentAssumption DEF Served, Entries, Maps
  <2>4. r \subseteq MappedPoints(e) /\ MappedPoints(e) \subseteq Addr
    BY <1>3, <2>1, <2>3 DEF isMapped, coveredByUnits, Good
  <2>5. p \in Points BY WidthAssumption DEF Addr, Points
  <2>6. ~InMergedRange(e, p) BY <1>3, <2>2, <2>3, <2>5 DEF Served, Good, LocalIsMerged
  <2>7. ~InMergedRange(e, a) BY <1>3, <1>5, <2>4, <2>6, AllOrNothing
  <2>8. Served(e, a) = Absent BY <1>3, <1>5, <2>3, <2>7 DEF Served, Good, LocalIsMerged
  <2>9. QED BY <2>1, <2>8 DEF n
<1>8. QED BY <1>6, <1>7

\* The master map has a write at every address that has an entry.
LEMMA SetDataStores ==
  ASSUME NEW m \in Maps, NEW r \in SUBSET Addr, NEW data \in [r -> Vals],
         NEW a \in Stored
  PROVE  setData(m, data).global[a] = IF a \in r \cap Entries(m) THEN data[a] ELSE m.global[a]
<1> DEFINE hit(x) == \E p \in DOMAIN data : p % Width = x
           new(x) == data[CHOOSE p \in DOMAIN data : p % Width = x]
           loc == [p \in Points |-> IF m.local[p] # Absent /\ p \in Addr /\ hit(p)
                                    THEN new(p) ELSE m.local[p]]
           glob == [x \in Stored |-> IF x \in Entries(m) /\ hit(x) THEN new(x) ELSE m.global[x]]
<1>1. setData(m, data) = [m EXCEPT !.local = loc, !.global = glob]
  BY DEF setData
<1>2. \A p \in r : p % Width = p BY WidthAssumption DEF Addr
<1>3. \A x : hit(x) <=> x \in r BY <1>2
<1>4. \A x : x \in r => new(x) = data[x] BY <1>2
<1> HIDE DEF hit, new
<1>5. glob[a] = IF a \in r \cap Entries(m) THEN data[a] ELSE m.global[a] BY <1>3, <1>4
<1> HIDE DEF loc, glob
<1>6. QED BY <1>1, <1>5 DEF Maps

\* Once a client's write is acknowledged the views show it, and so does every
\* connection that serves those registers (ModbusServer::writeData,
\* ModbusMultiServer::on_dataWritten), in every setting: a server either
\* takes all of a write or serves none of its range.
THEOREM AcknowledgedWritesAreVisible ==
  Within(Addr) => (Spec => AcknowledgedWriteIsVisible)
<1> SUFFICES ASSUME Within(Addr) PROVE Spec => AcknowledgedWriteIsVisible
  OBVIOUS
<1>1. TypeOK /\ MapsStay(GoodMaps(Addr), Definitions, Addr) /\ [Next]_vars
        => [\A s \in online, d \in known, r \in ReqRanges :
              \A data \in Data(r), checks \in BOOLEAN :
                answer' = [dev |-> d, values |-> NoValues] /\ ClientWrite(s, d, data, checks) =>
                  /\ \A a \in r \cap Entries(master[d]) : master'[d].global[a] = data[a]
                  /\ \A t \in listed, a \in r :
                       isMapped(smap'[t][d], r) => Served(smap'[t][d], a) \in {data[a], Absent}]_vars
  <2> SUFFICES ASSUME TypeOK, MapsStay(GoodMaps(Addr), Definitions, Addr),
                      NEW s \in online, NEW d \in known, NEW r \in ReqRanges,
                      NEW data \in Data(r), NEW checks \in BOOLEAN,
                      ClientWrite(s, d, data, checks)
               PROVE  /\ \A a \in r \cap Entries(master[d]) : master'[d].global[a] = data[a]
                      /\ \A t \in listed, a \in r :
                           isMapped(smap'[t][d], r)
                             => Served(smap'[t][d], a) \in {data[a], Absent}
    OBVIOUS
  <2> DEFINE own == [smap EXCEPT ![s][d] = writeServed(fetched(s, d, r), data)]
             newMaps == writeAll(own, d, data, {s})
             newMaster == [master EXCEPT ![d] = setData(@, data)]
  <2>1. s \in Conns /\ d \in Devs /\ listed \subseteq Conns BY DEF TypeOK, listed
  <2>2. r \in SUBSET Addr /\ data \in [r -> Vals] /\ DOMAIN data = r
    BY DEF Data, Within
  <2>3. clientWritten(s, d, data) = [master |-> newMaster, maps |-> newMaps]
    BY <2>2 DEF clientWritten
  <2>4. master' = newMaster /\ smap' = newMaps BY <2>3 DEF ClientWrite
  <2>5. Closed(GoodMaps(Addr), Definitions, Addr) BY GoodMapsAreClosed
  <2>6. own \in [Conns -> [Devs -> GoodMaps(Addr)]]
    <3>1. accepts(fetched(s, d, r), r, TRUE) BY <2>2 DEF ClientWrite, refuses
    <3>2. fetched(s, d, r) \in GoodMaps(Addr) BY <2>1, <2>2, <2>5, FetchedStays
    <3>3. r \in SUBSET Points BY <2>2, <2>5 DEF Closed
    <3>4. writeServed(fetched(s, d, r), data) \in GoodMaps(Addr)
      BY <2>2, <2>5, <3>1, <3>2, <3>3 DEF Closed, accepts
    <3>5. QED BY <2>1, <3>4 DEF MapsStay
  <2>7. \A a \in r \cap Entries(master[d]) : master'[d].global[a] = data[a]
    <3>1. master[d] \in Maps BY <2>1 DEF TypeOK
    <3>2. master'[d] = setData(master[d], data) BY <2>1, <2>4 DEF TypeOK
    <3>3. Entries(master[d]) \subseteq Stored BY DEF Entries
    <3>4. QED BY <2>2, <3>1, <3>2, <3>3, SetDataStores
  <2> HIDE DEF own
  <2>8. \A t \in listed : smap'[t][d] = writeData(defs, own[t][d], data, t \in {s})
    BY <2>1, <2>4, <2>6 DEF writeAll
  <2>9. defs \in Definitions BY DEF TypeOK
  <2>10. ASSUME NEW t \in listed, NEW a \in r, isMapped(smap'[t][d], r)
         PROVE  Served(smap'[t][d], a) \in {data[a], Absent}
    <3>1. own[t][d] \in GoodMaps(Addr) BY <2>1, <2>6
    <3> DEFINE m == own[t][d]
               q == t \in {s}
    <3>2. m \in GoodMaps(Addr) /\ smap'[t][d] = writeData(defs, m, data, q)
      BY <2>8, <3>1
    <3> HIDE DEF m, q
    <3>3. QED BY <2>2, <2>9, <2>10, <3>2, WrittenIsServed
  <2>11. QED BY <2>7, <2>10
<1>2. Addr \in {Stored, Addr} OBVIOUS
<1>3. /\ Init => MapsStay(GoodMaps(Addr), Definitions, Addr)
      /\ TypeOK /\ MapsStay(GoodMaps(Addr), Definitions, Addr) /\ [Next]_vars
           => MapsStay(GoodMaps(Addr), Definitions, Addr)'
  BY <1>2, MapsAreGood
<1>4. QED BY <1>1, <1>3, TypeCorrect, PTL DEF Spec, AcknowledgedWriteIsVisible

-----------------------------------------------------------------------------
(* Gaps.                                                                   *)

\* A reply carries registers that were registered by views, or added on
\* request, or lie in a map in global mode: the gaps that merging the ranges
\* leaves are never served to a client (ModbusServer::readData).
THEOREM GapsAreNeverServed == Spec => GapsAreRefused
<1>1. TypeOK /\ [Next]_vars
        => [answer' # answer => \A a \in Stored : answer'.values[a] # Absent =>
              \E s \in online : LET m == smap'[s][answer'.dev]
                                IN m.isGlobal \/ a \in MappedPoints(m)]_vars
  <2> SUFFICES ASSUME TypeOK, Next, answer' # answer, NEW a \in Stored,
                      answer'.values[a] # Absent
               PROVE  \E s \in online : \/ smap'[s][answer'.dev].isGlobal
                                        \/ a \in MappedPoints(smap'[s][answer'.dev])
    BY DEF vars
  <2>1. ASSUME NEW s \in online, NEW d \in Devs, NEW r, NEW m \in Maps,
               accepts(m, r, TRUE), answer' = replied(d, r, m), smap'[s][d] = m
        PROVE  smap'[s][answer'.dev].isGlobal \/ a \in MappedPoints(smap'[s][answer'.dev])
    <3>1. answer'.dev = d BY <2>1 DEF replied
    <3>2. a \in r BY <2>1 DEF replied
    <3>3. m.isGlobal \/ r \subseteq MappedPoints(m)
      BY <2>1 DEF accepts, isMapped, coveredByUnits
    <3>4. QED BY <2>1, <3>1, <3>2, <3>3
  <2>2. \A d : answer' # [dev |-> d, values |-> NoValues] BY DEF NoValues
  <2>3. ClientRequest
    BY DEF Next, UserEvent, OpenForm, Define, ChangeFormDevice, CloseForm, AddRow, MoveRow,
           RemoveRow, CloseRow, Event, Call, LocalWrite, ViewWrite, ScriptWrite,
           setDataLocally, Reconfigure, setModbusDefinitions, setUseGlobalUnitMap,
           Connection, connectDevice, disconnectDevice, on_errorOccurred,
           closeConnections, clearAddressSpace
  <2>4. PICK s \in Conns, d \in Devs, r \in ReqRanges :
          \/ \E checks \in BOOLEAN : ClientRefused(s, d, r, checks)
          \/ \E checks \in BOOLEAN : ClientRead(s, d, r, checks)
          \/ \E data \in Data(r), checks \in BOOLEAN : ClientWrite(s, d, data, checks)
          \/ \E data \in Data(r), rr \in ReqRanges : ClientReadWrite(s, d, data, rr)
    BY <2>3 DEF ClientRequest
  <2>5. \A x \in ReqRanges : x \in SUBSET Points BY RangesAssumption
  <2>6. ASSUME NEW checks \in BOOLEAN, ClientRead(s, d, r, checks)
        PROVE  \E t \in online : \/ smap'[t][answer'.dev].isGlobal
                                 \/ a \in MappedPoints(smap'[t][answer'.dev])
    <3> DEFINE m == fetched(s, d, r)
    <3>1. m \in Maps BY <2>5, FetchedType DEF TypeOK
    <3>2. accepts(m, r, TRUE) BY <2>6 DEF ClientRead, refuses
    <3>3. answer' = replied(d, r, m) /\ smap' = [smap EXCEPT ![s][d] = m] /\ s \in online
      BY <2>6 DEF ClientRead, addressed
    <3> HIDE DEF m
    <3>4. smap'[s][d] = m BY <3>3 DEF TypeOK
    <3>5. QED BY <2>1, <3>1, <3>2, <3>3, <3>4
  <2>7. ASSUME NEW data \in Data(r), NEW rr \in ReqRanges, ClientReadWrite(s, d, data, rr)
        PROVE  \E t \in online : \/ smap'[t][answer'.dev].isGlobal
                                 \/ a \in MappedPoints(smap'[t][answer'.dev])
    <3> DEFINE w == clientWritten(s, d, data)
               m == ensureAutoAddRange(defs, w.maps[s][d], rr)
    <3>1. w.maps \in [Conns -> [Devs -> Maps]] BY <2>5, ClientWrittenType DEF Data
    <3>2. /\ smap' = [w.maps EXCEPT ![s][d] = m] /\ s \in online
          /\ answer' = IF accepts(m, rr, TRUE) THEN replied(d, rr, m)
                       ELSE [dev |-> d, values |-> NoValues]
      BY <2>7 DEF ClientReadWrite, addressed
    <3> HIDE DEF w
    <3>3. m \in Maps BY <2>5, <3>1, AutoAddType DEF TypeOK
    <3> HIDE DEF m
    <3>4. smap'[s][d] = m BY <3>1, <3>2
    <3>5. accepts(m, rr, TRUE) /\ answer' = replied(d, rr, m) BY <2>2, <3>2
    <3>6. QED BY <2>1, <3>2, <3>3, <3>4, <3>5
  <2>8. QED BY <2>2, <2>4, <2>6, <2>7 DEF ClientRefused, ClientWrite
<1>2. QED BY <1>1, TypeCorrect, PTL DEF Spec, GapsAreRefused

-----------------------------------------------------------------------------
(* The two copies of the master maps.                                      *)

AlwaysWide == \A df \in UserDefs : df.wide

MastersAgree ==
  /\ defs.wide
  /\ \A d \in Devs : master[d].wide /\ CopiesAgree(master[d])

LEMMA WideFlagged ==
  ASSUME NEW m \in Maps, NEW df \in Definitions
  PROVE  /\ flagged(m, df).wide = df.wide
         /\ flagged(m, df).local = m.local /\ flagged(m, df).global = m.global
BY DEF flagged, Maps

LEMMA AddUnitAgrees ==
  ASSUME NEW m \in Maps, m.wide, NEW id \in Ids, NEW r \in SUBSET Points
  PROVE  CopiesAgree(addUnit(m, id, r)) /\ addUnit(m, id, r).wide
<1> DEFINE n == [m EXCEPT !.units[id] = r]
<1>1. n \in Maps /\ n.wide BY DEF Maps
<1>2. addUnit(m, id, r) = updateDataUnitMap(n) BY DEF addUnit
<1> HIDE DEF n
<1>3. updateDataUnitMap(n).wide BY <1>1 DEF updateDataUnitMap, Maps
<1>4. QED BY <1>1, <1>2, <1>3, UpdateAgrees

LEMMA WritesKeepWide ==
  ASSUME NEW m \in Maps, m.wide, NEW data, NEW r
  PROVE  setData(m, data).wide /\ clearUnmapped(m, r).wide
BY DEF setData, clearUnmapped

LEMMA SetDataKeepsAgreeing ==
  ASSUME TypeOK, MastersAgree, NEW d \in Devs, NEW r \in SUBSET Points, NEW data \in [r -> Vals]
  PROVE  \A e \in Devs : LET m == [master EXCEPT ![d] = setData(@, data)][e]
                         IN m.wide /\ CopiesAgree(m)
<1>1. master[d] \in Maps /\ master[d].wide /\ CopiesAgree(master[d])
  BY DEF TypeOK, MastersAgree
<1>2. setData(master[d], data).wide /\ CopiesAgree(setData(master[d], data))
  BY <1>1, SetDataAgrees, WritesKeepWide
<1>3. QED BY <1>2 DEF TypeOK, MastersAgree

LEMMA CallKeepsAgreeing == TypeOK /\ MastersAgree /\ Call => MastersAgree'
<1> SUFFICES ASSUME TypeOK, MastersAgree, Call PROVE MastersAgree'
  OBVIOUS
<1> DEFINE c == Head(calls)
<1>1. c \in Calls /\ Run(c) BY DEF Call, TypeOK
<1>2. /\ c.dev \in Devs
      /\ c.op \in {"addUnitMap", "removeUnitMap"} => c.id \in Ids
      /\ c.op \in {"addUnitMap", "clearUnmappedData"} => c.range \in SUBSET Points
  BY <1>1, CallFields
<1> HIDE DEF c
<1>3. master[c.dev] \in Maps /\ master[c.dev].wide /\ CopiesAgree(master[c.dev])
  BY <1>2 DEF TypeOK, MastersAgree
<1>4. CASE addDeviceId(c.dev) \/ removeDeviceId(c.dev)
  BY <1>4 DEF addDeviceId, removeDeviceId, core, MastersAgree
<1>5. CASE c.op = "addUnitMap" /\ addUnitMap(c.id, c.dev, c.range)
  <2> DEFINE m == IF c.dev \in known THEN master[c.dev] ELSE flagged(EmptyMap, defs)
             n == addUnit(m, c.id, c.range)
  <2>1. m \in Maps /\ m.wide
    BY <1>3, EmptyMapType, FlaggedType, WideFlagged DEF TypeOK, MastersAgree
  <2> HIDE DEF m
  <2>2. CopiesAgree(n) /\ n.wide BY <1>2, <1>5, <2>1, AddUnitAgrees
  <2>3. master' = [master EXCEPT ![c.dev] = n] /\ UNCHANGED defs
    BY <1>5 DEF addUnitMap, reconfigureServers, setup, m
  <2> HIDE DEF n
  <2>4. QED BY <2>2, <2>3 DEF TypeOK, MastersAgree
<1>6. CASE c.op = "removeUnitMap" /\ removeUnitMap(c.id, c.dev)
  <2> DEFINE n == removeUnit(master[c.dev], c.id)
  <2>1. n = addUnit(master[c.dev], c.id, {}) BY DEF addUnit, removeUnit
  <2>2. CopiesAgree(n) /\ n.wide BY <1>2, <1>3, <1>6, <2>1, AddUnitAgrees
  <2>3. master' = [master EXCEPT ![c.dev] = n] /\ UNCHANGED defs
    BY <1>6 DEF removeUnitMap, reconfigureServers, setup
  <2> HIDE DEF n
  <2>4. QED BY <2>2, <2>3 DEF TypeOK, MastersAgree
<1>7. CASE c.op = "clearUnmappedData" /\ clearUnmappedData(c.dev, c.range)
  <2> DEFINE n == clearUnmapped(master[c.dev], c.range)
  <2>1. CopiesAgree(n) /\ n.wide BY <1>3, ClearAgrees, WritesKeepWide
  <2>2. master' \in {master, [master EXCEPT ![c.dev] = n]} /\ UNCHANGED defs
    BY <1>7 DEF clearUnmappedData, setup
  <2> HIDE DEF n
  <2>3. QED BY <2>1, <2>2 DEF TypeOK, MastersAgree
<1>8. QED BY <1>1, <1>4, <1>5, <1>6, <1>7 DEF Run

LEMMA ReconfigureKeepsAgreeing ==
  AlwaysWide /\ TypeOK /\ MastersAgree /\ Reconfigure => MastersAgree'
<1>1. ASSUME AlwaysWide, TypeOK, MastersAgree, NEW df \in UserDefs, setModbusDefinitions(df)
      PROVE  MastersAgree'
  <2> DEFINE new == normalised(df)
  <2>1. new \in Definitions /\ new.wide
    BY <1>1, DefsAssumption DEF AlwaysWide, Definitions, normalised
  <2>2. /\ defs' = new
        /\ master' = [d \in Devs |-> IF d \in known THEN flagged(master[d], new)
                                     ELSE master[d]]
    BY <1>1 DEF setModbusDefinitions, normalised
  <2> HIDE DEF new
  <2>3. \A d \in Devs : master[d] \in Maps BY <1>1 DEF TypeOK
  <2>4. \A d \in Devs : CopiesAgree(flagged(master[d], new)) /\ flagged(master[d], new).wide
    BY <1>1, <2>1, <2>3, WideFlagged DEF CopiesAgree, MastersAgree
  <2>5. QED BY <1>1, <2>1, <2>2, <2>4 DEF MastersAgree
<1>2. ASSUME TypeOK, MastersAgree, NEW use \in GlobalChoices, setUseGlobalUnitMap(use)
      PROVE  MastersAgree'
  <2>1. /\ master' = [d \in Devs |-> IF d \in known THEN [master[d] EXCEPT !.isGlobal = use]
                                     ELSE master[d]]
        /\ UNCHANGED defs
    BY <1>2 DEF setUseGlobalUnitMap, reconfigureServers, setup
  <2>2. \A m \in Maps : /\ [m EXCEPT !.isGlobal = use].wide = m.wide
                        /\ [m EXCEPT !.isGlobal = use].local = m.local
                        /\ [m EXCEPT !.isGlobal = use].global = m.global
    BY DEF Maps
  <2>3. QED BY <1>2, <2>1, <2>2 DEF TypeOK, MastersAgree, CopiesAgree
<1>3. QED BY <1>1, <1>2 DEF Reconfigure

LEMMA ConnectionKeepsAgreeing == TypeOK /\ MastersAgree /\ Connection => MastersAgree'
<1>1. ASSUME TypeOK, MastersAgree, NEW s \in Conns, NEW opened \in BOOLEAN,
             connectDevice(s, opened)
      PROVE  MastersAgree'
  <2> DEFINE servers == IF s \in listed THEN list ELSE Append(list, s)
             taken == [d \in deviceIds |-> takeOver(s, d, servers)]
  <2>1. servers \in Seq(Conns) /\ servers # <<>> BY <1>1 DEF TypeOK, listed
  <2>2. deviceIds \subseteq Devs BY DEF deviceIds
  <2>3. /\ master' = [d \in Devs |-> IF d \in deviceIds THEN taken[d].master ELSE master[d]]
        /\ UNCHANGED defs
    BY <1>1 DEF connectDevice
  <2> HIDE DEF servers
  <2>4. ASSUME NEW d \in deviceIds
        PROVE  taken[d].master.wide /\ CopiesAgree(taken[d].master)
    <3>0. PICK r \in SUBSET Points : \E data \in [r -> Vals] :
            taken[d].master \in {master[d], setData(master[d], data)}
      BY <1>1, <2>1, <2>2, TakeOverType
    <3>1. PICK data \in [r -> Vals] :
            taken[d].master \in {master[d], setData(master[d], data)}
      BY <3>0
    <3>2. master[d] \in Maps /\ master[d].wide /\ CopiesAgree(master[d])
      BY <1>1, <2>2 DEF TypeOK, MastersAgree
    <3>3. setData(master[d], data).wide /\ CopiesAgree(setData(master[d], data))
      BY <3>2, SetDataAgrees, WritesKeepWide
    <3> HIDE DEF taken
    <3>4. QED BY <3>1, <3>2, <3>3
  <2> HIDE DEF taken
  <2>5. QED BY <1>1, <2>3, <2>4 DEF MastersAgree
<1>2. ASSUME MastersAgree, clearAddressSpace PROVE MastersAgree'
  <2>1. EmptyMap.wide /\ CopiesAgree(EmptyMap)
    BY WidthAssumption DEF EmptyMap, CopiesAgree, Stored, Points
  <2>2. QED BY <1>2, <2>1 DEF clearAddressSpace, setup, MastersAgree
<1>3. QED
  BY <1>1, <1>2 DEF Connection, disconnectDevice, on_errorOccurred, closeConnections, core,
     MastersAgree

LEMMA WritesKeepAgreeing ==
  TypeOK /\ MastersAgree /\ (LocalWrite \/ ClientRequest) => MastersAgree'
<1>1. ASSUME TypeOK, MastersAgree, NEW d \in Devs, NEW r \in SUBSET Points,
             NEW data \in [r -> Vals],
             master' \in {master, [master EXCEPT ![d] = setData(@, data)]}, defs' = defs
      PROVE  MastersAgree'
  <2> DEFINE new == [master EXCEPT ![d] = setData(@, data)]
  <2>1. \A e \in Devs : new[e].wide /\ CopiesAgree(new[e]) BY <1>1, SetDataKeepsAgreeing
  <2>2. master' \in {master, new} BY <1>1
  <2> HIDE DEF new
  <2>3. QED BY <1>1, <2>1, <2>2 DEF MastersAgree
<1>2. ASSUME TypeOK, MastersAgree, LocalWrite PROVE MastersAgree'
  <2>1. \E d \in Devs, r \in SUBSET Points : \E data \in [r -> Vals] : setDataLocally(d, data)
    <3>1. CASE \E id \in Ids, r \in ReqRanges : \E data \in Data(r) : ViewWrite(id, data)
      BY <1>2, <3>1, RangesAssumption DEF ViewWrite, TypeOK, Data
    <3>2. CASE \E d \in Devs, r \in ScriptRanges : \E data \in Data(r) : ScriptWrite(d, data)
      BY <3>2, RangesAssumption DEF ScriptWrite, Data
    <3>3. QED BY <1>2, <3>1, <3>2 DEF LocalWrite
  <2>2. PICK d \in Devs, r \in SUBSET Points :
          \E data \in [r -> Vals] : setDataLocally(d, data)
    BY <2>1
  <2>3. PICK data \in [r -> Vals] : setDataLocally(d, data)
    BY <2>2
  <2>4. QED BY <1>1, <1>2, <2>3 DEF setDataLocally, setup
<1>3. ASSUME TypeOK, MastersAgree, ClientRequest PROVE MastersAgree'
  <2>1. PICK s \in Conns, d \in Devs, r \in ReqRanges :
          \/ \E checks \in BOOLEAN : ClientRefused(s, d, r, checks)
          \/ \E checks \in BOOLEAN : ClientRead(s, d, r, checks)
          \/ \E data \in Data(r), checks \in BOOLEAN : ClientWrite(s, d, data, checks)
          \/ \E data \in Data(r), rr \in ReqRanges : ClientReadWrite(s, d, data, rr)
    BY <1>3 DEF ClientRequest
  <2>2. \A data : clientWritten(s, d, data).master
                    \in {master, [master EXCEPT ![d] = setData(@, data)]}
    BY DEF clientWritten
  <2>3. ASSUME NEW data \in Data(r), master' = clientWritten(s, d, data).master, defs' = defs
        PROVE  MastersAgree'
    BY <1>1, <1>3, <2>2, <2>3, RangesAssumption DEF Data
  <2>4. QED
    BY <1>3, <2>1, <2>3 DEF ClientRefused, ClientRead, ClientWrite, ClientReadWrite, setup,
       MastersAgree
<1>4. QED BY <1>2, <1>3

LEMMA AgreeingStart == Init => MastersAgree
BY WidthAssumption DEF Init, MastersAgree, DefaultDefinitions, EmptyMap, CopiesAgree,
   Stored, Points

LEMMA AgreeingStep == AlwaysWide /\ TypeOK /\ MastersAgree /\ [Next]_vars => MastersAgree'
<1> SUFFICES ASSUME AlwaysWide, TypeOK, MastersAgree, [Next]_vars PROVE MastersAgree'
  OBVIOUS
<1>1. CASE UNCHANGED vars BY <1>1 DEF vars, MastersAgree
<1>2. CASE UserEvent
  BY <1>2 DEF UserEvent, OpenForm, Define, ChangeFormDevice, CloseForm, AddRow, MoveRow,
     RemoveRow, CloseRow, Event, core, setup, MastersAgree
<1>3. QED
  BY <1>1, <1>2, CallKeepsAgreeing, WritesKeepAgreeing, ReconfigureKeepsAgreeing,
     ConnectionKeepsAgreeing DEF Next

\* The two copies inside a master map never part, whatever is registered,
\* written and connected: every operation that changes one changes the other,
\* in global mode as well (ModbusDataUnitMap::setData, updateDataUnitMap,
\* clearUnmappedData).  It takes the 6-digit address space: in the 5-digit one
\* a rebuilt local copy shows 0 where the global copy keeps a value.
THEOREM MasterMapsAgree == AlwaysWide => (Spec => []MasterCopiesAgree)
<1> SUFFICES ASSUME AlwaysWide PROVE Spec => []MasterCopiesAgree
  OBVIOUS
<1>1. TypeOK /\ MastersAgree /\ [Next]_vars => MastersAgree' BY AgreeingStep
<1>2. MastersAgree => MasterCopiesAgree BY DEF MastersAgree, CopiesAgree, MasterCopiesAgree
<1>3. QED BY <1>1, <1>2, AgreeingStart, TypeCorrect, PTL DEF Spec

-----------------------------------------------------------------------------
(* The registry: what the views hold, in the middle of an event too.       *)

MaybeDevs == Devs \cup {NoDev}

\* The calls still to be made bring view id, which holds a reference to unit
\* id x and may have its range registered at y, to home[id].
ToMove(id, x, y) ==
  /\ home[id] # NoDev
  /\ \E r \in SUBSET Points :
       \/ /\ x # NoDev /\ y = x
          /\ calls = <<CallRemoveUnit(id, x), CallRemoveDevice(x), CallAddDevice(home[id]),
                       CallAddUnit(id, home[id], r)>>
       \/ /\ x # NoDev /\ y = NoDev
          /\ calls = <<CallRemoveDevice(x), CallAddDevice(home[id]),
                       CallAddUnit(id, home[id], r)>>
       \/ /\ x = NoDev /\ y = NoDev
          /\ calls = <<CallAddDevice(home[id]), CallAddUnit(id, home[id], r)>>
       \/ x = NoDev /\ y = NoDev /\ calls = <<CallAddDevice(home[id])>>
       \/ x = home[id] /\ y = home[id] /\ calls = <<CallAddUnit(id, home[id], r)>>

ToClose(id, x, y) ==
  /\ home[id] = NoDev
  /\ \/ x # NoDev /\ y = x /\ calls = <<CallRemoveDevice(x), CallRemoveUnit(id, x)>>
     \/ x = NoDev /\ y # NoDev /\ calls = <<CallRemoveUnit(id, y)>>
     \/ x # NoDev /\ y = x /\ calls = <<CallRemoveUnit(id, x), CallRemoveDevice(x)>>
     \/ x # NoDev /\ y = NoDev /\ calls = <<CallRemoveDevice(x)>>
     \/ \E e \in Devs, r \in SUBSET Points :
          \/ /\ x # NoDev /\ y = x
             /\ calls = <<CallRemoveUnit(id, x), CallRemoveDevice(x), CallClear(e, r)>>
          \/ x # NoDev /\ y = NoDev /\ calls = <<CallRemoveDevice(x), CallClear(e, r)>>
          \/ x = NoDev /\ y = NoDev /\ calls = <<CallClear(e, r)>>

Left(held, owner) ==
  \/ calls = <<>> /\ held = home /\ owner = home
  \/ \E id \in Ids, x, y \in MaybeDevs :
       /\ held = [home EXCEPT ![id] = x]
       /\ owner = [home EXCEPT ![id] = y]
       /\ ToMove(id, x, y) \/ ToClose(id, x, y)

Users(held, d) == {i \in Ids : held[i] = d}
Counted(held) ==
  \A d \in Devs : IsFiniteSet(Users(held, d)) /\ refs[d] = Cardinality(Users(held, d))
Owned(owner) == \A d \in Devs, i \in Ids : master[d].units[i] # {} => owner[i] = d

ViewsAccount ==
  \E held, owner \in [Ids -> MaybeDevs] : Left(held, owner) /\ Counted(held) /\ Owned(owner)

ListedOnce == \A i, j \in DOMAIN list : list[i] = list[j] => i = j
AddressesFollow == \A s \in Conns : saddr[s] = IF s \in listed THEN deviceIds ELSE {}
UnitsFollow ==
  \A s \in Conns, d \in Devs :
    smap[s][d].units = IF d \in saddr[s] THEN master[d].units ELSE [i \in Ids |-> {}]

Registry == ListedOnce /\ AddressesFollow /\ UnitsFollow /\ ViewsAccount

-----------------------------------------------------------------------------
(* One call.                                                               *)

LEMMA RunIs ==
  ASSUME NEW id, NEW d, NEW r
  PROVE  /\ Run(CallAddDevice(d)) => addDeviceId(d)
         /\ Run(CallRemoveDevice(d)) => removeDeviceId(d)
         /\ Run(CallAddUnit(id, d, r)) => addUnitMap(id, d, r)
         /\ Run(CallRemoveUnit(id, d)) => removeUnitMap(id, d)
         /\ Run(CallClear(d, r)) => clearUnmappedData(d, r)
BY DEF Run, CallAddDevice, CallRemoveDevice, CallAddUnit, CallRemoveUnit, CallClear

LEMMA UnitsOfEmpty == EmptyMap.units = [i \in Ids |-> {}]
BY DEF EmptyMap

LEMMA ReconfigureFollows ==
  ASSUME TypeOK, AddressesFollow, UnitsFollow, NEW maps \in [Devs -> Maps], NEW keys,
         reconfigureServers(maps, keys), UNCHANGED setup
  PROVE  AddressesFollow' /\ UnitsFollow' /\ master' = maps
<1>1. UNCHANGED <<refs, list, saddr>> /\ listed' = listed /\ deviceIds' = deviceIds
  BY DEF setup, listed, deviceIds
<1>2. master' = maps
  BY DEF reconfigureServers
<1>3. \A s \in Conns, d \in Devs :
        smap'[s][d] = IF s \in listed /\ d \in saddr[s] THEN maps[d] ELSE smap[s][d]
  BY DEF reconfigureServers
<1>4. \A s \in Conns : s \notin listed => saddr[s] = {} BY DEF AddressesFollow
<1>5. UnitsFollow'
  <2> SUFFICES ASSUME NEW s \in Conns, NEW d \in Devs
               PROVE  smap'[s][d].units = IF d \in saddr'[s] THEN master'[d].units
                                          ELSE [i \in Ids |-> {}]
    BY DEF UnitsFollow
  <2>1. saddr' = saddr BY <1>1
  <2>2. CASE d \in saddr[s]
    <3>1. s \in listed BY <1>4, <2>2
    <3>2. smap'[s][d] = maps[d] BY <1>3, <2>2, <3>1
    <3>3. QED BY <1>2, <2>1, <2>2, <3>2
  <2>3. CASE d \notin saddr[s]
    <3>1. smap'[s][d] = smap[s][d] BY <1>3, <2>3
    <3>2. QED BY <2>1, <2>3, <3>1 DEF UnitsFollow
  <2>4. QED BY <2>2, <2>3
<1>6. AddressesFollow' BY <1>1 DEF AddressesFollow
<1>7. QED BY <1>2, <1>5, <1>6

LEMMA UpdateUnits ==
  ASSUME NEW m \in Maps, NEW id \in Ids, NEW r
  PROVE  addUnit(m, id, r).units = [m.units EXCEPT ![id] = r]
BY DEF addUnit, updateDataUnitMap, Maps

\* A range is registered or released: the views own it accordingly.
LEMMA AddUnitOwned ==
  ASSUME TypeOK, AddressesFollow, UnitsFollow, NEW id \in Ids, NEW d \in Devs,
         NEW r \in SUBSET Points, addUnitMap(id, d, r),
         NEW owner \in [Ids -> MaybeDevs], Owned(owner), owner[id] = d
  PROVE  AddressesFollow' /\ UnitsFollow' /\ Owned(owner)' /\ UNCHANGED <<refs, list>>
<1> DEFINE m == IF d \in known THEN master[d] ELSE flagged(EmptyMap, defs)
           n == addUnit(m, id, r)
           new == [master EXCEPT ![d] = n]
<1>1. m \in Maps BY EmptyMapType, FlaggedType DEF TypeOK
<1>2. n \in Maps BY <1>1, AddUnitType
<1>3. new \in [Devs -> Maps] BY <1>2 DEF TypeOK
<1>4. reconfigureServers(new, known \cup {d}) /\ UNCHANGED setup BY DEF addUnitMap
<1>5. \A i \in Ids : m.units[i] # {} => owner[i] = d
  <2>1. \A i \in Ids : EmptyMap.units[i] = {} BY DEF EmptyMap
  <2>2. flagged(EmptyMap, defs).units = EmptyMap.units BY DEF flagged, EmptyMap
  <2>3. QED BY <2>1, <2>2 DEF Owned
<1> HIDE DEF m
<1>6. n.units = [m.units EXCEPT ![id] = r] /\ m.units \in [Ids -> SUBSET Points]
  BY <1>1, UpdateUnits DEF Maps
<1> HIDE DEF n
<1>7. \A e \in Devs, i \in Ids : new[e].units[i] # {} => owner[i] = e
  BY <1>5, <1>6 DEF Owned, TypeOK
<1> HIDE DEF new
<1>8. AddressesFollow' /\ UnitsFollow' /\ master' = new
  BY <1>3, <1>4, ReconfigureFollows
<1>9. QED BY <1>4, <1>7, <1>8 DEF Owned, setup

LEMMA RemoveUnitOwned ==
  ASSUME TypeOK, AddressesFollow, UnitsFollow, NEW id \in Ids, NEW d \in Devs,
         removeUnitMap(id, d),
         NEW owner \in [Ids -> MaybeDevs], Owned(owner), owner[id] = d
  PROVE  /\ AddressesFollow' /\ UnitsFollow' /\ UNCHANGED <<refs, list>>
         /\ \A y : Owned([owner EXCEPT ![id] = y])'
<1> DEFINE n == removeUnit(master[d], id)
           new == [master EXCEPT ![d] = n]
<1>1. master[d] \in Maps BY DEF TypeOK
<1>2. n \in Maps BY <1>1, RemoveUnitType
<1>3. new \in [Devs -> Maps] BY <1>2 DEF TypeOK
<1>4. reconfigureServers(new, known \cup {d}) /\ UNCHANGED setup BY DEF removeUnitMap
<1>5. n = addUnit(master[d], id, {}) BY DEF removeUnit, addUnit
<1>6. n.units = [master[d].units EXCEPT ![id] = {}] /\ master[d].units \in [Ids -> SUBSET Points]
  BY <1>1, <1>5, UpdateUnits DEF Maps
<1> HIDE DEF n
<1>7. \A e \in Devs, i \in Ids : new[e].units[i] # {} => owner[i] = e /\ i # id
  BY <1>6 DEF Owned, TypeOK
<1> HIDE DEF new
<1>8. AddressesFollow' /\ UnitsFollow' /\ master' = new
  BY <1>3, <1>4, ReconfigureFollows
<1>9. QED BY <1>4, <1>7, <1>8 DEF Owned, setup

\* A view takes a reference to a unit id.
LEMMA AddDeviceCounted ==
  ASSUME TypeOK, AddressesFollow, UnitsFollow, NEW id \in Ids, NEW d \in Devs, addDeviceId(d),
         NEW held \in [Ids -> MaybeDevs], Counted(held), held[id] = NoDev,
         refs[d] = 0 => \A i \in Ids : master[d].units[i] = {}
  PROVE  /\ AddressesFollow' /\ UnitsFollow' /\ UNCHANGED <<master, list>>
         /\ Counted([held EXCEPT ![id] = d])'
<1> DEFINE new == [held EXCEPT ![id] = d]
<1>1. /\ refs' = [refs EXCEPT ![d] = @ + 1]
      /\ saddr' = [s \in Conns |-> IF s \in listed /\ refs[d] = 0
                                   THEN saddr[s] \cup {d} ELSE saddr[s]]
      /\ UNCHANGED <<master, known, smap, list, online, defs>>
  BY DEF addDeviceId, core
<1>2. listed' = listed /\ refs \in [Devs -> Nat] BY <1>1 DEF listed, TypeOK
<1>3. deviceIds' = deviceIds \cup {d} BY <1>1, <1>2 DEF deviceIds
<1>4. refs[d] # 0 => d \in deviceIds BY <1>2 DEF deviceIds
<1>5. AddressesFollow' BY <1>1, <1>2, <1>3, <1>4 DEF AddressesFollow
<1>6. UnitsFollow'
  <2>1. ASSUME refs[d] = 0 PROVE master[d].units = [i \in Ids |-> {}]
    <3>1. master[d].units \in [Ids -> SUBSET Points] BY DEF TypeOK, Maps
    <3>2. \A i \in Ids : master[d].units[i] = {} BY <2>1
    <3>3. QED BY <3>1, <3>2
  <2>2. QED BY <1>1, <2>1 DEF UnitsFollow
<1>7. Counted(new)'
  <2>1. d # NoDev BY DevsAssumption
  <2>2. Users(new, d) = Users(held, d) \cup {id} /\ id \notin Users(held, d)
    BY <2>1 DEF Users
  <2>3. \A e \in Devs : e # d => Users(new, e) = Users(held, e)
    BY DevsAssumption DEF Users
  <2>4. IsFiniteSet(Users(held, d)) /\ refs[d] = Cardinality(Users(held, d)) BY DEF Counted
  <2>5. /\ IsFiniteSet(Users(held, d) \cup {id})
        /\ Cardinality(Users(held, d) \cup {id}) = Cardinality(Users(held, d)) + 1
    BY <2>2, <2>4, FS_AddElement
  <2>6. refs'[d] = refs[d] + 1 /\ \A e \in Devs : e # d => refs'[e] = refs[e]
    BY <1>1, <1>2
  <2> HIDE DEF new
  <2>7. QED BY <2>2, <2>3, <2>4, <2>5, <2>6 DEF Counted
<1>8. QED BY <1>1, <1>5, <1>6, <1>7

\* A view gives its reference up.
LEMMA RemoveDeviceCounted ==
  ASSUME TypeOK, AddressesFollow, UnitsFollow, NEW id \in Ids, NEW d \in Devs,
         removeDeviceId(d), NEW held \in [Ids -> MaybeDevs], Counted(held), held[id] = d
  PROVE  /\ AddressesFollow' /\ UnitsFollow' /\ UNCHANGED <<master, list>>
         /\ Counted([held EXCEPT ![id] = NoDev])'
<1> DEFINE new == [held EXCEPT ![id] = NoDev]
<1>1. /\ refs' = [refs EXCEPT ![d] = IF @ = 0 THEN 0 ELSE @ - 1]
      /\ saddr' = [s \in Conns |-> IF s \in listed /\ refs[d] = 1
                                   THEN saddr[s] \ {d} ELSE saddr[s]]
      /\ smap' = [s \in Conns |-> IF s \in listed /\ refs[d] = 1
                                  THEN [smap[s] EXCEPT ![d] = EmptyMap] ELSE smap[s]]
      /\ UNCHANGED <<master, list>>
  BY DEF removeDeviceId
<1>2. listed' = listed /\ refs \in [Devs -> Nat] BY <1>1 DEF listed, TypeOK
<1>3. /\ IsFiniteSet(Users(held, d)) /\ refs[d] = Cardinality(Users(held, d))
      /\ id \in Users(held, d)
  BY DEF Counted, Users
<1>4. /\ IsFiniteSet(Users(held, d) \ {id})
      /\ Cardinality(Users(held, d) \ {id}) = refs[d] - 1
  BY <1>3, FS_RemoveElement
<1>5. refs[d] >= 1 /\ refs'[d] = refs[d] - 1 /\ \A e \in Devs : e # d => refs'[e] = refs[e]
  <2>1. Cardinality(Users(held, d) \ {id}) \in Nat BY <1>4, FS_CardinalityType
  <2>2. refs[d] \in Nat /\ refs[d] - 1 \in Nat BY <1>2, <1>4, <2>1
  <2>3. QED BY <1>1, <1>2, <2>2
<1>6. Counted(new)'
  <2>1. Users(new, d) = Users(held, d) \ {id} BY DevsAssumption DEF Users
  <2>2. \A e \in Devs : e # d => Users(new, e) = Users(held, e)
    BY DevsAssumption DEF Users
  <2> HIDE DEF new
  <2>3. QED BY <1>4, <1>5, <2>1, <2>2 DEF Counted
<1>7. deviceIds' = IF refs[d] = 1 THEN deviceIds \ {d} ELSE deviceIds
  BY <1>2, <1>5 DEF deviceIds
<1>8. AddressesFollow' BY <1>1, <1>2, <1>7 DEF AddressesFollow
<1>9. UnitsFollow'
  <2> SUFFICES ASSUME NEW s \in Conns, NEW e \in Devs
               PROVE  smap'[s][e].units = IF e \in saddr'[s] THEN master'[e].units
                                          ELSE [i \in Ids |-> {}]
    BY DEF UnitsFollow
  <2>1. CASE s \in listed /\ refs[d] = 1 /\ e = d
    <3>1. smap'[s][e] = EmptyMap /\ e \notin saddr'[s] BY <1>1, <2>1 DEF TypeOK
    <3>2. QED BY <3>1, UnitsOfEmpty
  <2>2. CASE ~(s \in listed /\ refs[d] = 1 /\ e = d)
    <3>1. smap'[s][e] = smap[s][e] /\ (e \in saddr'[s] <=> e \in saddr[s])
      BY <1>1, <2>2 DEF TypeOK
    <3>2. QED BY <1>1, <3>1 DEF UnitsFollow
  <2>3. QED BY <2>1, <2>2
<1>10. QED BY <1>1, <1>6, <1>8, <1>9

LEMMA ClearKeepsRegistry ==
  ASSUME TypeOK, AddressesFollow, UnitsFollow, NEW d \in Devs, NEW r \in SUBSET Points,
         clearUnmappedData(d, r), NEW owner, Owned(owner)
  PROVE  AddressesFollow' /\ UnitsFollow' /\ Owned(owner)' /\ UNCHANGED <<refs, list>>
<1> DEFINE n == clearUnmapped(master[d], r)
<1>1. n.units = master[d].units BY ClearKeepsShape DEF TypeOK, SameShape
<1>2. master' \in {master, [master EXCEPT ![d] = n]} /\ UNCHANGED <<smap, setup>>
  BY DEF clearUnmappedData
<1> HIDE DEF n
<1>3. \A e \in Devs : master'[e].units = master[e].units BY <1>1, <1>2 DEF TypeOK
<1>4. UNCHANGED <<refs, list, saddr, smap>> /\ listed' = listed /\ deviceIds' = deviceIds
  BY <1>2 DEF setup, listed, deviceIds
<1>5. QED BY <1>3, <1>4 DEF AddressesFollow, UnitsFollow, Owned

-----------------------------------------------------------------------------
\* One call of an event: what it takes from the views' account it gives back
\* in another place.
LEMMA CallKeepsAccount ==
  ASSUME TypeOK, AddressesFollow, UnitsFollow, Call,
         NEW held \in [Ids -> MaybeDevs], NEW owner \in [Ids -> MaybeDevs],
         Left(held, owner), Counted(held), Owned(owner)
  PROVE  /\ AddressesFollow' /\ UnitsFollow' /\ UNCHANGED list
         /\ \E h, o \in [Ids -> MaybeDevs] : (Left(h, o) /\ Counted(h) /\ Owned(o))'
<1>0. PICK H \in [Ids -> MaybeDevs] : H = home BY DEF TypeOK, MaybeDevs
<1>1. /\ calls # <<>> /\ calls' = Tail(calls) /\ Run(Head(calls))
      /\ home = H /\ home' = H
  BY <1>0 DEF Call
<1>2. PICK id \in Ids, x \in MaybeDevs, y \in MaybeDevs :
        /\ held = [H EXCEPT ![id] = x]
        /\ owner = [H EXCEPT ![id] = y]
        /\ ToMove(id, x, y) \/ ToClose(id, x, y)
  BY <1>1 DEF Left
<1>4. held[id] = x /\ owner[id] = y BY <1>2, <1>0
<1>5. NoDev \in MaybeDevs /\ \A z \in MaybeDevs : z # NoDev => z \in Devs BY DEF MaybeDevs
<1>6. \A z : /\ [held EXCEPT ![id] = z] = [H EXCEPT ![id] = z]
             /\ [owner EXCEPT ![id] = z] = [H EXCEPT ![id] = z]
  BY <1>2, <1>0
<1>7. [H EXCEPT ![id] = H[id]] = H OBVIOUS
\* The next account, from what the call did and what is left to do.
<1>8. ASSUME NEW u \in MaybeDevs, NEW v \in MaybeDevs,
             ToMove(id, u, v)' \/ ToClose(id, u, v)' \/ (calls' = <<>> /\ u = H[id] /\ v = H[id]),
             Counted([H EXCEPT ![id] = u])', Owned([H EXCEPT ![id] = v])'
      PROVE  \E h, o \in [Ids -> MaybeDevs] : (Left(h, o) /\ Counted(h) /\ Owned(o))'
  <2> DEFINE h == [H EXCEPT ![id] = u]
             o == [H EXCEPT ![id] = v]
  <2>1. h \in [Ids -> MaybeDevs] /\ o \in [Ids -> MaybeDevs] BY <1>0
  <2>2. Left(h, o)' BY <1>1, <1>7, <1>8 DEF Left
  <2> HIDE DEF h, o
  <2>3. Counted(h)' /\ Owned(o)' BY <1>8 DEF h, o
  <2>4. QED BY <2>1, <2>2, <2>3
\* A unit id nobody refers to has no range, when a view is about to take it.
<1>9. ASSUME y = NoDev, NEW d \in Devs, refs[d] = 0, NEW i \in Ids
      PROVE  master[d].units[i] = {}
  <2> SUFFICES ASSUME master[d].units[i] # {} PROVE FALSE OBVIOUS
  <2>1. owner[i] = d BY DEF Owned
  <2>2. i # id BY <1>4, <1>9, <2>1, DevsAssumption
  <2>3. held[i] = d BY <1>2, <1>0, <2>1, <2>2
  <2>4. i \in Users(held, d) BY <2>3 DEF Users
  <2>5. IsFiniteSet(Users(held, d)) /\ Cardinality(Users(held, d)) = 0
    BY <1>9 DEF Counted
  <2>6. Users(held, d) = {} BY <2>5, FS_EmptySet
  <2>7. QED BY <2>4, <2>6
<1>10. UNCHANGED <<refs, master>> => \A h, o : /\ Counted(h) => Counted(h)'
                                              /\ Owned(o) => Owned(o)'
  BY DEF Counted, Owned
<1>11. UNCHANGED refs => \A h : Counted(h) => Counted(h)' BY DEF Counted
<1>12. UNCHANGED master => \A o : Owned(o) => Owned(o)' BY DEF Owned
<1>13. CASE ToMove(id, x, y)
  <2>1. H[id] \in Devs BY <1>1, <1>5, <1>13 DEF ToMove
  <2>2. PICK r \in SUBSET Points :
       \/ /\ x # NoDev /\ y = x
          /\ calls = <<CallRemoveUnit(id, x), CallRemoveDevice(x), CallAddDevice(H[id]),
                       CallAddUnit(id, H[id], r)>>
       \/ /\ x # NoDev /\ y = NoDev
          /\ calls = <<CallRemoveDevice(x), CallAddDevice(H[id]),
                       CallAddUnit(id, H[id], r)>>
       \/ /\ x = NoDev /\ y = NoDev
          /\ calls = <<CallAddDevice(H[id]), CallAddUnit(id, H[id], r)>>
       \/ x = NoDev /\ y = NoDev /\ calls = <<CallAddDevice(H[id])>>
       \/ x = H[id] /\ y = H[id] /\ calls = <<CallAddUnit(id, H[id], r)>>
    BY <1>1, <1>13 DEF ToMove
  <2>3. CASE /\ x # NoDev /\ y = x
             /\ calls = <<CallRemoveUnit(id, x), CallRemoveDevice(x), CallAddDevice(H[id]),
                          CallAddUnit(id, H[id], r)>>
    <3>1. removeUnitMap(id, x) BY <1>1, <2>3, RunIs
    <3>2. calls' = <<CallRemoveDevice(x), CallAddDevice(H[id]), CallAddUnit(id, H[id], r)>>
      BY <1>1, <2>3
    <3>3. ToMove(id, x, NoDev)' BY <1>1, <2>1, <2>3, <3>2, DevsAssumption DEF ToMove
    <3>4. x \in Devs /\ owner[id] = x BY <1>4, <1>5, <2>3
    <3>5. /\ AddressesFollow' /\ UnitsFollow' /\ UNCHANGED <<refs, list>>
          /\ \A z : Owned([owner EXCEPT ![id] = z])'
      BY <3>1, <3>4, RemoveUnitOwned
    <3>6. Counted([H EXCEPT ![id] = x])' BY <1>2, <1>11, <3>5
    <3>7. Owned([H EXCEPT ![id] = NoDev])' BY <1>6, <3>5
    <3>8. QED BY <1>5, <1>8, <3>3, <3>5, <3>6, <3>7
  <2>4. CASE /\ x # NoDev /\ y = NoDev
             /\ calls = <<CallRemoveDevice(x), CallAddDevice(H[id]),
                          CallAddUnit(id, H[id], r)>>
    <3>1. removeDeviceId(x) BY <1>1, <2>4, RunIs
    <3>2. calls' = <<CallAddDevice(H[id]), CallAddUnit(id, H[id], r)>>
      BY <1>1, <2>4
    <3>3. ToMove(id, NoDev, NoDev)' BY <1>1, <2>1, <2>4, <3>2, DevsAssumption DEF ToMove
    <3>4. x \in Devs /\ held[id] = x BY <1>4, <1>5, <2>4
    <3>5. /\ AddressesFollow' /\ UnitsFollow' /\ UNCHANGED <<master, list>>
          /\ Counted([held EXCEPT ![id] = NoDev])'
      BY <3>1, <3>4, RemoveDeviceCounted
    <3>6. Counted([H EXCEPT ![id] = NoDev])' BY <1>6, <3>5
    <3>7. Owned([H EXCEPT ![id] = NoDev])' BY <1>2, <1>12, <2>4, <3>5
    <3>8. QED BY <1>5, <1>8, <3>3, <3>5, <3>6, <3>7
  <2>5. CASE /\ x = NoDev /\ y = NoDev
             /\ calls = <<CallAddDevice(H[id]), CallAddUnit(id, H[id], r)>>
    <3>1. addDeviceId(H[id]) BY <1>1, <2>5, RunIs
    <3>2. calls' = <<CallAddUnit(id, H[id], r)>> BY <1>1, <2>5
    <3>3. ToMove(id, H[id], H[id])'
      BY <1>1, <2>1, <2>5, <3>2, DevsAssumption DEF ToMove
    <3>4. held[id] = NoDev BY <1>4, <2>5
    <3>5. /\ AddressesFollow' /\ UnitsFollow' /\ UNCHANGED <<master, list>>
          /\ Counted([held EXCEPT ![id] = H[id]])'
      BY <1>9, <2>1, <2>5, <3>1, <3>4, AddDeviceCounted
    <3>6. Counted([H EXCEPT ![id] = H[id]])' BY <1>6, <3>5
    <3>7. Owned([H EXCEPT ![id] = H[id]])
      BY <1>2, <1>7, <2>1, <2>5, DevsAssumption DEF Owned
    <3>8. Owned([H EXCEPT ![id] = H[id]])' BY <1>12, <3>5, <3>7
    <3>9. H[id] \in MaybeDevs OBVIOUS
    <3>10. QED BY <1>8, <3>3, <3>5, <3>6, <3>8, <3>9
  <2>6. CASE x = NoDev /\ y = NoDev /\ calls = <<CallAddDevice(H[id])>>
    <3>1. addDeviceId(H[id]) BY <1>1, <2>6, RunIs
    <3>2. calls' = <<>> BY <1>1, <2>6
    <3>4. held[id] = NoDev BY <1>4, <2>6
    <3>5. /\ AddressesFollow' /\ UnitsFollow' /\ UNCHANGED <<master, list>>
          /\ Counted([held EXCEPT ![id] = H[id]])'
      BY <1>9, <2>1, <2>6, <3>1, <3>4, AddDeviceCounted
    <3>6. Counted([H EXCEPT ![id] = H[id]])' BY <1>6, <3>5
    <3>7. Owned([H EXCEPT ![id] = H[id]])
      BY <1>2, <1>7, <2>1, <2>6, DevsAssumption DEF Owned
    <3>8. Owned([H EXCEPT ![id] = H[id]])' BY <1>12, <3>5, <3>7
    <3>9. H[id] \in MaybeDevs OBVIOUS
    <3>10. QED BY <1>8, <3>2, <3>5, <3>6, <3>8, <3>9
  <2>7. CASE x = H[id] /\ y = H[id] /\ calls = <<CallAddUnit(id, H[id], r)>>
    <3>1. addUnitMap(id, H[id], r) BY <1>1, <2>7, RunIs
    <3>2. calls' = <<>> BY <1>1, <2>7
    <3>3. owner[id] = H[id] BY <1>4, <2>7
    <3>4. AddressesFollow' /\ UnitsFollow' /\ Owned(owner)' /\ UNCHANGED <<refs, list>>
      BY <2>1, <3>1, <3>3, AddUnitOwned
    <3>5. Counted([H EXCEPT ![id] = x])' BY <1>2, <1>11, <3>4
    <3>6. Owned([H EXCEPT ![id] = y])' BY <1>2, <3>4
    <3>7. QED BY <1>8, <2>7, <3>2, <3>4, <3>5, <3>6
  <2>8. QED BY <2>2, <2>3, <2>4, <2>5, <2>6, <2>7
<1>14. CASE ToClose(id, x, y)
  <2>1. H[id] = NoDev BY <1>1, <1>14 DEF ToClose
  <2>2. CASE x # NoDev /\ y = x /\ calls = <<CallRemoveDevice(x), CallRemoveUnit(id, x)>>
    <3>1. removeDeviceId(x) BY <1>1, <2>2, RunIs
    <3>2. calls' = <<CallRemoveUnit(id, x)>> BY <1>1, <2>2
    <3>3. ToClose(id, NoDev, x)' BY <1>1, <2>1, <2>2, <3>2 DEF ToClose
    <3>4. x \in Devs /\ held[id] = x BY <1>4, <1>5, <2>2
    <3>5. /\ AddressesFollow' /\ UnitsFollow' /\ UNCHANGED <<master, list>>
          /\ Counted([held EXCEPT ![id] = NoDev])'
      BY <3>1, <3>4, RemoveDeviceCounted
    <3>6. Counted([H EXCEPT ![id] = NoDev])' BY <1>6, <3>5
    <3>7. Owned([H EXCEPT ![id] = x])' BY <1>2, <1>12, <2>2, <3>5
    <3>8. QED BY <1>5, <1>8, <3>3, <3>5, <3>6, <3>7
  <2>3. CASE x = NoDev /\ y # NoDev /\ calls = <<CallRemoveUnit(id, y)>>
    <3>1. removeUnitMap(id, y) BY <1>1, <2>3, RunIs
    <3>2. calls' = <<>> BY <1>1, <2>3
    <3>3. y \in Devs /\ owner[id] = y BY <1>4, <1>5, <2>3
    <3>4. /\ AddressesFollow' /\ UnitsFollow' /\ UNCHANGED <<refs, list>>
          /\ \A z : Owned([owner EXCEPT ![id] = z])'
      BY <3>1, <3>3, RemoveUnitOwned
    <3>5. Counted([H EXCEPT ![id] = NoDev])' BY <1>2, <1>11, <2>3, <3>4
    <3>6. Owned([H EXCEPT ![id] = NoDev])' BY <1>6, <3>4
    <3>7. QED BY <1>5, <1>8, <2>1, <3>2, <3>4, <3>5, <3>6
  <2>4. CASE x # NoDev /\ y = x /\ calls = <<CallRemoveUnit(id, x), CallRemoveDevice(x)>>
    <3>1. removeUnitMap(id, x) BY <1>1, <2>4, RunIs
    <3>2. calls' = <<CallRemoveDevice(x)>> BY <1>1, <2>4
    <3>3. ToClose(id, x, NoDev)' BY <1>1, <2>1, <2>4, <3>2 DEF ToClose
    <3>4. x \in Devs /\ owner[id] = x BY <1>4, <1>5, <2>4
    <3>5. /\ AddressesFollow' /\ UnitsFollow' /\ UNCHANGED <<refs, list>>
          /\ \A z : Owned([owner EXCEPT ![id] = z])'
      BY <3>1, <3>4, RemoveUnitOwned
    <3>6. Counted([H EXCEPT ![id] = x])' BY <1>2, <1>11, <3>5
    <3>7. Owned([H EXCEPT ![id] = NoDev])' BY <1>6, <3>5
    <3>8. QED BY <1>5, <1>8, <3>3, <3>5, <3>6, <3>7
  <2>5. CASE x # NoDev /\ y = NoDev /\ calls = <<CallRemoveDevice(x)>>
    <3>1. removeDeviceId(x) BY <1>1, <2>5, RunIs
    <3>2. calls' = <<>> BY <1>1, <2>5
    <3>4. x \in Devs /\ held[id] = x BY <1>4, <1>5, <2>5
    <3>5. /\ AddressesFollow' /\ UnitsFollow' /\ UNCHANGED <<master, list>>
          /\ Counted([held EXCEPT ![id] = NoDev])'
      BY <3>1, <3>4, RemoveDeviceCounted
    <3>6. Counted([H EXCEPT ![id] = NoDev])' BY <1>6, <3>5
    <3>7. Owned([H EXCEPT ![id] = NoDev])' BY <1>2, <1>12, <2>5, <3>5
    <3>8. QED BY <1>5, <1>8, <2>1, <3>2, <3>5, <3>6, <3>7
  <2>6. ASSUME NEW e \in Devs, NEW r \in SUBSET Points, x # NoDev, y = x,
               calls = <<CallRemoveUnit(id, x), CallRemoveDevice(x), CallClear(e, r)>>
        PROVE  /\ AddressesFollow' /\ UnitsFollow' /\ UNCHANGED list
               /\ \E h, o \in [Ids -> MaybeDevs] : (Left(h, o) /\ Counted(h) /\ Owned(o))'
    <3>1. removeUnitMap(id, x) BY <1>1, <2>6, RunIs
    <3>2. calls' = <<CallRemoveDevice(x), CallClear(e, r)>> BY <1>1, <2>6
    <3>3. ToClose(id, x, NoDev)' BY <1>1, <2>1, <2>6, <3>2 DEF ToClose
    <3>4. x \in Devs /\ owner[id] = x BY <1>4, <1>5, <2>6
    <3>5. /\ AddressesFollow' /\ UnitsFollow' /\ UNCHANGED <<refs, list>>
          /\ \A z : Owned([owner EXCEPT ![id] = z])'
      BY <3>1, <3>4, RemoveUnitOwned
    <3>6. Counted([H EXCEPT ![id] = x])' BY <1>2, <1>11, <3>5
    <3>7. Owned([H EXCEPT ![id] = NoDev])' BY <1>6, <3>5
    <3>8. QED BY <1>5, <1>8, <3>3, <3>5, <3>6, <3>7
  <2>7. ASSUME NEW e \in Devs, NEW r \in SUBSET Points, x # NoDev, y = NoDev,
               calls = <<CallRemoveDevice(x), CallClear(e, r)>>
        PROVE  /\ AddressesFollow' /\ UnitsFollow' /\ UNCHANGED list
               /\ \E h, o \in [Ids -> MaybeDevs] : (Left(h, o) /\ Counted(h) /\ Owned(o))'
    <3>1. removeDeviceId(x) BY <1>1, <2>7, RunIs
    <3>2. calls' = <<CallClear(e, r)>> BY <1>1, <2>7
    <3>3. ToClose(id, NoDev, NoDev)' BY <1>1, <2>1, <2>7, <3>2 DEF ToClose
    <3>4. x \in Devs /\ held[id] = x BY <1>4, <1>5, <2>7
    <3>5. /\ AddressesFollow' /\ UnitsFollow' /\ UNCHANGED <<master, list>>
          /\ Counted([held EXCEPT ![id] = NoDev])'
      BY <3>1, <3>4, RemoveDeviceCounted
    <3>6. Counted([H EXCEPT ![id] = NoDev])' BY <1>6, <3>5
    <3>7. Owned([H EXCEPT ![id] = NoDev])' BY <1>2, <1>12, <2>7, <3>5
    <3>8. QED BY <1>5, <1>8, <3>3, <3>5, <3>6, <3>7
  <2>8. ASSUME NEW e \in Devs, NEW r \in SUBSET Points, x = NoDev, y = NoDev,
               calls = <<CallClear(e, r)>>
        PROVE  /\ AddressesFollow' /\ UnitsFollow' /\ UNCHANGED list
               /\ \E h, o \in [Ids -> MaybeDevs] : (Left(h, o) /\ Counted(h) /\ Owned(o))'
    <3>1. clearUnmappedData(e, r) BY <1>1, <2>8, RunIs
    <3>2. calls' = <<>> BY <1>1, <2>8
    <3>3. AddressesFollow' /\ UnitsFollow' /\ Owned(owner)' /\ UNCHANGED <<refs, list>>
      BY <3>1, ClearKeepsRegistry
    <3>4. Counted([H EXCEPT ![id] = x])' BY <1>2, <1>11, <3>3
    <3>5. Owned([H EXCEPT ![id] = y])' BY <1>2, <3>3
    <3>6. QED BY <1>8, <2>1, <2>8, <3>2, <3>3, <3>4, <3>5
  <2>9. QED BY <1>14, <2>2, <2>3, <2>4, <2>5, <2>6, <2>7, <2>8 DEF ToClose
<1>15. QED BY <1>2, <1>13, <1>14

-----------------------------------------------------------------------------
(* The other steps.                                                        *)

LEMMA CallKeepsRegistry == TypeOK /\ Registry /\ Call => Registry'
<1> SUFFICES ASSUME TypeOK, Registry, Call PROVE Registry'
  OBVIOUS
<1>1. PICK held \in [Ids -> MaybeDevs], owner \in [Ids -> MaybeDevs] :
        Left(held, owner) /\ Counted(held) /\ Owned(owner)
  BY DEF Registry, ViewsAccount
<1>2. /\ AddressesFollow' /\ UnitsFollow' /\ UNCHANGED list
      /\ \E h, o \in [Ids -> MaybeDevs] : (Left(h, o) /\ Counted(h) /\ Owned(o))'
  BY <1>1, CallKeepsAccount DEF Registry
<1>3. ListedOnce' BY <1>2 DEF Registry, ListedOnce
<1>4. QED BY <1>2, <1>3 DEF Registry, ViewsAccount, MaybeDevs

\* A view that is open has registered a range of its own or none.
LEMMA EventKeepsRegistry ==
  ASSUME TypeOK, Registry, NEW id \in Ids, NEW d \in MaybeDevs, NEW todo,
         Event(id, d, todo), NEW x \in MaybeDevs, x = home[id],
         ToMove(id, x, x)' \/ ToClose(id, x, x)'
  PROVE  Registry'
<1>1. PICK H \in [Ids -> MaybeDevs] : H = home BY DEF TypeOK, MaybeDevs
<1>2. /\ calls = <<>> /\ home' = [H EXCEPT ![id] = d]
      /\ UNCHANGED <<master, smap, refs, list, saddr>>
  BY <1>1 DEF Event, core, setup
<1>3. Counted(H) /\ Owned(H)
  BY <1>1, <1>2 DEF Registry, ViewsAccount, Left, ToMove, ToClose
<1>4. Counted(H)' /\ Owned(H)' BY <1>2, <1>3 DEF Counted, Owned
<1>5. H = [home' EXCEPT ![id] = x] BY <1>1, <1>2
<1>6. Left(H, H)' BY <1>5 DEF Left, MaybeDevs
<1>7. ViewsAccount' BY <1>4, <1>6 DEF ViewsAccount, MaybeDevs
<1>8. listed' = listed /\ deviceIds' = deviceIds BY <1>2 DEF listed, deviceIds
<1>9. ListedOnce' /\ AddressesFollow' /\ UnitsFollow'
  BY <1>2, <1>8 DEF Registry, ListedOnce, AddressesFollow, UnitsFollow
<1>10. QED BY <1>7, <1>9 DEF Registry

LEMMA UserEventKeepsRegistry == TypeOK /\ Registry /\ UserEvent => Registry'
<1> SUFFICES ASSUME TypeOK, Registry, NEW id \in Ids,
                    \/ OpenForm(id)
                    \/ \E r \in UnitRanges : Define(id, r)
                    \/ \E d \in Devs : ChangeFormDevice(id, d)
                    \/ CloseForm(id)
                    \/ \E d \in Devs, r \in UnitRanges : AddRow(id, d, r)
                    \/ \E d \in Devs, r \in UnitRanges : MoveRow(id, d, r)
                    \/ RemoveRow(id)
                    \/ CloseRow(id)
             PROVE  Registry'
  BY DEF UserEvent
<1>1. \A r \in UnitRanges : r \in SUBSET Points BY RangesAssumption
<1>2. PICK x \in MaybeDevs : x = home[id] BY DEF TypeOK, MaybeDevs
<1>3. home \in [Ids -> MaybeDevs] BY DEF TypeOK, MaybeDevs
<1>4. Devs \subseteq MaybeDevs /\ NoDev \in MaybeDevs /\ NoDev \notin Devs
  BY DevsAssumption DEF MaybeDevs
<1>5. x # NoDev => x \in Devs /\ rangeOf(id) \in SUBSET Points
  <2>1. ASSUME x # NoDev PROVE x \in Devs /\ master[home[id]] \in Maps
    BY <1>2, <2>1 DEF TypeOK, MaybeDevs
  <2>2. \A m \in Maps : m.units[id] \in SUBSET Points BY DEF Maps
  <2>3. QED BY <2>1, <2>2 DEF rangeOf
<1>6. CASE OpenForm(id)
  <2>1. Event(id, FirstDev, <<CallAddDevice(FirstDev)>>) /\ x = NoDev
    BY <1>2, <1>6 DEF OpenForm
  <2>2. home'[id] = FirstDev /\ calls' = <<CallAddDevice(FirstDev)>>
    BY <1>3, <2>1 DEF Event
  <2>3. ToMove(id, x, x)' BY <1>4, <2>1, <2>2, DevsAssumption DEF ToMove
  <2>4. QED BY <1>2, <1>4, <2>1, <2>3, DevsAssumption, EventKeepsRegistry
<1>7. ASSUME NEW r \in UnitRanges, Define(id, r) PROVE Registry'
  <2>1. Event(id, x, <<CallAddUnit(id, x, r)>>) /\ x # NoDev BY <1>2, <1>7 DEF Define
  <2>2. home'[id] = x /\ calls' = <<CallAddUnit(id, x, r)>> BY <1>3, <2>1 DEF Event
  <2>3. ToMove(id, x, x)' BY <1>1, <2>1, <2>2 DEF ToMove
  <2>4. QED BY <1>2, <1>4, <2>1, <2>3, EventKeepsRegistry
<1>8. ASSUME NEW d \in Devs, NEW r \in SUBSET Points, x # NoDev,
             Event(id, d, <<CallRemoveUnit(id, x), CallRemoveDevice(x), CallAddDevice(d),
                            CallAddUnit(id, d, r)>>)
      PROVE  Registry'
  <2>1. /\ home'[id] = d
        /\ calls' = <<CallRemoveUnit(id, x), CallRemoveDevice(x), CallAddDevice(d),
                      CallAddUnit(id, d, r)>>
    BY <1>3, <1>8 DEF Event
  <2>2. ToMove(id, x, x)' BY <1>4, <1>8, <2>1 DEF ToMove
  <2>3. QED BY <1>2, <1>4, <1>8, <2>2, EventKeepsRegistry
<1>9. ASSUME NEW d \in Devs, ChangeFormDevice(id, d) PROVE Registry'
  BY <1>2, <1>5, <1>8, <1>9 DEF ChangeFormDevice, registered
<1>10. ASSUME NEW d \in Devs, NEW r \in UnitRanges, MoveRow(id, d, r) PROVE Registry'
  BY <1>1, <1>2, <1>8, <1>10 DEF MoveRow
<1>11. CASE CloseForm(id)
  <2>1. Event(id, NoDev, <<CallRemoveDevice(x), CallRemoveUnit(id, x)>>) /\ x # NoDev
    BY <1>2, <1>11 DEF CloseForm
  <2>2. home'[id] = NoDev /\ calls' = <<CallRemoveDevice(x), CallRemoveUnit(id, x)>>
    BY <1>3, <2>1 DEF Event
  <2>3. ToClose(id, x, x)' BY <2>1, <2>2 DEF ToClose
  <2>4. QED BY <1>2, <1>4, <2>1, <2>3, EventKeepsRegistry
<1>12. ASSUME NEW d \in Devs, NEW r \in UnitRanges, AddRow(id, d, r) PROVE Registry'
  <2>1. Event(id, d, <<CallAddDevice(d), CallAddUnit(id, d, r)>>) /\ x = NoDev
    BY <1>2, <1>12 DEF AddRow
  <2>2. home'[id] = d /\ calls' = <<CallAddDevice(d), CallAddUnit(id, d, r)>>
    BY <1>3, <2>1 DEF Event
  <2>3. ToMove(id, x, x)' BY <1>1, <1>4, <2>1, <2>2 DEF ToMove
  <2>4. QED BY <1>2, <1>4, <2>1, <2>3, EventKeepsRegistry
<1>13. CASE RemoveRow(id)
  <2> DEFINE r == rangeOf(id)
  <2>1. /\ Event(id, NoDev, <<CallRemoveUnit(id, x), CallRemoveDevice(x), CallClear(x, r)>>)
        /\ x # NoDev
    BY <1>2, <1>13 DEF RemoveRow
  <2>2. PICK q \in SUBSET Points : q = r BY <1>5, <2>1
  <2>3. /\ home'[id] = NoDev
        /\ calls' = <<CallRemoveUnit(id, x), CallRemoveDevice(x), CallClear(x, q)>>
    BY <1>3, <2>1, <2>2 DEF Event
  <2>4. ToClose(id, x, x)' BY <1>5, <2>1, <2>3 DEF ToClose
  <2> HIDE DEF r
  <2>5. QED BY <1>2, <1>4, <2>1, <2>4, EventKeepsRegistry
<1>14. CASE CloseRow(id)
  <2>1. Event(id, NoDev, <<CallRemoveUnit(id, x), CallRemoveDevice(x)>>) /\ x # NoDev
    BY <1>2, <1>14 DEF CloseRow
  <2>2. home'[id] = NoDev /\ calls' = <<CallRemoveUnit(id, x), CallRemoveDevice(x)>>
    BY <1>3, <2>1 DEF Event
  <2>3. ToClose(id, x, x)' BY <2>1, <2>2 DEF ToClose
  <2>4. QED BY <1>2, <1>4, <2>1, <2>3, EventKeepsRegistry
<1>15. QED
  BY <1>6, <1>7, <1>9, <1>10, <1>11, <1>12, <1>13, <1>14

\* Steps that leave the ranges of every map as they are.
LEMMA SameRangesKeepRegistry ==
  ASSUME TypeOK, Registry, UNCHANGED <<refs, list, saddr, home, calls>>,
         \A d \in Devs : master'[d].units = master[d].units,
         \A s \in Conns, d \in Devs : smap'[s][d].units = smap[s][d].units
  PROVE  Registry'
<1>1. listed' = listed /\ deviceIds' = deviceIds BY DEF listed, deviceIds
<1>2. ListedOnce' /\ AddressesFollow' BY <1>1 DEF Registry, ListedOnce, AddressesFollow
<1>3. UnitsFollow'
  <2> SUFFICES ASSUME NEW s \in Conns, NEW d \in Devs
               PROVE  smap'[s][d].units = IF d \in saddr'[s] THEN master'[d].units
                                          ELSE [i \in Ids |-> {}]
    BY DEF UnitsFollow
  <2>1. smap[s][d].units = IF d \in saddr[s] THEN master[d].units ELSE [i \in Ids |-> {}]
    BY DEF Registry, UnitsFollow
  <2>2. saddr' = saddr OBVIOUS
  <2>3. QED BY <2>1, <2>2
<1>4. PICK held \in [Ids -> MaybeDevs], owner \in [Ids -> MaybeDevs] :
        Left(held, owner) /\ Counted(held) /\ Owned(owner)
  BY DEF Registry, ViewsAccount
<1>5. Left(held, owner)'
  <2>1. calls' = calls /\ home' = home OBVIOUS
  <2>2. \A id, x, y : /\ ToMove(id, x, y)' = ToMove(id, x, y)
                      /\ ToClose(id, x, y)' = ToClose(id, x, y)
    BY <2>1 DEF ToMove, ToClose
  <2>3. QED BY <1>4, <2>1, <2>2 DEF Left, MaybeDevs
<1>6. Counted(held)' /\ Owned(owner)' BY <1>4 DEF Counted, Owned
<1>7. ViewsAccount' BY <1>5, <1>6 DEF ViewsAccount, MaybeDevs
<1>8. QED BY <1>2, <1>3, <1>7 DEF Registry

\* Reading and writing registers, on the master map or on a server's copy.
LEMMA WriteDataUnits ==
  ASSUME NEW df \in Definitions, NEW m \in Maps, NEW r \in SUBSET Points,
         NEW data \in [r -> Vals], NEW inRequest
  PROVE  /\ ensureAutoAddRange(df, m, r).units = m.units
         /\ writeData(df, m, data, inRequest).units = m.units
<1>1. ensureAutoAddRange(df, m, r).units = m.units
  BY DEF ensureAutoAddRange, ensureRange, updateDataUnitMap, flagged, Maps
<1>2. \A n \in Maps : writeServed(n, data).units = n.units BY DEF writeServed, Maps
<1>3. ensureAutoAddRange(df, m, r) \in Maps /\ DOMAIN data = r BY AutoAddType
<1>4. QED BY <1>1, <1>2, <1>3 DEF writeData

LEMMA WriteAllUnits ==
  TypeOK => \A maps \in [Conns -> [Devs -> Maps]], d \in Devs, r \in SUBSET Points :
    \A data \in [r -> Vals], serving \in SUBSET Conns, c \in Conns, e \in Devs :
      writeAll(maps, d, data, serving)[c][e].units = maps[c][e].units
<1> SUFFICES ASSUME TypeOK, NEW maps \in [Conns -> [Devs -> Maps]], NEW d \in Devs,
                    NEW r \in SUBSET Points, NEW data \in [r -> Vals],
                    NEW serving \in SUBSET Conns, NEW c \in Conns, NEW e \in Devs
             PROVE  writeAll(maps, d, data, serving)[c][e].units = maps[c][e].units
  OBVIOUS
<1> DEFINE q == c \in serving
<1>1. defs \in Definitions /\ maps[c] \in [Devs -> Maps] BY DEF TypeOK
<1>2. writeAll(maps, d, data, serving)[c]
        = IF c \in listed THEN [maps[c] EXCEPT ![d] = writeData(defs, @, data, q)] ELSE maps[c]
  BY DEF writeAll
<1> HIDE DEF q
<1>3. \A m \in Maps : writeData(defs, m, data, q).units = m.units
  <2> SUFFICES ASSUME NEW m \in Maps PROVE writeData(defs, m, data, q).units = m.units
    OBVIOUS
  <2>1. QED BY <1>1, WriteDataUnits
<1>4. QED BY <1>1, <1>2, <1>3

LEMMA SetDataUnits ==
  ASSUME TypeOK, NEW d \in Devs, NEW r \in SUBSET Points, NEW data \in [r -> Vals],
         NEW e \in Devs
  PROVE  [master EXCEPT ![d] = setData(@, data)][e].units = master[e].units
<1>1. setData(master[d], data).units = master[d].units
  BY SetDataKeepsShape DEF TypeOK, SameShape
<1>2. QED BY <1>1 DEF TypeOK

LEMMA LocalWriteKeepsRegistry == TypeOK /\ Registry /\ LocalWrite => Registry'
<1>1. ASSUME TypeOK, Registry, NEW d \in Devs, NEW r \in SUBSET Points,
             NEW data \in [r -> Vals], setDataLocally(d, data)
      PROVE  Registry'
  <2>1. /\ master' = [master EXCEPT ![d] = setData(@, data)]
        /\ smap' = writeAll(smap, d, data, {})
        /\ UNCHANGED <<refs, list, saddr, home, calls>>
    BY <1>1 DEF setDataLocally, setup
  <2>2. \A e \in Devs : master'[e].units = master[e].units BY <1>1, <2>1, SetDataUnits
  <2>3. smap \in [Conns -> [Devs -> Maps]] BY <1>1 DEF TypeOK
  <2>4. ASSUME NEW c \in Conns, NEW e \in Devs PROVE smap'[c][e].units = smap[c][e].units
    <3>1. TypeOK /\ {} \in SUBSET Conns BY <1>1
    <3>2. \A serving \in SUBSET Conns : writeAll(smap, d, data, serving)[c][e].units = smap[c][e].units
      BY <3>1, <2>3, WriteAllUnits, Zenon
    <3>3. writeAll(smap, d, data, {})[c][e].units = smap[c][e].units BY <3>1, <3>2, Zenon
    <3>4. QED BY <2>1, <3>3, Zenon
  <2>5. QED BY <1>1, <2>1, <2>2, <2>4, SameRangesKeepRegistry
<1>2. ASSUME TypeOK, Registry, NEW id \in Ids, NEW r \in ReqRanges, NEW data \in Data(r),
             ViewWrite(id, data)
      PROVE  Registry'
  <2>1. home[id] \in Devs BY <1>2 DEF TypeOK, ViewWrite
  <2>2. QED BY <1>1, <1>2, <2>1, RangesAssumption DEF ViewWrite, Data
<1>3. ASSUME TypeOK, Registry, NEW d \in Devs, NEW r \in ScriptRanges, NEW data \in Data(r),
             ScriptWrite(d, data)
      PROVE  Registry'
  BY <1>1, <1>3, RangesAssumption DEF ScriptWrite, Data
<1>4. QED BY <1>2, <1>3 DEF LocalWrite

LEMMA ReconfigureKeepsRegistry == TypeOK /\ Registry /\ Reconfigure => Registry'
<1>1. ASSUME TypeOK, Registry, NEW df \in UserDefs, setModbusDefinitions(df) PROVE Registry'
  <2> DEFINE new == normalised(df)
  <2>1. /\ master' = [d \in Devs |-> IF d \in known THEN flagged(master[d], new)
                                     ELSE master[d]]
        /\ smap' = [s \in Conns |-> [d \in Devs |->
             IF s \in listed /\ d \in saddr[s] THEN flagged(smap[s][d], new)
             ELSE smap[s][d]]]
        /\ UNCHANGED <<refs, list, saddr, home, calls>>
    BY <1>1 DEF setModbusDefinitions, normalised
  <2>2. \A m \in Maps : flagged(m, new).units = m.units BY DEF flagged, Maps
  <2> HIDE DEF new
  <2>3. \A d \in Devs : master'[d].units = master[d].units
    BY <1>1, <2>1, <2>2 DEF TypeOK
  <2>4. \A s \in Conns, d \in Devs : smap'[s][d].units = smap[s][d].units
    BY <1>1, <2>1, <2>2 DEF TypeOK
  <2>5. QED BY <1>1, <2>1, <2>3, <2>4, SameRangesKeepRegistry
<1>2. ASSUME TypeOK, Registry, NEW use \in GlobalChoices, setUseGlobalUnitMap(use)
      PROVE  Registry'
  <2> DEFINE new == [d \in Devs |-> IF d \in known THEN [master[d] EXCEPT !.isGlobal = use]
                                   ELSE master[d]]
  <2>1. \A m \in Maps : /\ [m EXCEPT !.isGlobal = use] \in Maps
                        /\ [m EXCEPT !.isGlobal = use].units = m.units
    BY DefsAssumption DEF Maps
  <2>2. new \in [Devs -> Maps] BY <1>2, <2>1 DEF TypeOK
  <2>3. \A d \in Devs : new[d].units = master[d].units BY <1>2, <2>1 DEF TypeOK
  <2>4. reconfigureServers(new, known) /\ UNCHANGED <<setup, home, calls, answer>>
    BY <1>2 DEF setUseGlobalUnitMap
  <2> HIDE DEF new
  <2>5. AddressesFollow' /\ UnitsFollow' /\ master' = new
    BY <1>2, <2>2, <2>4, ReconfigureFollows DEF Registry
  <2>6. UNCHANGED <<refs, list, home, calls>> BY <2>4 DEF setup
  <2>7. PICK held \in [Ids -> MaybeDevs], owner \in [Ids -> MaybeDevs] :
          Left(held, owner) /\ Counted(held) /\ Owned(owner)
    BY <1>2 DEF Registry, ViewsAccount
  <2>8. Left(held, owner)'
    <3>1. calls = <<>> /\ calls' = <<>> /\ home' = home
      BY <1>2, <2>6 DEF setUseGlobalUnitMap
    <3>2. QED BY <2>7, <3>1 DEF Left, ToMove, ToClose
  <2>9. Counted(held)' /\ Owned(owner)' BY <2>3, <2>5, <2>6, <2>7 DEF Counted, Owned
  <2>10. ViewsAccount' BY <2>8, <2>9 DEF ViewsAccount, MaybeDevs
  <2>11. QED BY <1>2, <2>5, <2>6, <2>10 DEF Registry, ListedOnce
<1>3. QED BY <1>1, <1>2 DEF Reconfigure

LEMMA ClientRequestKeepsRegistry == TypeOK /\ Registry /\ ClientRequest => Registry'
<1> SUFFICES ASSUME TypeOK, Registry, ClientRequest PROVE Registry'
  OBVIOUS
<1>1. PICK s \in Conns, d \in Devs, r \in ReqRanges :
          \/ \E checks \in BOOLEAN : ClientRefused(s, d, r, checks)
          \/ \E checks \in BOOLEAN : ClientRead(s, d, r, checks)
          \/ \E data \in Data(r), checks \in BOOLEAN : ClientWrite(s, d, data, checks)
          \/ \E data \in Data(r), rr \in ReqRanges : ClientReadWrite(s, d, data, rr)
  BY DEF ClientRequest
<1>2. \A x \in ReqRanges : x \in SUBSET Points BY RangesAssumption
<1>3. UNCHANGED <<refs, list, saddr, home, calls>>
  BY <1>1 DEF ClientRefused, ClientRead, ClientWrite, ClientReadWrite, setup
<1>4. smap[s][d] \in Maps /\ smap \in [Conns -> [Devs -> Maps]] /\ defs \in Definitions
  BY DEF TypeOK
<1>5. \A q \in SUBSET Points : fetched(s, d, q).units = smap[s][d].units
  BY <1>4 DEF fetched, ensureAutoAddRange, ensureRange, updateDataUnitMap, flagged, Maps
<1>6. CASE smap' \in {smap, [smap EXCEPT ![s][d] = fetched(s, d, r)]} /\ master' = master
  <2>1. \A c \in Conns, e \in Devs : smap'[c][e].units = smap[c][e].units
    BY <1>2, <1>4, <1>5, <1>6
  <2>2. QED BY <1>3, <1>6, <2>1, SameRangesKeepRegistry
<1>7. ASSUME NEW data \in Data(r)
      PROVE  /\ \A e \in Devs : clientWritten(s, d, data).master[e].units = master[e].units
             /\ \A c \in Conns, e \in Devs :
                  clientWritten(s, d, data).maps[c][e].units = smap[c][e].units
  <2> DEFINE n == writeServed(fetched(s, d, r), data)
             own == [smap EXCEPT ![s][d] = n]
             newMaps == writeAll(own, d, data, {s})
             newMaster == [master EXCEPT ![d] = setData(@, data)]
  <2>1. r \in SUBSET Points /\ data \in [r -> Vals] /\ DOMAIN data = r BY <1>2 DEF Data
  <2>2. fetched(s, d, r) \in Maps BY <2>1, FetchedType DEF TypeOK
  <2>3. n \in Maps /\ n.units = smap[s][d].units
    <3>1. \A m \in Maps : writeServed(m, data).units = m.units BY DEF writeServed, Maps
    <3>2. QED BY <1>5, <2>1, <2>2, <3>1, WriteServedType
  <2>4. clientWritten(s, d, data) =
          IF d \in known THEN [master |-> newMaster, maps |-> newMaps]
          ELSE [master |-> master, maps |-> own]
    BY <2>1 DEF clientWritten
  <2> HIDE DEF n
  <2>5. /\ own \in [Conns -> [Devs -> Maps]]
        /\ \A c \in Conns, e \in Devs : own[c][e].units = smap[c][e].units
    BY <1>4, <2>3
  <2> HIDE DEF own
  <2>6. ASSUME NEW c \in Conns, NEW e \in Devs PROVE newMaps[c][e].units = own[c][e].units
    <3>1. {s} \in SUBSET Conns OBVIOUS
    <3>2. own \in [Conns -> [Devs -> Maps]] BY <2>5
    <3>3. \A serving \in SUBSET Conns : writeAll(own, d, data, serving)[c][e].units = own[c][e].units
      BY <3>2, <2>1, WriteAllUnits, Zenon
    <3>4. QED BY <3>1, <3>3, Zenon
  <2>7. \A e \in Devs : newMaster[e].units = master[e].units BY <2>1, SetDataUnits
  <2> HIDE DEF newMaster, newMaps
  <2>8. QED BY <2>4, <2>5, <2>6, <2>7
<1>8. ASSUME NEW data \in Data(r), NEW checks \in BOOLEAN, ClientWrite(s, d, data, checks)
      PROVE  Registry'
  BY <1>3, <1>7, <1>8, SameRangesKeepRegistry DEF ClientWrite
<1>9. ASSUME NEW data \in Data(r), NEW rr \in ReqRanges, ClientReadWrite(s, d, data, rr)
      PROVE  Registry'
  <2> DEFINE w == clientWritten(s, d, data)
             e == ensureAutoAddRange(defs, w.maps[s][d], rr)
  <2>1. w.maps \in [Conns -> [Devs -> Maps]] BY <1>2, ClientWrittenType DEF Data
  <2>2. master' = w.master /\ smap' = [w.maps EXCEPT ![s][d] = e]
    BY <1>9 DEF ClientReadWrite
  <2>3. /\ \A x \in Devs : w.master[x].units = master[x].units
        /\ \A c \in Conns, x \in Devs : w.maps[c][x].units = smap[c][x].units
    BY <1>7
  <2> HIDE DEF w
  <2>4. e.units = w.maps[s][d].units
    BY <2>1 DEF ensureAutoAddRange, ensureRange, updateDataUnitMap, flagged, Maps
  <2> HIDE DEF e
  <2>5. \A c \in Conns, x \in Devs : smap'[c][x].units = smap[c][x].units
    BY <2>1, <2>2, <2>3, <2>4
  <2>6. \A x \in Devs : master'[x].units = master[x].units BY <2>2, <2>3
  <2>7. QED BY <1>3, <2>5, <2>6, SameRangesKeepRegistry
<1>10. QED
  BY <1>1, <1>6, <1>8, <1>9 DEF ClientRefused, ClientRead

-----------------------------------------------------------------------------
(* Connections and the ranges.                                             *)

LEMMA TakeOverUnits ==
  ASSUME TypeOK, NEW s \in Conns, NEW d \in Devs, NEW servers \in Seq(Conns),
         servers # <<>>
  PROVE  /\ takeOver(s, d, servers).master.units = master[d].units
         /\ \A c \in Conns : takeOver(s, d, servers).maps[c].units
                              = IF c = s THEN master[d].units ELSE smap[c][d].units
<1> DEFINE own == IF s \in listed THEN defs ELSE DefaultDefinitions
           first == servers[1]
           m == master[d]
           r == servedPoints(m)
           copy == [c \in Conns |-> IF c = s THEN m ELSE smap[c][d]]
           src == ensureAutoAddRange(IF first = s THEN own ELSE defs, copy[first], r)
           read == [copy EXCEPT ![first] = src]
           data == [p \in r |-> IF Holds(src, r) THEN Served(src, p) ELSE Served(m, p)]
           before == ensureAutoAddRange(own, read[s], r)
           after == writeData(own, read[s], data, FALSE)
           written == [read EXCEPT ![s] = after]
           defsOf(c) == IF c = s THEN own ELSE defs
           final == [c \in Conns |-> IF c \in listed \cup {s}
                       THEN writeData(defsOf(c), written[c], data, FALSE)
                       ELSE written[c]]
<1>1. own \in Definitions /\ \A c \in Conns : defsOf(c) \in Definitions
  BY DEF TypeOK, DefaultDefinitions, Definitions
<1>2. first \in Conns OBVIOUS
<1>3. m \in Maps /\ r \in SUBSET Points BY DEF TypeOK, servedPoints
<1>4. copy \in [Conns -> Maps] BY <1>3 DEF TypeOK
<1>5. takeOver(s, d, servers) =
        IF r = {} THEN [master |-> m, maps |-> copy]
        ELSE IF after = before THEN [master |-> m, maps |-> written]
        ELSE [master |-> setData(m, data), maps |-> final]
  BY DEF takeOver
<1>6. (IF first = s THEN own ELSE defs) \in Definitions BY <1>1 DEF TypeOK
<1>17. m = master[d] OBVIOUS
<1>18. \A c \in Conns : copy[c].units = IF c = s THEN master[d].units ELSE smap[c][d].units
  OBVIOUS
<1> HIDE DEF own, first, m, copy
<1>20. \A df \in Definitions, n \in Maps : ensureAutoAddRange(df, n, r).units = n.units
  BY DEF ensureAutoAddRange, ensureRange, updateDataUnitMap, flagged, Maps
<1>7. src \in Maps /\ src.units = copy[first].units
  BY <1>2, <1>3, <1>4, <1>6, <1>20, AutoAddType
<1>8. read \in [Conns -> Maps] /\ \A c \in Conns : read[c].units = copy[c].units
  BY <1>4, <1>7
<1>9. data \in [r -> Vals]
  <2>1. \A p \in r : p \in Points /\ Served(m, p) # Absent BY DEF servedPoints
  <2>2. \A p \in r : Served(m, p) \in Vals BY <1>3, <2>1, ServedType
  <2>3. Holds(src, r) => \A p \in r : Served(src, p) \in Vals
    BY <1>7, <2>1, ServedType DEF Holds
  <2>4. QED BY <2>2, <2>3
<1> HIDE DEF r, src, read, data, defsOf
<1>21. \A df \in Definitions, n \in Maps : /\ writeData(df, n, data, FALSE) \in Maps
                                          /\ writeData(df, n, data, FALSE).units = n.units
  <2> SUFFICES ASSUME NEW df \in Definitions, NEW n \in Maps
               PROVE  /\ writeData(df, n, data, FALSE) \in Maps
                      /\ writeData(df, n, data, FALSE).units = n.units
    OBVIOUS
  <2> DEFINE q == FALSE
  <2>1. writeData(df, n, data, q) \in Maps
    <3> HIDE DEF q
    <3>1. QED BY <1>3, <1>9, WriteDataType
  <2>2. writeData(df, n, data, q).units = n.units
    <3> HIDE DEF q
    <3>1. QED BY <1>3, <1>9, WriteDataUnits
  <2>3. QED BY <2>1, <2>2
<1>10. after \in Maps /\ after.units = read[s].units BY <1>1, <1>8, <1>21
<1>11. written \in [Conns -> Maps] /\ \A c \in Conns : written[c].units = copy[c].units
  BY <1>8, <1>10
<1> HIDE DEF after, before, written
<1>12. \A c \in Conns : final[c].units = copy[c].units BY <1>1, <1>11, <1>21
<1> HIDE DEF final
<1> DEFINE newMaster == setData(m, data)
<1>14. newMaster.units = m.units BY <1>3, <1>9, SetDataKeepsShape DEF SameShape
<1>15. takeOver(s, d, servers) =
         IF r = {} THEN [master |-> m, maps |-> copy]
         ELSE IF after = before THEN [master |-> m, maps |-> written]
         ELSE [master |-> newMaster, maps |-> final]
  BY <1>5
<1> HIDE DEF newMaster
<1>16. takeOver(s, d, servers).master.units = master[d].units BY <1>14, <1>15, <1>17
<1>19. \A c \in Conns : takeOver(s, d, servers).maps[c].units = copy[c].units
  BY <1>11, <1>12, <1>15
<1>22. QED BY <1>16, <1>18, <1>19

\* What the views hold does not depend on the connections.
LEMMA SameViewsKeepAccount ==
  ASSUME TypeOK, ViewsAccount, UNCHANGED <<refs, home, calls>>,
         \A d \in Devs : master'[d].units = master[d].units
  PROVE  ViewsAccount'
<1>4. PICK held \in [Ids -> MaybeDevs], owner \in [Ids -> MaybeDevs] :
        Left(held, owner) /\ Counted(held) /\ Owned(owner)
  BY DEF ViewsAccount
<1>5. Left(held, owner)'
  <2>1. calls' = calls /\ home' = home OBVIOUS
  <2>2. \A id, x, y : /\ ToMove(id, x, y)' = ToMove(id, x, y)
                      /\ ToClose(id, x, y)' = ToClose(id, x, y)
    BY <2>1 DEF ToMove, ToClose
  <2>3. QED BY <1>4, <2>1, <2>2 DEF Left, MaybeDevs
<1>6. Counted(held)' /\ Owned(owner)' BY <1>4 DEF Counted, Owned
<1>7. QED BY <1>5, <1>6 DEF ViewsAccount, MaybeDevs

LEMMA ConnectKeepsRegistry ==
  ASSUME TypeOK, Registry, NEW s \in Conns, NEW opened \in BOOLEAN, connectDevice(s, opened)
  PROVE  Registry'
<1> DEFINE servers == IF s \in listed THEN list ELSE Append(list, s)
           taken == [d \in deviceIds |-> takeOver(s, d, servers)]
<1>1. servers \in Seq(Conns) /\ servers # <<>> /\ list \in Seq(Conns) BY DEF TypeOK, listed
<1>2. deviceIds \subseteq Devs BY DEF deviceIds
<1>3. /\ \A i, j \in DOMAIN servers : servers[i] = servers[j] => i = j
      /\ {servers[i] : i \in DOMAIN servers} = listed \cup {s}
  <2>1. CASE s \in listed BY <2>1 DEF Registry, ListedOnce, listed
  <2>2. CASE s \notin listed
    <3>1. servers = Append(list, s) BY <2>2
    <3>2. DOMAIN servers = DOMAIN list \cup {Len(list) + 1} /\ Len(list) + 1 \notin DOMAIN list
      BY <1>1, <3>1
    <3>3. /\ \A i \in DOMAIN list : servers[i] = list[i]
          /\ servers[Len(list) + 1] = s
      BY <1>1, <3>1
    <3>4. \A i \in DOMAIN list : list[i] # s BY <2>2 DEF listed
    <3> HIDE DEF servers
    <3>5. \A i, j \in DOMAIN servers : servers[i] = servers[j] => i = j
      BY <3>2, <3>3, <3>4 DEF Registry, ListedOnce
    <3>6. QED BY <3>2, <3>3, <3>5 DEF listed
  <2>3. QED BY <2>1, <2>2
<1> HIDE DEF servers
<1>5. \A d \in deviceIds :
        /\ taken[d].master.units = master[d].units
        /\ taken[d].maps \in [Conns -> Maps]
        /\ \A c \in Conns : taken[d].maps[c].units
                              = IF c = s THEN master[d].units ELSE smap[c][d].units
  BY <1>1, <1>2, TakeOverUnits, TakeOverType
<1>6. /\ list' = servers
      /\ saddr' = [saddr EXCEPT ![s] = deviceIds]
      /\ master' = [d \in Devs |-> IF d \in deviceIds THEN taken[d].master ELSE master[d]]
      /\ smap' = [c \in Conns |-> [d \in Devs |->
           IF d \notin deviceIds THEN IF c = s THEN EmptyMap ELSE smap[c][d]
           ELSE IF c = s THEN flagged(taken[d].maps[c], defs)
           ELSE taken[d].maps[c]]]
      /\ UNCHANGED <<refs, home, calls>>
  BY DEF connectDevice, servers
<1> HIDE DEF taken
<1>7. listed' = listed \cup {s} /\ deviceIds' = deviceIds
  BY <1>3, <1>6 DEF listed, deviceIds
<1>8. \A d \in Devs : master'[d].units = master[d].units BY <1>5, <1>6
<1>9. ViewsAccount' BY <1>6, <1>8, SameViewsKeepAccount DEF Registry
<1>10. ListedOnce' BY <1>3, <1>6 DEF ListedOnce
<1>11. AddressesFollow' BY <1>6, <1>7 DEF Registry, AddressesFollow, TypeOK
<1>12. UnitsFollow'
  <2> SUFFICES ASSUME NEW c \in Conns, NEW d \in Devs
               PROVE  smap'[c][d].units = IF d \in saddr'[c] THEN master'[d].units
                                          ELSE [i \in Ids |-> {}]
    BY DEF UnitsFollow
  <2>1. smap[c][d].units = IF d \in saddr[c] THEN master[d].units ELSE [i \in Ids |-> {}]
    BY DEF Registry, UnitsFollow
  <2>2. saddr'[c] = IF c = s THEN deviceIds ELSE saddr[c] BY <1>6 DEF TypeOK
  <2>3. CASE d \notin deviceIds
    <3>1. smap'[c][d] = IF c = s THEN EmptyMap ELSE smap[c][d] BY <1>6, <2>3
    <3>2. QED BY <1>8, <2>1, <2>2, <2>3, <3>1, UnitsOfEmpty
  <2>4. CASE d \in deviceIds /\ c = s
    <3>1. smap'[c][d] = flagged(taken[d].maps[c], defs) BY <1>6, <2>4
    <3>2. taken[d].maps[c] \in Maps /\ taken[d].maps[c].units = master[d].units
      BY <1>5, <2>4
    <3>3. \A m \in Maps : flagged(m, defs).units = m.units BY DEF flagged, Maps
    <3>4. QED BY <1>8, <2>2, <2>4, <3>1, <3>2, <3>3
  <2>5. CASE d \in deviceIds /\ c # s
    <3>1. smap'[c][d] = taken[d].maps[c] BY <1>6, <2>5
    <3>2. QED BY <1>5, <1>8, <2>1, <2>2, <2>5, <3>1
  <2>6. QED BY <2>3, <2>4, <2>5
<1>13. QED BY <1>9, <1>10, <1>11, <1>12 DEF Registry

LEMMA DisconnectKeepsRegistry ==
  ASSUME TypeOK, Registry, NEW s \in Conns, disconnectDevice(s)
  PROVE  Registry'
<1>1. PICK i \in DOMAIN list : list[i] = s /\ list' = removeAt(list, i)
  BY DEF disconnectDevice
<1>2. /\ saddr' = [saddr EXCEPT ![s] = {}]
      /\ smap' = [smap EXCEPT ![s] = [d \in Devs |-> EmptyMap]]
      /\ UNCHANGED <<master, refs, home, calls>>
  BY DEF disconnectDevice
<1>3. list \in Seq(Conns) /\ DOMAIN list = 1 .. Len(list) /\ Len(list) \in Nat
      /\ i \in 1 .. Len(list)
  BY DEF TypeOK
<1>4. DOMAIN list' = 1 .. Len(list) - 1 BY <1>1 DEF removeAt
<1>5. \A j \in DOMAIN list' : list'[j] = list[IF j < i THEN j ELSE j + 1]
  BY <1>1, <1>4 DEF removeAt
<1>6. \A j \in DOMAIN list : list[j] = s => j = i BY <1>1 DEF Registry, ListedOnce
<1>7. ListedOnce'
  <2> SUFFICES ASSUME NEW j \in DOMAIN list', NEW k \in DOMAIN list', list'[j] = list'[k]
               PROVE  j = k
    BY DEF ListedOnce
  <2> DEFINE x == IF j < i THEN j ELSE j + 1
             y == IF k < i THEN k ELSE k + 1
  <2>1. x \in DOMAIN list /\ y \in DOMAIN list BY <1>3, <1>4
  <2>2. list[x] = list[y] BY <1>5
  <2>3. x = y BY <2>1, <2>2 DEF Registry, ListedOnce
  <2>4. QED BY <1>3, <1>4, <2>3
<1>8. listed' = listed \ {s}
  <2>1. ASSUME NEW j \in DOMAIN list' PROVE list'[j] \in listed \ {s}
    <3> DEFINE x == IF j < i THEN j ELSE j + 1
    <3>1. x \in DOMAIN list /\ x # i BY <1>3, <1>4
    <3>2. list'[j] = list[x] BY <1>5
    <3>3. QED BY <1>6, <3>1, <3>2 DEF listed
  <2>2. ASSUME NEW k \in DOMAIN list, list[k] # s
        PROVE  \E j \in DOMAIN list' : list'[j] = list[k]
    <3>1. k # i BY <1>1, <2>2
    <3>2. CASE k < i
      <4>1. k \in DOMAIN list' BY <1>3, <1>4, <3>2
      <4>2. list'[k] = list[k] BY <1>5, <3>2, <4>1
      <4>3. QED BY <4>1, <4>2
    <3>3. CASE k > i
      <4>1. k - 1 \in DOMAIN list' /\ ~(k - 1 < i) /\ (k - 1) + 1 = k BY <1>3, <1>4, <3>3
      <4>2. list'[k - 1] = list[k] BY <1>5, <4>1
      <4>3. QED BY <4>1, <4>2
    <3>4. QED BY <1>3, <3>1, <3>2, <3>3
  <2>3. QED BY <2>1, <2>2 DEF listed
<1>9. deviceIds' = deviceIds BY <1>2 DEF deviceIds
<1>10. AddressesFollow' BY <1>2, <1>8, <1>9 DEF Registry, AddressesFollow, TypeOK
<1>11. UnitsFollow'
  <2> SUFFICES ASSUME NEW c \in Conns, NEW d \in Devs
               PROVE  smap'[c][d].units = IF d \in saddr'[c] THEN master'[d].units
                                          ELSE [k \in Ids |-> {}]
    BY DEF UnitsFollow
  <2>1. smap[c][d].units = IF d \in saddr[c] THEN master[d].units ELSE [k \in Ids |-> {}]
    BY DEF Registry, UnitsFollow
  <2>2. CASE c = s
    <3>1. smap'[c][d] = EmptyMap /\ saddr'[c] = {} BY <1>2, <2>2 DEF TypeOK
    <3>2. QED BY <3>1, UnitsOfEmpty
  <2>3. CASE c # s
    <3>1. smap'[c][d] = smap[c][d] /\ saddr'[c] = saddr[c] BY <1>2, <2>3 DEF TypeOK
    <3>2. QED BY <1>2, <2>1, <3>1
  <2>4. QED BY <2>2, <2>3
<1>12. ViewsAccount' BY <1>2, SameViewsKeepAccount DEF Registry
<1>13. QED BY <1>7, <1>10, <1>11, <1>12 DEF Registry

\* With no view open, no unit id is in use.
LEMMA NobodyCounted ==
  ASSUME TypeOK, Registry, calls = <<>>, \A i \in Ids : home[i] = NoDev
  PROVE  deviceIds = {}
<1>1. Counted(home) BY DEF Registry, ViewsAccount, Left, ToMove, ToClose
<1>2. \A d \in Devs : Users(home, d) = {} BY DevsAssumption DEF Users
<1>3. \A d \in Devs : refs[d] = 0 BY <1>1, <1>2, FS_EmptySet DEF Counted
<1>4. QED BY <1>3 DEF deviceIds

LEMMA ConnectionKeepsRegistry == TypeOK /\ Registry /\ Connection => Registry'
<1> SUFFICES ASSUME TypeOK, Registry, Connection PROVE Registry'
  OBVIOUS
<1>1. CASE UNCHANGED <<core, refs, list, saddr, home, calls>>
  BY <1>1, SameRangesKeepRegistry DEF core
<1>2. CASE clearAddressSpace
  <2>1. /\ calls = <<>> /\ \A i \in Ids : home[i] = NoDev
        /\ master' = [d \in Devs |-> EmptyMap]
        /\ UNCHANGED <<smap, refs, list, saddr, home, calls>>
    BY <1>2 DEF clearAddressSpace, setup
  <2>2. deviceIds = {} /\ \A s \in Conns : saddr[s] = {}
    BY <2>1, NobodyCounted DEF Registry, AddressesFollow
  <2>3. listed' = listed /\ deviceIds' = deviceIds BY <2>1 DEF listed, deviceIds
  <2>4. ListedOnce' /\ AddressesFollow' /\ UnitsFollow'
    BY <2>1, <2>2, <2>3 DEF Registry, ListedOnce, AddressesFollow, UnitsFollow
  <2>5. PICK H \in [Ids -> MaybeDevs] : H = home BY DEF TypeOK, MaybeDevs
  <2>6. Counted(H) BY <2>1, <2>5 DEF Registry, ViewsAccount, Left, ToMove, ToClose
  <2>7. Counted(H)' BY <2>1, <2>6 DEF Counted
  <2>8. Owned(H)' BY <2>1 DEF Owned, EmptyMap
  <2>9. Left(H, H)' BY <2>1, <2>5 DEF Left
  <2>10. QED BY <2>4, <2>7, <2>8, <2>9 DEF Registry, ViewsAccount, MaybeDevs
<1>3. QED
  BY <1>1, <1>2, ConnectKeepsRegistry, DisconnectKeepsRegistry
     DEF Connection, on_errorOccurred, closeConnections

LEMMA RegistryStart == Init => Registry
<1> SUFFICES ASSUME Init PROVE Registry OBVIOUS
<1>1. ListedOnce /\ listed = {} /\ deviceIds = {} BY DEF Init, ListedOnce, listed, deviceIds
<1>2. AddressesFollow /\ UnitsFollow
  BY <1>1, UnitsOfEmpty DEF Init, AddressesFollow, UnitsFollow
<1>3. home \in [Ids -> MaybeDevs] /\ Left(home, home) BY DEF Init, Left, MaybeDevs
<1>4. \A d \in Devs : Users(home, d) = {} BY DevsAssumption DEF Init, Users
<1>5. Counted(home) BY <1>4, FS_EmptySet DEF Init, Counted
<1>6. Owned(home) BY DEF Init, Owned, EmptyMap
<1>7. QED BY <1>1, <1>2, <1>3, <1>5, <1>6 DEF Registry, ViewsAccount

LEMMA RegistryStep == TypeOK /\ Registry /\ [Next]_vars => Registry'
<1> SUFFICES ASSUME TypeOK, Registry, [Next]_vars PROVE Registry'
  OBVIOUS
<1>1. CASE UNCHANGED vars BY <1>1, SameRangesKeepRegistry DEF vars
<1>2. QED
  BY <1>1, CallKeepsRegistry, UserEventKeepsRegistry, LocalWriteKeepsRegistry,
     ReconfigureKeepsRegistry, ConnectionKeepsRegistry, ClientRequestKeepsRegistry DEF Next

\* The views' account is right at every moment, in the middle of an event and
\* whatever clients, scripts and connections do: a unit id counts one reference
\* for every view that holds it, a range belongs to the view that registered
\* it, and every server has the unit ids and ranges of the master maps
\* (addDeviceId, removeDeviceId, addUnitMap, removeUnitMap, connectDevice,
\* disconnectDevice).
THEOREM RegistryHolds == Spec => []Registry
BY RegistryStart, RegistryStep, TypeCorrect, PTL DEF Spec

\* Between two user events every server of the list has exactly the unit ids
\* the open views hold, and the ranges of the master maps: no order of opening,
\* moving and closing views, and no connection, loses or leaks a registration.
THEOREM RegistrationsAgree == Spec => []RegistryAgrees
<1>1. TypeOK /\ Registry => RegistryAgrees
  <2> SUFFICES ASSUME TypeOK, Registry, calls = <<>>, NEW s \in Conns, s \in listed
               PROVE  /\ saddr[s] = {home[i] : i \in {j \in Ids : home[j] # NoDev}}
                      /\ \A d \in saddr[s] : smap[s][d].units = master[d].units
    BY DEF RegistryAgrees
  <2>1. Counted(home) BY DEF Registry, ViewsAccount, Left, ToMove, ToClose
  <2>2. \A d \in Devs : refs[d] > 0 <=> Users(home, d) # {}
    <3> SUFFICES ASSUME NEW d \in Devs PROVE refs[d] > 0 <=> Users(home, d) # {}
      OBVIOUS
    <3>1. IsFiniteSet(Users(home, d)) /\ refs[d] = Cardinality(Users(home, d))
      BY <2>1 DEF Counted
    <3>2. refs[d] \in Nat BY DEF TypeOK
    <3>3. refs[d] = 0 <=> Users(home, d) = {} BY <3>1, FS_EmptySet
    <3>4. QED BY <3>2, <3>3
  <2>3. saddr[s] = {d \in Devs : Users(home, d) # {}}
    BY <2>2 DEF Registry, AddressesFollow, deviceIds
  <2>4. {d \in Devs : Users(home, d) # {}} = {home[i] : i \in {j \in Ids : home[j] # NoDev}}
    BY DevsAssumption DEF Users, TypeOK
  <2>5. QED BY <2>3, <2>4 DEF Registry, UnitsFollow
<1>2. QED BY <1>1, TypeCorrect, RegistryHolds, PTL

\* No master map keeps a range of a view that was closed or moved away.
THEOREM NoRangeIsOrphaned == Spec => []NoOrphanRange
<1>1. Registry => NoOrphanRange
  BY DEF Registry, ViewsAccount, Left, ToMove, ToClose, Owned, NoOrphanRange
<1>2. QED BY <1>1, RegistryHolds, PTL

-----------------------------------------------------------------------------
(* Ranges registered by views only: the servers' copies follow the master  *)
(* maps.                                                                   *)

\* No global map and no register added on request.
LocalOnly == UserDefs \subseteq {DefaultDefinitions} /\ GlobalChoices \subseteq {FALSE}

\* What a script writes in one call lies within a range a view may register or
\* outside of it; a write of one register always does.
WholeWrites == \A r \in ScriptRanges, u \in UnitRanges : r \subseteq u \/ r \cap u = {}

LocalMaps == {m \in Maps : Good(m, Addr) /\ ~m.isGlobal /\ m.wide /\ m.auto = {}}

LEMMA LocalMapsAreClosed ==
  LocalOnly => /\ Closed(LocalMaps, {DefaultDefinitions}, Addr)
               /\ Permitted({DefaultDefinitions})
<1> SUFFICES ASSUME LocalOnly PROVE /\ Closed(LocalMaps, {DefaultDefinitions}, Addr)
                                    /\ Permitted({DefaultDefinitions})
  OBVIOUS
<1> DEFINE df == DefaultDefinitions
<1>1. Closed(GoodMaps(Addr), Definitions, Addr) BY GoodMapsAreClosed
<1>2. df \in Definitions /\ ~df.useGlobal /\ ~df.autoAdd /\ df.wide
  BY DEF DefaultDefinitions, Definitions
<1>3. LocalMaps \subseteq Maps /\ LocalMaps \subseteq GoodMaps(Addr)
  BY DEF LocalMaps, GoodMaps
<1>4. \A m \in GoodMaps(Addr) : m \in LocalMaps <=> ~m.isGlobal /\ m.wide /\ m.auto = {}
  BY DEF LocalMaps, GoodMaps
<1>5. Permitted({df})
  <2>1. normalised(DefaultDefinitions) = DefaultDefinitions
    <3> DEFINE b == DefaultDefinitions.useGlobal /\ ~DefaultDefinitions.autoAdd
    <3>1. normalised(DefaultDefinitions) = [DefaultDefinitions EXCEPT !.useGlobal = b]
      BY DEF normalised
    <3>2. b = FALSE BY DEF DefaultDefinitions
    <3> HIDE DEF b
    <3>3. QED BY <3>1, <3>2 DEF DefaultDefinitions
  <2>2. QED BY <1>2, <2>1 DEF Permitted, LocalOnly
<1> HIDE DEF df
<1>6. EmptyMap \in LocalMaps
  <2>1. EmptyMap \in GoodMaps(Addr) BY <1>1 DEF Closed
  <2>2. QED BY <1>4, <2>1 DEF EmptyMap
<1>7. \A m \in LocalMaps : flagged(m, df) \in LocalMaps
  <2> SUFFICES ASSUME NEW m \in LocalMaps PROVE flagged(m, df) \in LocalMaps OBVIOUS
  <2>1. flagged(m, df) \in GoodMaps(Addr) BY <1>1, <1>2, <1>3 DEF Closed
  <2>2. /\ flagged(m, df).isGlobal = df.useGlobal /\ flagged(m, df).wide = df.wide
        /\ flagged(m, df).auto = m.auto
    BY <1>3 DEF flagged, Maps
  <2>3. QED BY <1>2, <1>3, <1>4, <2>1, <2>2
<1>8. \A m \in LocalMaps, use \in GlobalChoices : [m EXCEPT !.isGlobal = use] \in LocalMaps
  <2> SUFFICES ASSUME NEW m \in LocalMaps, NEW use \in GlobalChoices
               PROVE  [m EXCEPT !.isGlobal = use] \in LocalMaps
    OBVIOUS
  <2>1. [m EXCEPT !.isGlobal = use] \in GoodMaps(Addr) BY <1>1, <1>3 DEF Closed
  <2>2. use = FALSE BY DEF LocalOnly
  <2>3. QED BY <1>3, <1>4, <2>1, <2>2 DEF Maps
<1>9. \A m \in LocalMaps, id \in Ids, r \in SUBSET Addr : addUnit(m, id, r) \in LocalMaps
  <2> SUFFICES ASSUME NEW m \in LocalMaps, NEW id \in Ids, NEW r \in SUBSET Addr
               PROVE  addUnit(m, id, r) \in LocalMaps
    OBVIOUS
  <2>1. addUnit(m, id, r) \in GoodMaps(Addr) BY <1>1, <1>3 DEF Closed
  <2>2. /\ addUnit(m, id, r).isGlobal = m.isGlobal /\ addUnit(m, id, r).wide = m.wide
        /\ addUnit(m, id, r).auto = m.auto
    BY <1>3 DEF addUnit, updateDataUnitMap, Maps
  <2>3. QED BY <1>3, <1>4, <2>1, <2>2
<1>10. \A m \in LocalMaps, id \in Ids : removeUnit(m, id) \in LocalMaps
  BY <1>9 DEF addUnit, removeUnit
<1>11. \A m \in LocalMaps : \A r : ensureAutoAddRange(df, m, r) = m
  BY <1>2 DEF ensureAutoAddRange
<1>12. \A m \in LocalMaps, r \in SUBSET Points : \A data \in [r -> Vals] :
         /\ setData(m, data) \in LocalMaps
         /\ Holds(m, r) => writeServed(m, data) \in LocalMaps
  <2> SUFFICES ASSUME NEW m \in LocalMaps, NEW r \in SUBSET Points, NEW data \in [r -> Vals]
               PROVE  /\ setData(m, data) \in LocalMaps
                      /\ Holds(m, r) => writeServed(m, data) \in LocalMaps
    OBVIOUS
  <2>1. /\ setData(m, data) \in GoodMaps(Addr)
        /\ Holds(m, r) => writeServed(m, data) \in GoodMaps(Addr)
    BY <1>1, <1>3 DEF Closed
  <2>2. \A n \in {setData(m, data), writeServed(m, data)} :
          n.isGlobal = m.isGlobal /\ n.wide = m.wide /\ n.auto = m.auto
    BY <1>3 DEF setData, writeServed, Maps
  <2>3. QED BY <1>3, <1>4, <2>1, <2>2
<1>13. \A m \in LocalMaps, r \in SUBSET Points : clearUnmapped(m, r) \in LocalMaps
  <2> SUFFICES ASSUME NEW m \in LocalMaps, NEW r \in SUBSET Points
               PROVE  clearUnmapped(m, r) \in LocalMaps
    OBVIOUS
  <2>1. clearUnmapped(m, r) \in GoodMaps(Addr) BY <1>1, <1>3 DEF Closed
  <2>2. LET n == clearUnmapped(m, r)
        IN n.isGlobal = m.isGlobal /\ n.wide = m.wide /\ n.auto = m.auto
    BY <1>3 DEF clearUnmapped, Maps
  <2>3. QED BY <1>3, <1>4, <2>1, <2>2
<1>14. Closed(LocalMaps, {df}, Addr)
  BY <1>1, <1>3, <1>6, <1>7, <1>8, <1>9, <1>10, <1>11, <1>12, <1>13 DEF Closed
<1>15. QED BY <1>5, <1>14 DEF df

-----------------------------------------------------------------------------
(* A write, on the master map and on a server's copy.                      *)

\* Copy n shows what master map m holds, at the addresses views registered.
Follows(m, n) == \A a \in Stored \cap UnitPoints(n) : n.local[a] \in {Absent, m.global[a]}

LEMMA LocalAccess ==
  ASSUME NEW m \in LocalMaps
  PROVE  /\ m \in Maps /\ MappedPoints(m) = UnitPoints(m) /\ MappedPoints(m) \subseteq Addr
         /\ \A p : Served(m, p) = m.local[p]
         /\ \A r, q : accepts(m, r, q) <=> /\ \A p \in r : m.local[p] # Absent
                                           /\ q => r # {} /\ r \subseteq UnitPoints(m)
BY DEF LocalMaps, MappedPoints, Good, Served, accepts, Holds, isMapped, coveredByUnits

\* The write at the master map, within the address space.
LEMMA MasterWritten ==
  ASSUME NEW m \in LocalMaps, NEW r \in SUBSET Addr, NEW data \in [r -> Vals]
  PROVE  /\ \A a \in Stored : setData(m, data).global[a]
                               = IF a \in r THEN data[a] ELSE m.global[a]
         /\ setData(m, data).units = m.units
<1> DEFINE hit(a) == \E p \in DOMAIN data : p % Width = a
           new(a) == data[CHOOSE p \in DOMAIN data : p % Width = a]
           loc == [p \in Points |-> IF m.local[p] # Absent /\ p \in Addr /\ hit(p)
                                    THEN new(p) ELSE m.local[p]]
           glob == [a \in Stored |-> IF a \in Entries(m) /\ hit(a) THEN new(a) ELSE m.global[a]]
<1>1. m \in Maps /\ m.wide BY DEF LocalMaps
<1>2. setData(m, data) = [m EXCEPT !.local = loc, !.global = glob]
  BY DEF setData
<1>3. \A p \in r : p % Width = p BY WidthAssumption DEF Addr
<1>4. \A a \in Stored : /\ hit(a) <=> a \in r
                        /\ a \in r => new(a) = data[a]
  BY <1>3
<1> HIDE DEF hit, new
<1>5. \A a \in Stored : glob[a] = IF a \in r THEN data[a] ELSE m.global[a]
  BY <1>1, <1>4 DEF Entries
<1> HIDE DEF loc, glob
<1>6. QED BY <1>1, <1>2, <1>5 DEF Maps

\* The write at a copy.
LEMMA CopyWritten ==
  ASSUME NEW n \in LocalMaps, NEW r \in SUBSET Points, NEW data \in [r -> Vals], NEW q
  PROVE  LET w == writeData(DefaultDefinitions, n, data, q)
         IN /\ w = IF accepts(n, r, q) THEN writeServed(n, data) ELSE n
            /\ writeServed(n, data).units = n.units
            /\ \A p \in Points : writeServed(n, data).local[p]
                                  = IF p \in r THEN data[p] ELSE n.local[p]
<1>1. ~DefaultDefinitions.autoAdd BY DEF DefaultDefinitions
<1>2. writeData(DefaultDefinitions, n, data, q)
        = IF accepts(n, r, q) THEN writeServed(n, data) ELSE n
  BY <1>1 DEF writeData, ensureAutoAddRange
<1> DEFINE loc == [p \in Points |-> IF p \in DOMAIN data THEN data[p] ELSE n.local[p]]
<1>3. writeServed(n, data) = [n EXCEPT !.local = loc] /\ n \in Maps
  BY DEF LocalMaps, writeServed
<1>4. \A p \in Points : loc[p] = IF p \in r THEN data[p] ELSE n.local[p] OBVIOUS
<1> HIDE DEF loc
<1>5. QED BY <1>2, <1>3, <1>4 DEF Maps

\* A copy follows when it takes the write, or has nothing where the master map
\* takes it.
LEMMA WriteFollows ==
  ASSUME NEW m \in LocalMaps, NEW n \in LocalMaps, Follows(m, n),
         NEW r \in SUBSET Addr, NEW data \in [r -> Vals], NEW q,
         \/ accepts(n, r, q)
         \/ \A a \in r \cap UnitPoints(n) : n.local[a] = Absent
  PROVE  Follows(setData(m, data), writeData(DefaultDefinitions, n, data, q))
<1> DEFINE w == writeData(DefaultDefinitions, n, data, q)
           g == setData(m, data).global
           s == writeServed(n, data)
<1>1. r \in SUBSET Points /\ Stored \subseteq Points
  BY WidthAssumption DEF Addr, Stored, Points
<1>2. \A a \in Stored : g[a] = IF a \in r THEN data[a] ELSE m.global[a]
  BY MasterWritten
<1>3. /\ w = IF accepts(n, r, q) THEN s ELSE n
      /\ s.units = n.units
      /\ \A p \in Points : s.local[p] = IF p \in r THEN data[p] ELSE n.local[p]
  BY <1>1, CopyWritten
<1> HIDE DEF s, w, g
<1>4. UnitPoints(w) = UnitPoints(n) BY <1>3 DEF UnitPoints
<1>5. \A a \in Stored \cap UnitPoints(n) : w.local[a] \in {Absent, g[a]}
  BY <1>1, <1>2, <1>3 DEF Follows
<1>6. QED BY <1>4, <1>5 DEF Follows, w, g

\* A range inside the registered ones, or outside of them, is taken or there is
\* nothing registered that it names.
LEMMA TakenOrNothing ==
  ASSUME NEW n \in LocalMaps, NEW r \in SUBSET Addr, NEW q,
         r # {}, r \subseteq UnitPoints(n) \/ r \cap UnitPoints(n) = {}
  PROVE  \/ accepts(n, r, q)
         \/ \A a \in r \cap UnitPoints(n) : n.local[a] = Absent
<1>1. /\ n \in Maps /\ MappedPoints(n) = UnitPoints(n) /\ MappedPoints(n) \subseteq Addr
      /\ accepts(n, r, q) <=> /\ \A p \in r : n.local[p] # Absent
                              /\ q => r # {} /\ r \subseteq UnitPoints(n)
  BY LocalAccess
<1>2. r \in SUBSET Points BY WidthAssumption DEF Addr, Points
<1>3. CASE r \cap UnitPoints(n) = {} BY <1>3
<1>4. CASE r \subseteq UnitPoints(n)
  <2> SUFFICES ASSUME ~accepts(n, r, q), NEW a \in r, n.local[a] # Absent PROVE FALSE
    OBVIOUS
  <2>1. PICK p \in r : n.local[p] = Absent BY <1>1, <1>4
  <2>2. \A x \in Points : (n.local[x] # Absent) <=> InMergedRange(n, x)
    BY DEF LocalMaps, Good, LocalIsMerged
  <2>3. InMergedRange(n, a) /\ p \in MappedPoints(n) BY <1>1, <1>2, <1>4, <2>2
  <2>4. InMergedRange(n, p) BY <1>1, <1>2, <2>3, AllOrNothing
  <2>5. QED BY <1>2, <2>1, <2>2, <2>4
<1>5. QED BY <1>3, <1>4

\* A copy that has taken the write already.
LEMMA WrittenFollows ==
  ASSUME NEW m \in LocalMaps, NEW n \in LocalMaps, Follows(m, n),
         NEW r \in SUBSET Addr, NEW data \in [r -> Vals], NEW q,
         \A p \in r : n.local[p] # Absent
  PROVE  /\ Follows(setData(m, data), writeServed(n, data))
         /\ Follows(setData(m, data),
                    writeData(DefaultDefinitions, writeServed(n, data), data, q))
<1> DEFINE g == setData(m, data).global
           s == writeServed(n, data)
           w == writeData(DefaultDefinitions, s, data, q)
           t == writeServed(s, data)
<1>1. r \in SUBSET Points /\ Stored \subseteq Points
  BY WidthAssumption DEF Addr, Stored, Points
<1>2. \A a \in Stored : g[a] = IF a \in r THEN data[a] ELSE m.global[a]
  BY MasterWritten
<1>3. /\ s.units = n.units
      /\ \A p \in Points : s.local[p] = IF p \in r THEN data[p] ELSE n.local[p]
  BY <1>1, CopyWritten
<1>4. s \in LocalMaps
  <2>1. n \in Maps /\ Good(n, Addr) /\ Holds(n, r) BY LocalAccess DEF Holds, LocalMaps
  <2>2. s \in Maps /\ Good(s, Addr)
    BY <1>1, <2>1, WriteServedType, WriteServedKeepsShape, ShapeKeepsGood
  <2>3. s.isGlobal = n.isGlobal /\ s.wide = n.wide /\ s.auto = n.auto
    BY <2>1 DEF writeServed, Maps
  <2> HIDE DEF s
  <2>4. QED BY <2>2, <2>3 DEF LocalMaps
<1> HIDE DEF s
<1>5. /\ w = IF accepts(s, r, q) THEN t ELSE s
      /\ t.units = s.units
      /\ \A p \in Points : t.local[p] = IF p \in r THEN data[p] ELSE s.local[p]
  BY <1>1, <1>4, CopyWritten
<1> HIDE DEF w, g, t
<1>6. \A x \in {s, t} : UnitPoints(x) = UnitPoints(n) BY <1>3, <1>5 DEF UnitPoints
<1>7. \A x \in {s, t} : \A a \in Stored \cap UnitPoints(n) : x.local[a] \in {Absent, g[a]}
  BY <1>1, <1>2, <1>3, <1>5 DEF Follows
<1>8. \A x \in {s, t} : Follows(setData(m, data), x) BY <1>6, <1>7 DEF Follows, g
<1>9. QED BY <1>5, <1>8 DEF s, w

-----------------------------------------------------------------------------
(* Every step keeps the copies following.                                  *)

Unknown == \A d \in Devs \ known : \A i \in Ids : master[d].units[i] = {}

\* A master map has no other ranges than those the views may choose, nor has a
\* call that is left to make.
RangesGiven ==
  /\ \A d \in Devs, i \in Ids : master[d].units[i] \in UnitRanges \cup {{}}
  /\ \A k \in DOMAIN calls :
       calls[k].op = "addUnitMap" => calls[k].range \in UnitRanges \cup {{}}

ServersFollow == \A s \in Conns, d \in Devs : Follows(master[d], smap[s][d])

LocalHyp == LocalOnly /\ WholeWrites /\ Within(Addr)

\* What is known before a step, and of the step from the other invariants.
Before ==
  /\ TypeOK /\ Registry /\ MastersAgree /\ Unknown /\ RangesGiven
  /\ MapsStay(LocalMaps, {DefaultDefinitions}, Addr)
Local == Before /\ ServersFollow

\* A server without a unit id has nothing registered for it.
LEMMA ServerUnits ==
  ASSUME Before, NEW s \in Conns, NEW d \in Devs
  PROVE  /\ d \in saddr[s] => /\ s \in listed /\ d \in deviceIds
                              /\ UnitPoints(smap[s][d]) = UnitPoints(master[d])
         /\ d \notin saddr[s] => UnitPoints(smap[s][d]) = {}
         /\ s \in listed /\ d \in deviceIds => d \in saddr[s]
         /\ UnitPoints(smap[s][d]) # {} => d \in known
         /\ smap[s][d] \in LocalMaps /\ master[d] \in LocalMaps
         /\ defs = DefaultDefinitions
<1>1. smap[s][d].units = IF d \in saddr[s] THEN master[d].units ELSE [i \in Ids |-> {}]
  BY DEF Before, Registry, UnitsFollow
<1>2. saddr[s] = IF s \in listed THEN deviceIds ELSE {}
  BY DEF Before, Registry, AddressesFollow
<1>3. d \notin saddr[s] => UnitPoints(smap[s][d]) = {} BY <1>1 DEF UnitPoints
<1>4. d \in saddr[s] => UnitPoints(smap[s][d]) = UnitPoints(master[d])
  BY <1>1 DEF UnitPoints
<1>5. UnitPoints(master[d]) # {} => d \in known BY DEF Before, Unknown, UnitPoints
<1>6. QED BY <1>2, <1>3, <1>4, <1>5 DEF Before, MapsStay

LEMMA EmptyFollows == \A m : Follows(m, EmptyMap)
BY DEF Follows, UnitPoints, EmptyMap

LEMMA AgreeingFollows ==
  ASSUME NEW m, CopiesAgree(m)
  PROVE  Follows(m, m)
BY DEF Follows, CopiesAgree

LEMMA CallKeepsFollowing == Local /\ MastersAgree' /\ Call => ServersFollow'
<1> SUFFICES ASSUME Local, MastersAgree', Call PROVE ServersFollow'
  OBVIOUS
<1> DEFINE c == Head(calls)
<1>1. c \in Calls /\ Run(c) BY DEF Call, Local, Before, TypeOK
<1>2. /\ c.dev \in Devs
      /\ c.op \in {"addUnitMap", "removeUnitMap"} => c.id \in Ids
      /\ c.op \in {"addUnitMap", "clearUnmappedData"} => c.range \in SUBSET Points
  BY <1>1, CallFields
<1> HIDE DEF c
<1>3. CASE addDeviceId(c.dev) BY <1>3 DEF addDeviceId, core, Local, ServersFollow
<1>4. CASE removeDeviceId(c.dev)
  <2>1. /\ UNCHANGED master
        /\ smap' = [s \in Conns |-> IF s \in listed /\ refs[c.dev] = 1
                      THEN [smap[s] EXCEPT ![c.dev] = EmptyMap] ELSE smap[s]]
    BY <1>4 DEF removeDeviceId
  <2>2. \A s \in Conns, d \in Devs : smap'[s][d] \in {smap[s][d], EmptyMap}
    BY <2>1 DEF Local, Before, TypeOK
  <2>3. QED BY <2>1, <2>2, EmptyFollows DEF Local, ServersFollow
<1>5. ASSUME NEW maps, NEW keys, reconfigureServers(maps, keys) PROVE ServersFollow'
  <2> SUFFICES ASSUME NEW s \in Conns, NEW d \in Devs PROVE Follows(master'[d], smap'[s][d])
    BY DEF ServersFollow
  <2>1. /\ master' = maps
        /\ smap'[s][d] = IF s \in listed /\ d \in saddr[s] THEN maps[d] ELSE smap[s][d]
    BY <1>5 DEF reconfigureServers
  <2>2. CASE d \in saddr[s]
    <3>1. smap'[s][d] = master'[d] BY <2>1, <2>2, ServerUnits DEF Local
    <3>2. CopiesAgree(master'[d]) BY DEF MastersAgree
    <3>3. QED BY <3>1, <3>2, AgreeingFollows
  <2>3. CASE d \notin saddr[s]
    <3>1. UnitPoints(smap[s][d]) = {} BY <2>3, ServerUnits DEF Local
    <3>2. QED BY <2>1, <2>3, <3>1 DEF Follows
  <2>4. QED BY <2>2, <2>3
<1>6. CASE c.op = "addUnitMap" /\ addUnitMap(c.id, c.dev, c.range)
  BY <1>5, <1>6 DEF addUnitMap
<1>7. CASE c.op = "removeUnitMap" /\ removeUnitMap(c.id, c.dev)
  BY <1>5, <1>7 DEF removeUnitMap
<1>8. CASE c.op = "clearUnmappedData" /\ clearUnmappedData(c.dev, c.range)
  <2> DEFINE n == clearUnmapped(master[c.dev], c.range)
  <2>1. master' \in {master, [master EXCEPT ![c.dev] = n]} /\ UNCHANGED smap
    BY <1>8 DEF clearUnmappedData
  <2>2. master[c.dev] \in Maps BY <1>2 DEF Local, Before, TypeOK
  <2>3. \A a \in Stored \cap UnitPoints(master[c.dev]) : n.global[a] = master[c.dev].global[a]
    BY <2>2 DEF clearUnmapped, MappedPoints, Maps
  <2> HIDE DEF n
  <2> SUFFICES ASSUME NEW s \in Conns, NEW d \in Devs PROVE Follows(master'[d], smap'[s][d])
    BY DEF ServersFollow
  <2>4. Follows(master[d], smap[s][d]) BY DEF Local, ServersFollow
  <2>5. CASE master'[d] = master[d] BY <2>1, <2>4, <2>5
  <2>6. CASE d = c.dev /\ master'[d] = n
    <3>1. UnitPoints(smap[s][d]) \subseteq UnitPoints(master[d])
      BY ServerUnits DEF Local
    <3>2. QED BY <2>1, <2>3, <2>4, <2>6, <3>1 DEF Follows
  <2>7. QED BY <2>1, <2>5, <2>6 DEF Local, Before, TypeOK
<1>9. QED BY <1>1, <1>3, <1>4, <1>6, <1>7, <1>8 DEF Run

\* What writeAll leaves for one unit id of one server.
LEMMA WrittenAt ==
  TypeOK => \A maps \in [Conns -> [Devs -> Maps]], d \in Devs, c \in Conns, e \in Devs :
    \A data : \A serving \in SUBSET Conns :
      writeAll(maps, d, data, serving)[c][e]
        = IF c \in listed /\ e = d THEN writeData(defs, maps[c][d], data, c \in serving)
          ELSE maps[c][e]
<1> SUFFICES ASSUME TypeOK, NEW maps \in [Conns -> [Devs -> Maps]], NEW d \in Devs,
                    NEW c \in Conns, NEW e \in Devs, NEW data, NEW serving \in SUBSET Conns
             PROVE  writeAll(maps, d, data, serving)[c][e]
                      = IF c \in listed /\ e = d
                        THEN writeData(defs, maps[c][d], data, c \in serving)
                        ELSE maps[c][e]
  OBVIOUS
<1> DEFINE q == c \in serving
<1>1. maps[c] \in [Devs -> Maps] OBVIOUS
<1>2. writeAll(maps, d, data, serving)[c]
        = IF c \in listed THEN [maps[c] EXCEPT ![d] = writeData(defs, @, data, q)] ELSE maps[c]
  BY DEF writeAll
<1> HIDE DEF q
<1>3. writeAll(maps, d, data, serving)[c][e]
        = IF c \in listed /\ e = d THEN writeData(defs, maps[c][d], data, q) ELSE maps[c][e]
  BY <1>1, <1>2
<1>4. QED BY <1>3 DEF q

LEMMA LocalWriteKeepsFollowing == LocalHyp /\ Local /\ LocalWrite => ServersFollow'
<1>1. ASSUME LocalHyp, Local, NEW d \in Devs, NEW r \in SUBSET Addr, NEW data \in [r -> Vals],
             setDataLocally(d, data), r # {},
             r \subseteq UnitPoints(master[d]) \/ r \cap UnitPoints(master[d]) = {}
      PROVE  ServersFollow'
  <2>1. master' = [master EXCEPT ![d] = setData(@, data)] /\ smap' = writeAll(smap, d, data, {})
    BY <1>1 DEF setDataLocally
  <2>2. TypeOK /\ defs = DefaultDefinitions /\ smap \in [Conns -> [Devs -> Maps]]
    BY <1>1 DEF Local, Before, TypeOK, MapsStay
  <2> SUFFICES ASSUME NEW s \in Conns, NEW e \in Devs PROVE Follows(master'[e], smap'[s][e])
    BY DEF ServersFollow
  <2> DEFINE q == s \in {}
             w == writeData(DefaultDefinitions, smap[s][d], data, q)
  <2>3. smap'[s][e] = IF s \in listed /\ e = d THEN w ELSE smap[s][e]
    <3>1. {} \in SUBSET Conns OBVIOUS
    <3>2. \A x \in SUBSET Conns : writeAll(smap, d, data, x)[s][e]
            = IF s \in listed /\ e = d THEN writeData(defs, smap[s][d], data, s \in x)
              ELSE smap[s][e]
      BY <2>2, WrittenAt
    <3>3. writeAll(smap, d, data, {})[s][e]
            = IF s \in listed /\ e = d THEN writeData(defs, smap[s][d], data, s \in {})
              ELSE smap[s][e]
      BY <3>1, <3>2, Zenon
    <3>4. QED BY <2>1, <2>2, <3>3, Zenon
  <2>4. Follows(master[e], smap[s][e]) BY <1>1 DEF Local, ServersFollow
  <2>5. ~q OBVIOUS
  <2> HIDE DEF q
  <2>6. CASE e # d BY <1>1, <2>1, <2>3, <2>4, <2>6 DEF Local, Before, TypeOK
  <2>7. CASE e = d
    <3>1. master'[d] = setData(master[d], data)
      BY <1>1, <2>1 DEF Local, Before, TypeOK
    <3>2. smap[s][d] \in LocalMaps /\ master[d] \in LocalMaps
      BY <1>1, ServerUnits DEF Local
    <3>3. CASE d \in saddr[s]
      <4>1. s \in listed /\ UnitPoints(smap[s][d]) = UnitPoints(master[d])
        BY <1>1, <3>3, ServerUnits DEF Local
      <4>2. \/ accepts(smap[s][d], r, q)
            \/ \A a \in r \cap UnitPoints(smap[s][d]) : smap[s][d].local[a] = Absent
        BY <1>1, <2>5, <3>2, <4>1, TakenOrNothing
      <4>3. Follows(setData(master[d], data), w)
        BY <1>1, <2>4, <2>7, <3>2, <4>2, WriteFollows
      <4>4. QED BY <2>3, <2>7, <3>1, <4>1, <4>3
    <3>4. CASE d \notin saddr[s]
      <4>1. UnitPoints(smap[s][d]) = {} BY <1>1, <3>4, ServerUnits DEF Local
      <4>2. Follows(setData(master[d], data), smap[s][d]) BY <4>1 DEF Follows
      <4>3. Follows(setData(master[d], data), w)
        BY <1>1, <2>4, <2>7, <3>2, <4>1, WriteFollows
      <4>4. QED BY <2>3, <2>7, <3>1, <4>2, <4>3
    <3>5. QED BY <3>3, <3>4
  <2>8. QED BY <2>6, <2>7
<1>2. ASSUME LocalHyp, Local, NEW id \in Ids, NEW r \in ReqRanges, NEW data \in Data(r),
             ViewWrite(id, data)
      PROVE  ServersFollow'
  <2>1. home[id] \in Devs BY <1>2 DEF Local, Before, TypeOK, ViewWrite
  <2>2. DOMAIN data = r /\ data \in [r -> Vals] BY DEF Data
  <2>3. r \subseteq UnitPoints(master[home[id]])
    BY <1>2, <2>2 DEF ViewWrite, rangeOf, UnitPoints
  <2>4. r \in SUBSET Addr /\ r # {} BY <1>2, RangesAssumption DEF LocalHyp, Within
  <2>5. QED BY <1>1, <1>2, <2>1, <2>2, <2>3, <2>4 DEF ViewWrite
<1>3. ASSUME LocalHyp, Local, NEW d \in Devs, NEW r \in ScriptRanges, NEW data \in Data(r),
             ScriptWrite(d, data)
      PROVE  ServersFollow'
  <2>1. DOMAIN data = r /\ data \in [r -> Vals] BY DEF Data
  <2>2. r \in SUBSET Addr /\ r # {} BY <1>3, RangesAssumption DEF LocalHyp, Within
  <2>3. \A i \in Ids : r \subseteq master[d].units[i] \/ r \cap master[d].units[i] = {}
    <3>1. \A u \in UnitRanges \cup {{}} : r \subseteq u \/ r \cap u = {}
      BY <1>3 DEF LocalHyp, WholeWrites
    <3>2. QED BY <1>3, <3>1 DEF Local, Before, RangesGiven
  <2>5. r \subseteq UnitPoints(master[d]) \/ r \cap UnitPoints(master[d]) = {}
    BY <2>3 DEF UnitPoints
  <2>4. QED BY <1>1, <1>3, <2>1, <2>2, <2>5 DEF ScriptWrite
<1>4. QED BY <1>2, <1>3 DEF LocalWrite

LEMMA ReconfigureKeepsFollowing ==
  LocalHyp /\ Local /\ MastersAgree' /\ Reconfigure => ServersFollow'
<1> SUFFICES ASSUME LocalHyp, Local, MastersAgree', Reconfigure PROVE ServersFollow'
  OBVIOUS
<1>1. ASSUME NEW df \in UserDefs, setModbusDefinitions(df) PROVE ServersFollow'
  <2> DEFINE new == normalised(df)
  <2>1. /\ master' = [d \in Devs |-> IF d \in known THEN flagged(master[d], new)
                                     ELSE master[d]]
        /\ smap' = [s \in Conns |-> [d \in Devs |->
             IF s \in listed /\ d \in saddr[s] THEN flagged(smap[s][d], new)
             ELSE smap[s][d]]]
    BY <1>1 DEF setModbusDefinitions, normalised
  <2>2. \A m \in Maps : /\ flagged(m, new).units = m.units
                        /\ flagged(m, new).local = m.local
                        /\ flagged(m, new).global = m.global
    BY DEF flagged, Maps
  <2> HIDE DEF new
  <2> SUFFICES ASSUME NEW s \in Conns, NEW d \in Devs PROVE Follows(master'[d], smap'[s][d])
    BY DEF ServersFollow
  <2>3. master[d] \in Maps /\ smap[s][d] \in Maps BY DEF Local, Before, TypeOK
  <2>4. master'[d] \in {master[d], flagged(master[d], new)}
        /\ smap'[s][d] \in {smap[s][d], flagged(smap[s][d], new)}
    BY <2>1
  <2>5. /\ master'[d].global = master[d].global
        /\ smap'[s][d].local = smap[s][d].local /\ smap'[s][d].units = smap[s][d].units
    BY <2>2, <2>3, <2>4
  <2>6. Follows(master[d], smap[s][d]) BY DEF Local, ServersFollow
  <2>7. QED BY <2>5, <2>6 DEF Follows, UnitPoints
<1>2. ASSUME NEW use \in GlobalChoices, setUseGlobalUnitMap(use) PROVE ServersFollow'
  <2> SUFFICES ASSUME NEW s \in Conns, NEW d \in Devs PROVE Follows(master'[d], smap'[s][d])
    BY DEF ServersFollow
  <2> DEFINE maps == [e \in Devs |-> IF e \in known THEN [master[e] EXCEPT !.isGlobal = use]
                                    ELSE master[e]]
  <2>1. reconfigureServers(maps, known) BY <1>2 DEF setUseGlobalUnitMap
  <2> HIDE DEF maps
  <2>2. /\ master' = maps
        /\ smap'[s][d] = IF s \in listed /\ d \in saddr[s] THEN maps[d] ELSE smap[s][d]
    BY <2>1 DEF reconfigureServers
  <2>3. CASE d \in saddr[s]
    <3>1. smap'[s][d] = master'[d] BY <2>2, <2>3, ServerUnits DEF Local
    <3>2. CopiesAgree(master'[d]) BY DEF MastersAgree
    <3>3. QED BY <3>1, <3>2, AgreeingFollows
  <2>4. CASE d \notin saddr[s]
    <3>1. UnitPoints(smap[s][d]) = {} BY <2>4, ServerUnits DEF Local
    <3>2. QED BY <2>2, <2>4, <3>1 DEF Follows
  <2>5. QED BY <2>3, <2>4
<1>3. QED BY <1>1, <1>2 DEF Reconfigure

-----------------------------------------------------------------------------
(* Client requests.                                                        *)

\* Nothing is added on request.
LEMMA Fetched ==
  ASSUME Before, NEW s \in Conns, NEW d \in Devs, NEW r
  PROVE  fetched(s, d, r) = smap[s][d]
BY DEF fetched, ensureAutoAddRange, Before, MapsStay, DefaultDefinitions

\* An accepted write of a client.
LEMMA ClientWrites ==
  ASSUME LocalHyp, Local, NEW s \in Conns, NEW d \in Devs, NEW r \in ReqRanges,
         NEW data \in Data(r), accepts(fetched(s, d, r), r, TRUE)
  PROVE  /\ clientWritten(s, d, data).master = [master EXCEPT ![d] = setData(@, data)]
         /\ \A c \in Conns, e \in Devs :
              Follows(clientWritten(s, d, data).master[e], clientWritten(s, d, data).maps[c][e])
         /\ d \in saddr[s] /\ r \subseteq UnitPoints(smap[s][d]) /\ r \in SUBSET Addr
<1> DEFINE n == smap[s][d]
           w == writeServed(n, data)
           own == [smap EXCEPT ![s][d] = w]
           newMaps == writeAll(own, d, data, {s})
           newMaster == [master EXCEPT ![d] = setData(@, data)]
<1>1. r \in SUBSET Addr /\ r # {} /\ data \in [r -> Vals] /\ DOMAIN data = r
  BY RangesAssumption DEF LocalHyp, Within, Data
<1>2. fetched(s, d, r) = n BY Fetched DEF Local
<1>3. n \in LocalMaps /\ master[d] \in LocalMaps /\ defs = DefaultDefinitions
  BY ServerUnits DEF Local
<1>4. (\A p \in r : n.local[p] # Absent) /\ r \subseteq UnitPoints(n)
  BY <1>2, <1>3, LocalAccess
<1>5. d \in saddr[s] /\ s \in listed /\ d \in known
  BY <1>1, <1>4, ServerUnits DEF Local
<1>6. clientWritten(s, d, data) = [master |-> newMaster, maps |-> newMaps]
  BY <1>1, <1>2, <1>5 DEF clientWritten
<1>7. TypeOK /\ smap \in [Conns -> [Devs -> Maps]] /\ master \in [Devs -> Maps]
  BY DEF Local, Before, TypeOK
<1>8. w \in Maps
  <2>1. r \in SUBSET Points BY <1>1, WidthAssumption DEF Addr, Points
  <2>2. QED BY <1>1, <1>7, <2>1, WriteServedType
<1>9. ASSUME NEW c \in Conns, NEW e \in Devs PROVE Follows(newMaster[e], newMaps[c][e])
  <2> DEFINE q == c \in {s}
             v == writeData(DefaultDefinitions, own[c][d], data, q)
  <2>1. /\ own \in [Conns -> [Devs -> Maps]]
        /\ own[c][e] = IF c = s /\ e = d THEN w ELSE smap[c][e]
        /\ own[c][d] = IF c = s THEN w ELSE smap[c][d]
    <3> HIDE DEF w
    <3>1. QED BY <1>7, <1>8
  <2> HIDE DEF own
  <2>2. newMaps[c][e] = IF c \in listed /\ e = d THEN v ELSE own[c][e]
    <3>1. {s} \in SUBSET Conns OBVIOUS
    <3>2. \A x \in SUBSET Conns : writeAll(own, d, data, x)[c][e]
            = IF c \in listed /\ e = d THEN writeData(defs, own[c][d], data, c \in x)
              ELSE own[c][e]
      <4> HIDE DEF w, newMaps, newMaster, v, q
      <4>1. TypeOK /\ own \in [Conns -> [Devs -> Maps]] BY <1>7, <2>1
      <4>2. QED BY <4>1, WrittenAt
    <3>3. writeAll(own, d, data, {s})[c][e]
            = IF c \in listed /\ e = d THEN writeData(defs, own[c][d], data, c \in {s})
              ELSE own[c][e]
      BY <3>1, <3>2, Zenon
    <3>4. QED BY <1>3, <3>3, Zenon
  <2>3. Follows(master[e], smap[c][e]) BY DEF Local, ServersFollow
  <2>4. CASE e # d
    <3>1. newMaster[e] = master[e] /\ newMaps[c][e] = smap[c][e]
      <4> HIDE DEF newMaps
      <4>1. QED BY <1>7, <2>1, <2>2, <2>4
    <3>2. QED BY <2>3, <3>1
  <2>5. newMaster[d] = setData(master[d], data) BY <1>7
  <2>6. CASE e = d /\ c = s
    <3>1. v = writeData(DefaultDefinitions, w, data, q) BY <2>1, <2>6
    <3> HIDE DEF q
    <3>2. Follows(setData(master[d], data), writeData(DefaultDefinitions, w, data, q))
      BY <1>1, <1>3, <1>4, <2>3, <2>6, WrittenFollows
    <3> HIDE DEF v, w, newMaster, newMaps
    <3>3. QED BY <1>5, <2>2, <2>5, <2>6, <3>1, <3>2
  <2>7. CASE e = d /\ c # s
    <3>1. v = writeData(DefaultDefinitions, smap[c][d], data, q) BY <2>1, <2>7
    <3>2. ~q BY <2>7
    <3> HIDE DEF q
    <3>3. smap[c][d] \in LocalMaps BY ServerUnits DEF Local
    <3>4. CASE d \in saddr[c]
      <4>1. c \in listed /\ r \subseteq UnitPoints(smap[c][d])
        BY <1>4, <1>5, <3>4, ServerUnits DEF Local
      <4>2. \/ accepts(smap[c][d], r, q)
            \/ \A a \in r \cap UnitPoints(smap[c][d]) : smap[c][d].local[a] = Absent
        BY <1>1, <3>3, <4>1, TakenOrNothing
      <4>3. Follows(setData(master[d], data), writeData(DefaultDefinitions, smap[c][d], data, q))
        BY <1>1, <1>3, <2>3, <2>7, <3>3, <4>2, WriteFollows
      <4> HIDE DEF v, newMaster, newMaps
      <4>4. QED BY <2>2, <2>5, <2>7, <3>1, <4>1, <4>3
    <3>5. CASE d \notin saddr[c]
      <4>1. UnitPoints(smap[c][d]) = {} BY <3>5, ServerUnits DEF Local
      <4>2. Follows(setData(master[d], data), smap[c][d]) BY <4>1 DEF Follows
      <4>3. Follows(setData(master[d], data), writeData(DefaultDefinitions, smap[c][d], data, q))
        BY <1>1, <1>3, <2>3, <2>7, <3>3, <4>1, WriteFollows
      <4> HIDE DEF v, newMaster, newMaps
      <4>4. QED BY <2>1, <2>2, <2>5, <2>7, <3>1, <4>2, <4>3
    <3>6. QED BY <3>4, <3>5
  <2>8. QED BY <2>4, <2>6, <2>7
<1> HIDE DEF newMaps, newMaster
<1>10. /\ clientWritten(s, d, data).master = newMaster
       /\ clientWritten(s, d, data).maps = newMaps
  BY <1>6
<1>11. QED BY <1>1, <1>4, <1>5, <1>9, <1>10 DEF newMaster

LEMMA ClientRequestKeepsFollowing == LocalHyp /\ Local /\ ClientRequest => ServersFollow'
<1> SUFFICES ASSUME LocalHyp, Local, ClientRequest PROVE ServersFollow'
  OBVIOUS
<1>1. PICK s \in Conns, d \in Devs, r \in ReqRanges :
          \/ \E checks \in BOOLEAN : ClientRefused(s, d, r, checks)
          \/ \E checks \in BOOLEAN : ClientRead(s, d, r, checks)
          \/ \E data \in Data(r), checks \in BOOLEAN : ClientWrite(s, d, data, checks)
          \/ \E data \in Data(r), rr \in ReqRanges : ClientReadWrite(s, d, data, rr)
  BY DEF ClientRequest
<1>2. fetched(s, d, r) = smap[s][d] BY Fetched DEF Local
<1>3. [smap EXCEPT ![s][d] = smap[s][d]] = smap BY DEF Local, Before, TypeOK
<1>4. CASE master' = master /\ smap' = smap BY <1>4 DEF Local, ServersFollow
<1>5. CASE \E checks \in BOOLEAN : ClientRefused(s, d, r, checks)
  BY <1>2, <1>3, <1>4, <1>5 DEF ClientRefused
<1>6. CASE \E checks \in BOOLEAN : ClientRead(s, d, r, checks)
  BY <1>2, <1>3, <1>4, <1>6 DEF ClientRead
<1>7. ASSUME NEW data \in Data(r), NEW checks \in BOOLEAN, ClientWrite(s, d, data, checks)
      PROVE  ServersFollow'
  <2>1. DOMAIN data = r BY DEF Data
  <2>2. accepts(fetched(s, d, r), r, TRUE) BY <1>7, <2>1 DEF ClientWrite, refuses
  <2>3. master' = clientWritten(s, d, data).master /\ smap' = clientWritten(s, d, data).maps
    BY <1>7 DEF ClientWrite
  <2>4. QED BY <2>2, <2>3, ClientWrites DEF ServersFollow
<1>8. ASSUME NEW data \in Data(r), NEW rr \in ReqRanges, ClientReadWrite(s, d, data, rr)
      PROVE  ServersFollow'
  <2> DEFINE w == clientWritten(s, d, data)
             e == ensureAutoAddRange(defs, w.maps[s][d], rr)
  <2>1. DOMAIN data = r BY DEF Data
  <2>2. accepts(fetched(s, d, r), r, TRUE) BY <1>8, <2>1 DEF ClientReadWrite, refuses
  <2>3. master' = w.master /\ smap' = [w.maps EXCEPT ![s][d] = e]
    BY <1>8 DEF ClientReadWrite
  <2>4. e = w.maps[s][d]
    BY DEF ensureAutoAddRange, Local, Before, MapsStay, DefaultDefinitions
  <2>5. w.maps \in [Conns -> [Devs -> Maps]]
    BY ClientWrittenType, RangesAssumption DEF Data, Local, Before
  <2>6. \A c \in Conns, x \in Devs : Follows(w.master[x], w.maps[c][x])
    BY <2>2, ClientWrites
  <2> HIDE DEF w, e
  <2>7. smap' = w.maps BY <2>3, <2>4, <2>5
  <2>8. QED BY <2>3, <2>6, <2>7 DEF ServersFollow
<1>9. QED BY <1>1, <1>5, <1>6, <1>7, <1>8

-----------------------------------------------------------------------------
(* A new connection takes over what the first server of the list serves.   *)

\* What the master map has at a registered address stays, and every copy
\* follows.
LEMMA TakeOverFollows ==
  ASSUME LocalHyp, Local, NEW s \in Conns, NEW d \in deviceIds,
         NEW servers \in Seq(Conns), servers # <<>>,
         servers[1] \in listed \cup {s}
  PROVE  /\ \A a \in Stored \cap UnitPoints(master[d]) :
              takeOver(s, d, servers).master.global[a] = master[d].global[a]
         /\ \A c \in Conns :
              Follows(takeOver(s, d, servers).master, takeOver(s, d, servers).maps[c])
<1> DEFINE own == IF s \in listed THEN defs ELSE DefaultDefinitions
           first == servers[1]
           m == master[d]
           r == servedPoints(m)
           copy == [c \in Conns |-> IF c = s THEN m ELSE smap[c][d]]
           src == ensureAutoAddRange(IF first = s THEN own ELSE defs, copy[first], r)
           read == [copy EXCEPT ![first] = src]
           data == [p \in r |-> IF Holds(src, r) THEN Served(src, p) ELSE Served(m, p)]
           before == ensureAutoAddRange(own, read[s], r)
           after == writeData(own, read[s], data, FALSE)
           written == [read EXCEPT ![s] = after]
           defsOf(c) == IF c = s THEN own ELSE defs
           final == [c \in Conns |-> IF c \in listed \cup {s}
                       THEN writeData(defsOf(c), written[c], data, FALSE)
                       ELSE written[c]]
           df == DefaultDefinitions
           after1 == writeServed(m, data)
<1>1. d \in Devs /\ first \in Conns BY DEF deviceIds
<1>2. m \in LocalMaps /\ (\A c \in Conns : smap[c][d] \in LocalMaps) /\ defs = df
  BY <1>1, ServerUnits DEF Local
<1>3. own = df /\ \A c \in Conns : defsOf(c) = df BY <1>2
<1>4. CopiesAgree(m) /\ (\A c \in Conns : Follows(m, smap[c][d])) /\ Follows(m, m)
  BY <1>1, AgreeingFollows DEF Local, Before, MastersAgree, ServersFollow
<1>5. \A c \in Conns : /\ c \in listed => UnitPoints(smap[c][d]) = UnitPoints(m)
                       /\ c \notin listed => UnitPoints(smap[c][d]) = {}
  BY <1>1, ServerUnits DEF Local
<1>6. \A c \in Conns : copy[c] = IF c = s THEN m ELSE smap[c][d] OBVIOUS
<1>7. copy \in [Conns -> LocalMaps] BY <1>2
<1>8. \A x : ensureAutoAddRange(df, x, r) = x BY DEF ensureAutoAddRange, DefaultDefinitions
<1>9. takeOver(s, d, servers) =
        IF r = {} THEN [master |-> m, maps |-> copy]
        ELSE IF after = before THEN [master |-> m, maps |-> written]
        ELSE [master |-> setData(m, data), maps |-> final]
  BY DEF takeOver
<1>10. /\ src = copy[first] /\ read = copy /\ before = m
       /\ after = writeData(df, m, data, FALSE)
  <2>1. src = copy[first] BY <1>2, <1>3, <1>8
  <2> HIDE DEF src, copy, own, m, first
  <2>2. read = copy BY <1>1, <1>7, <2>1
  <2>3. read[s] = m BY <1>6, <2>2
  <2>4. QED BY <1>3, <1>8, <2>1, <2>2, <2>3
<1>11. m = master[d] /\ first \in listed \cup {s} OBVIOUS
<1>12. /\ \A x \in LocalMaps : \A p : Served(x, p) = x.local[p]
       /\ \A p \in r : p \in Points /\ m.local[p] # Absent
       /\ r \in SUBSET Addr
  <2>1. \A x \in LocalMaps : \A p : Served(x, p) = x.local[p] BY LocalAccess
  <2>2. \A p \in r : p \in Points /\ Served(m, p) # Absent BY DEF servedPoints
  <2>3. Good(m, Addr) /\ m \in Maps BY <1>2 DEF LocalMaps
  <2> HIDE DEF m, r
  <2>4. \A p \in r : p \in Addr BY <2>2, <2>3, ServedIsInside
  <2>5. QED BY <1>2, <2>1, <2>2, <2>4
<1> HIDE DEF own, first, m, copy, r, src, read
<1>13. src \in LocalMaps BY <1>1, <1>7, <1>10
<1>14. data \in [r -> Vals]
  <2>1. \A p \in r : Served(m, p) \in Vals
    BY <1>2, <1>12, ServedType DEF LocalMaps
  <2>2. Holds(src, r) => \A p \in r : Served(src, p) \in Vals
    BY <1>12, <1>13, ServedType DEF Holds, LocalMaps
  <2>3. QED BY <2>1, <2>2
\* The values taken over are those of the master map where a view registered.
<1>15. \A a \in Stored \cap UnitPoints(m) : a \in r => data[a] = m.global[a]
  <2> SUFFICES ASSUME NEW a \in Stored \cap UnitPoints(m), a \in r
               PROVE  data[a] = m.global[a]
    OBVIOUS
  <2>1. m.local[a] = m.global[a] BY <1>4, <1>12 DEF CopiesAgree
  <2>2. CASE Holds(src, r)
    <3>1. data[a] = src.local[a] /\ src.local[a] # Absent
      BY <1>12, <1>13, <2>2 DEF Holds
    <3>2. CASE first = s
      <4>1. src = m BY <1>1, <1>6, <1>10, <3>2
      <4>2. QED BY <2>1, <3>1, <4>1
    <3>3. CASE first # s
      <4>1. src = smap[first][d] /\ first \in listed BY <1>1, <1>6, <1>10, <1>11, <3>3
      <4>2. Follows(m, src) /\ UnitPoints(src) = UnitPoints(m) BY <1>1, <1>4, <1>5, <4>1
      <4>3. QED BY <3>1, <4>2 DEF Follows
    <3>4. QED BY <3>2, <3>3
  <2>3. CASE ~Holds(src, r)
    <3>1. data[a] = m.local[a] BY <1>2, <1>12, <2>3
    <3>2. QED BY <2>1, <3>1
  <2>4. QED BY <2>2, <2>3
<1> HIDE DEF data
<1>16. \A a \in Stored \cap UnitPoints(m) : setData(m, data).global[a] = m.global[a]
  BY <1>2, <1>12, <1>14, <1>15, MasterWritten
<1>17. after = after1 /\ before = m /\ after1 \in LocalMaps
  <2> DEFINE q == FALSE
  <2>1. ~q OBVIOUS
  <2>2. r \in SUBSET Points BY <1>12
  <2>3. after = writeData(df, m, data, q) BY <1>10
  <2> HIDE DEF q, df
  <2>4. accepts(m, r, q) BY <1>2, <1>12, <2>1, LocalAccess
  <2>5. writeData(df, m, data, q) = after1 BY <1>2, <1>14, <2>2, <2>4, CopyWritten DEF df
  <2>6. Holds(m, r) BY <1>2, <1>12 DEF Holds
  <2>7. Closed(LocalMaps, {df}, Addr) BY LocalMapsAreClosed DEF LocalHyp, df
  <2>8. after1 \in LocalMaps BY <1>2, <1>14, <2>2, <2>6, <2>7 DEF Closed
  <2>9. QED BY <1>10, <2>3, <2>5, <2>8
<1>18. /\ written \in [Conns -> LocalMaps]
       /\ \A c \in Conns : written[c] = IF c = s THEN after1 ELSE smap[c][d]
  <2> HIDE DEF after, after1
  <2>1. written = [copy EXCEPT ![s] = after1] BY <1>10, <1>17
  <2>2. QED BY <1>6, <1>7, <1>17, <2>1
<1> HIDE DEF after, before, written, after1
<1>19. CASE r = {}
  <2>1. takeOver(s, d, servers) = [master |-> m, maps |-> copy] BY <1>9, <1>19
  <2>2. \A c \in Conns : Follows(m, copy[c]) BY <1>4, <1>6
  <2>3. QED BY <1>11, <2>1, <2>2
<1>20. CASE r # {} /\ after = before
  <2>1. takeOver(s, d, servers) = [master |-> m, maps |-> written] BY <1>9, <1>20
  <2>2. \A c \in Conns : Follows(m, written[c]) BY <1>4, <1>17, <1>18, <1>20
  <2>3. QED BY <1>11, <2>1, <2>2
<1>21. CASE r # {} /\ after # before
  <2> DEFINE g == setData(m, data)
  <2>1. takeOver(s, d, servers) = [master |-> g, maps |-> final] BY <1>9, <1>21
  <2>2. ASSUME NEW c \in Conns PROVE Follows(g, final[c])
    <3> DEFINE q == FALSE
               w == writeData(df, written[c], data, q)
    <3>1. final[c] = IF c \in listed \cup {s} THEN w ELSE written[c] BY <1>3
    <3>2. ~q OBVIOUS
    <3> HIDE DEF q, final
    <3>3. CASE c = s
      <4>1. written[c] = writeServed(m, data) BY <1>18, <3>3 DEF after1
      <4>2. Follows(g, writeData(df, writeServed(m, data), data, q))
        BY <1>2, <1>4, <1>12, <1>14, WrittenFollows
      <4> HIDE DEF g
      <4>3. QED BY <3>1, <3>3, <4>1, <4>2
    <3>4. CASE c # s /\ c \in listed
      <4> DEFINE n == smap[c][d]
      <4>1. written[c] = n /\ n \in LocalMaps /\ UnitPoints(n) = UnitPoints(m)
        BY <1>2, <1>5, <1>18, <3>4
      <4>2. \A p \in r : n.local[p] # Absent
        <5>1. /\ \A p \in Points : (n.local[p] # Absent) <=> InMergedRange(n, p)
              /\ \A p \in Points : (m.local[p] # Absent) <=> InMergedRange(m, p)
          BY <1>2, <4>1 DEF LocalMaps, Good, LocalIsMerged
        <5>2. MappedPoints(n) = MappedPoints(m) BY <1>2, <4>1, LocalAccess
        <5>3. \A p : InMergedRange(n, p) = InMergedRange(m, p) BY <5>2 DEF InMergedRange
        <5>4. QED BY <1>12, <5>1, <5>3
      <4>3. Follows(m, n) BY <1>4
      <4> HIDE DEF n
      <4>4. accepts(n, r, q) BY <3>2, <4>1, <4>2, LocalAccess
      <4>5. Follows(g, writeData(df, n, data, q))
        BY <1>2, <1>12, <1>14, <4>1, <4>3, <4>4, WriteFollows
      <4> HIDE DEF g
      <4>6. QED BY <3>1, <3>4, <4>1, <4>5
    <3>5. CASE c # s /\ c \notin listed
      <4>1. final[c] = smap[c][d] /\ UnitPoints(smap[c][d]) = {} BY <1>5, <1>18, <3>1, <3>5
      <4>2. QED BY <4>1 DEF Follows
    <3>6. QED BY <3>3, <3>4, <3>5
  <2> HIDE DEF g, final
  <2>3. \A a \in Stored \cap UnitPoints(m) : g.global[a] = m.global[a] BY <1>16 DEF g
  <2>4. QED BY <1>11, <2>1, <2>2, <2>3
<1>22. QED BY <1>19, <1>20, <1>21

\* A connection changes nothing at the registered addresses.
LEMMA ConnectKeepsFollowing ==
  ASSUME LocalHyp, Local, NEW s \in Conns, NEW opened \in BOOLEAN, connectDevice(s, opened)
  PROVE  /\ ServersFollow'
         /\ \A d \in Devs : \A a \in Stored \cap UnitPoints(master[d]) :
              master'[d].global[a] = master[d].global[a]
<1> DEFINE servers == IF s \in listed THEN list ELSE Append(list, s)
           taken == [d \in deviceIds |-> takeOver(s, d, servers)]
<1>1. TypeOK /\ list \in Seq(Conns) /\ defs = DefaultDefinitions
  BY DEF Local, Before, TypeOK, MapsStay
<1>2. /\ servers \in Seq(Conns) /\ servers # <<>>
      /\ servers[1] \in listed \cup {s}
  <2>1. CASE s \in listed BY <1>1, <2>1 DEF listed
  <2>2. CASE s \notin listed
    <3>1. servers = Append(list, s) BY <2>2
    <3>2. servers \in Seq(Conns) /\ servers # <<>> BY <1>1, <3>1
    <3>3. list = <<>> => servers[1] = s BY <1>1, <3>1
    <3>4. list # <<>> => servers[1] = list[1] /\ 1 \in DOMAIN list BY <1>1, <3>1
    <3>5. QED BY <3>2, <3>3, <3>4 DEF listed
  <2>3. QED BY <2>1, <2>2
<1>3. deviceIds \subseteq Devs BY DEF deviceIds
<1>4. /\ master' = [d \in Devs |-> IF d \in deviceIds THEN taken[d].master ELSE master[d]]
      /\ smap' = [c \in Conns |-> [d \in Devs |->
           IF d \notin deviceIds THEN IF c = s THEN EmptyMap ELSE smap[c][d]
           ELSE IF c = s THEN flagged(taken[d].maps[c], defs)
           ELSE taken[d].maps[c]]]
  BY DEF connectDevice
<1> HIDE DEF servers
<1>5. ASSUME NEW d \in deviceIds
      PROVE  /\ \A a \in Stored \cap UnitPoints(master[d]) :
                  taken[d].master.global[a] = master[d].global[a]
             /\ \A c \in Conns : Follows(taken[d].master, taken[d].maps[c])
             /\ \A c \in Conns : taken[d].maps[c] \in Maps
  <2>1. taken[d] = takeOver(s, d, servers) OBVIOUS
  <2>2. \A c \in Conns : takeOver(s, d, servers).maps[c] \in Maps
    BY <1>1, <1>2, <1>3, TakeOverType
  <2> HIDE DEF taken
  <2>3. QED BY <1>2, <2>1, <2>2, TakeOverFollows
<1> HIDE DEF taken
<1>6. ServersFollow'
  <2> SUFFICES ASSUME NEW c \in Conns, NEW d \in Devs PROVE Follows(master'[d], smap'[c][d])
    BY DEF ServersFollow
  <2>1. CASE d \notin deviceIds
    <3>1. master'[d] = master[d] /\ smap'[c][d] \in {EmptyMap, smap[c][d]} BY <1>4, <2>1
    <3>2. QED BY <3>1, EmptyFollows DEF Local, ServersFollow
  <2>2. CASE d \in deviceIds
    <3> DEFINE n == taken[d].maps[c]
    <3>1. master'[d] = taken[d].master /\ smap'[c][d] \in {n, flagged(n, defs)}
      BY <1>4, <2>2
    <3>2. Follows(taken[d].master, n) /\ n \in Maps BY <1>5, <2>2
    <3> HIDE DEF n
    <3>3. flagged(n, defs).units = n.units /\ flagged(n, defs).local = n.local
      BY <3>2 DEF flagged, Maps
    <3>4. QED BY <3>1, <3>2, <3>3 DEF Follows, UnitPoints
  <2>3. QED BY <2>1, <2>2
<1>7. \A d \in Devs : \A a \in Stored \cap UnitPoints(master[d]) :
        master'[d].global[a] = master[d].global[a]
  BY <1>4, <1>5
<1>8. QED BY <1>6, <1>7

LEMMA ConnectionKeepsFollowing == LocalHyp /\ Local /\ Connection => ServersFollow'
<1> SUFFICES ASSUME LocalHyp, Local, Connection PROVE ServersFollow'
  OBVIOUS
<1>1. CASE UNCHANGED <<master, smap>> BY <1>1 DEF Local, ServersFollow
<1>2. ASSUME NEW s \in Conns, disconnectDevice(s) PROVE ServersFollow'
  <2>1. /\ UNCHANGED master
        /\ smap' = [smap EXCEPT ![s] = [d \in Devs |-> EmptyMap]]
    BY <1>2 DEF disconnectDevice
  <2>2. \A c \in Conns, d \in Devs : smap'[c][d] \in {smap[c][d], EmptyMap}
    BY <2>1 DEF Local, Before, TypeOK
  <2>3. QED BY <2>1, <2>2, EmptyFollows DEF Local, ServersFollow
<1>3. CASE clearAddressSpace
  <2>1. calls = <<>> /\ (\A i \in Ids : home[i] = NoDev) /\ UNCHANGED smap
    BY <1>3 DEF clearAddressSpace
  <2>2. deviceIds = {} BY <2>1, NobodyCounted DEF Local, Before
  <2>3. \A c \in Conns, d \in Devs : UnitPoints(smap[c][d]) = {}
    BY <2>2, ServerUnits DEF Local
  <2>4. QED BY <2>1, <2>3 DEF ServersFollow, Follows
<1>4. QED
  BY <1>1, <1>2, <1>3, ConnectKeepsFollowing
     DEF Connection, on_errorOccurred, closeConnections, core

-----------------------------------------------------------------------------
(* The copies agree.                                                       *)

\* Only unit ids with a master map have ranges registered.
LEMMA UnknownStep == TypeOK /\ Unknown /\ [Next]_vars => Unknown'
<1> SUFFICES ASSUME TypeOK, Unknown, [Next]_vars PROVE Unknown'
  OBVIOUS
<1>1. ASSUME known \subseteq known', \A d \in Devs \ known' : master'[d] = master[d]
      PROVE  Unknown'
  BY <1>1 DEF Unknown
<1>2. CASE UNCHANGED <<master, known>> BY <1>1, <1>2
<1>3. CASE Call
  <2> DEFINE c == Head(calls)
  <2>1. Run(c) BY <1>3 DEF Call
  <2> HIDE DEF c
  <2>2. CASE addDeviceId(c.dev) \/ removeDeviceId(c.dev)
    BY <1>2, <2>2 DEF addDeviceId, removeDeviceId, core
  <2>3. CASE addUnitMap(c.id, c.dev, c.range)
    BY <1>1, <2>3 DEF addUnitMap, reconfigureServers, TypeOK
  <2>4. CASE removeUnitMap(c.id, c.dev)
    BY <1>1, <2>4 DEF removeUnitMap, reconfigureServers, TypeOK
  <2>5. CASE clearUnmappedData(c.dev, c.range)
    BY <1>1, <2>5 DEF clearUnmappedData, TypeOK
  <2>6. QED BY <2>1, <2>2, <2>3, <2>4, <2>5 DEF Run
<1>4. CASE LocalWrite
  <2>1. PICK d, data : setDataLocally(d, data)
    BY <1>4 DEF LocalWrite, ViewWrite, ScriptWrite
  <2>2. QED BY <1>1, <2>1 DEF setDataLocally, TypeOK
<1>5. CASE Reconfigure
  <2>1. ASSUME NEW df, setModbusDefinitions(df) PROVE Unknown'
    BY <1>1, <2>1 DEF setModbusDefinitions
  <2>2. ASSUME NEW use, setUseGlobalUnitMap(use) PROVE Unknown'
    BY <1>1, <2>2 DEF setUseGlobalUnitMap, reconfigureServers
  <2>3. QED BY <1>5, <2>1, <2>2 DEF Reconfigure
<1>6. CASE Connection
  <2>1. ASSUME NEW s, NEW opened, connectDevice(s, opened) PROVE Unknown'
    <3>1. /\ known' = known \cup deviceIds
          /\ \A d \in Devs \ deviceIds : master'[d] = master[d]
      BY <2>1 DEF connectDevice
    <3>2. QED BY <1>1, <3>1
  <2>2. CASE clearAddressSpace BY <2>2 DEF clearAddressSpace, Unknown, EmptyMap
  <2>3. QED
    BY <1>2, <1>6, <2>1, <2>2
       DEF Connection, disconnectDevice, on_errorOccurred, closeConnections, core
<1>7. CASE ClientRequest
  <2>1. \A s, d, data : \A e \in Devs \ known :
          clientWritten(s, d, data).master[e] = master[e]
    BY DEF clientWritten, TypeOK
  <2>2. PICK s \in Conns, d \in Devs, r \in ReqRanges :
          \/ \E checks \in BOOLEAN : ClientRefused(s, d, r, checks)
          \/ \E checks \in BOOLEAN : ClientRead(s, d, r, checks)
          \/ \E data \in Data(r), checks \in BOOLEAN : ClientWrite(s, d, data, checks)
          \/ \E data \in Data(r), rr \in ReqRanges : ClientReadWrite(s, d, data, rr)
    BY <1>7 DEF ClientRequest
  <2>3. /\ known' = known
        /\ master' = master \/ \E data \in Data(r) : master' = clientWritten(s, d, data).master
    BY <2>2 DEF ClientRefused, ClientRead, ClientWrite, ClientReadWrite
  <2>4. \A e \in Devs \ known : master'[e] = master[e] BY <2>1, <2>3
  <2>5. QED BY <1>1, <2>3, <2>4
<1>8. CASE UserEvent
  BY <1>2, <1>8 DEF UserEvent, OpenForm, Define, ChangeFormDevice, CloseForm, AddRow, MoveRow,
     RemoveRow, CloseRow, Event, core
<1>9. QED
  BY <1>2, <1>3, <1>4, <1>5, <1>6, <1>7, <1>8 DEF Next, vars

LEMMA ConnectUnits ==
  ASSUME TypeOK, NEW s \in Conns, NEW opened, connectDevice(s, opened)
  PROVE  \A d \in Devs : master'[d].units = master[d].units
<1> DEFINE servers == IF s \in listed THEN list ELSE Append(list, s)
           taken == [d \in deviceIds |-> takeOver(s, d, servers)]
<1>1. servers \in Seq(Conns) /\ servers # <<>>
  <2>1. list \in Seq(Conns) BY DEF TypeOK
  <2>2. ASSUME s \in listed PROVE servers = list /\ list # <<>>
    BY <2>1, <2>2 DEF listed
  <2>3. s \notin listed => servers = Append(list, s) OBVIOUS
  <2> HIDE DEF servers
  <2>4. QED BY <2>1, <2>2, <2>3
<1>2. deviceIds \subseteq Devs BY DEF deviceIds
<1>3. master' = [d \in Devs |-> IF d \in deviceIds THEN taken[d].master ELSE master[d]]
  BY DEF connectDevice
<1> HIDE DEF servers
<1>4. \A d \in deviceIds : taken[d].master.units = master[d].units
  BY <1>1, <1>2, TakeOverUnits
<1> HIDE DEF taken
<1>5. QED BY <1>3, <1>4

\* A step that is no call of a view leaves the ranges of every master map as
\* they are, or empties all of them.
LEMMA OnlyCallsChangeRanges ==
  TypeOK /\ (LocalWrite \/ Reconfigure \/ Connection \/ ClientRequest) =>
    /\ UNCHANGED calls
    /\ \A d \in Devs : master'[d].units = master[d].units \/ master'[d] = EmptyMap
<1> DEFINE Same == /\ UNCHANGED calls
                   /\ \A d \in Devs : \/ master'[d].units = master[d].units
                                      \/ master'[d] = EmptyMap
<1>1. ASSUME TypeOK, NEW d \in Devs, NEW r \in SUBSET Points, NEW data \in [r -> Vals],
             UNCHANGED calls, master' \in {master, [master EXCEPT ![d] = setData(@, data)]}
      PROVE  Same
  <2>1. \A e \in Devs : [master EXCEPT ![d] = setData(@, data)][e].units = master[e].units
    BY <1>1, SetDataUnits
  <2>2. QED BY <1>1, <2>1
<1>2. \A r \in ReqRanges \cup ScriptRanges : r \in SUBSET Points BY RangesAssumption
<1>3. ASSUME TypeOK, LocalWrite PROVE Same
  <2>1. PICK d \in Devs, r \in ReqRanges \cup ScriptRanges :
          \E data \in Data(r) : setDataLocally(d, data)
    BY <1>3 DEF LocalWrite, ViewWrite, ScriptWrite, TypeOK
  <2>2. PICK data \in Data(r) : setDataLocally(d, data) BY <2>1
  <2>3. data \in [r -> Vals] BY DEF Data
  <2>4. QED BY <1>1, <1>2, <1>3, <2>2, <2>3 DEF setDataLocally
<1>4. ASSUME TypeOK, Reconfigure PROVE Same
  <2>1. \A m \in Maps : /\ \A df : flagged(m, df).units = m.units
                        /\ \A use : [m EXCEPT !.isGlobal = use].units = m.units
    BY DEF flagged, Maps
  <2>2. master \in [Devs -> Maps] BY <1>4 DEF TypeOK
  <2>3. ASSUME NEW df \in UserDefs, setModbusDefinitions(df) PROVE Same
    <3> DEFINE new == normalised(df)
    <3>1. /\ master' = [d \in Devs |-> IF d \in known THEN flagged(master[d], new)
                                       ELSE master[d]]
          /\ UNCHANGED calls
      BY <2>3 DEF setModbusDefinitions, normalised
    <3> HIDE DEF new
    <3>2. QED BY <2>1, <2>2, <3>1
  <2>4. ASSUME NEW use \in GlobalChoices, setUseGlobalUnitMap(use) PROVE Same
    BY <2>1, <2>2, <2>4 DEF setUseGlobalUnitMap, reconfigureServers
  <2>5. QED BY <1>4, <2>3, <2>4 DEF Reconfigure
<1>5. ASSUME TypeOK, Connection PROVE Same
  <2>1. ASSUME NEW s \in Conns, NEW opened, connectDevice(s, opened) PROVE Same
    BY <1>5, <2>1, ConnectUnits DEF connectDevice
  <2>2. CASE UNCHANGED <<master, calls>> BY <2>2
  <2>3. CASE clearAddressSpace BY <2>3 DEF clearAddressSpace
  <2>4. QED
    BY <1>5, <2>1, <2>2, <2>3
       DEF Connection, disconnectDevice, on_errorOccurred, closeConnections, core
<1>6. ASSUME TypeOK, ClientRequest PROVE Same
  <2>1. PICK s \in Conns, d \in Devs, r \in ReqRanges :
          \/ \E checks \in BOOLEAN : ClientRefused(s, d, r, checks)
          \/ \E checks \in BOOLEAN : ClientRead(s, d, r, checks)
          \/ \E data \in Data(r), checks \in BOOLEAN : ClientWrite(s, d, data, checks)
          \/ \E data \in Data(r), rr \in ReqRanges : ClientReadWrite(s, d, data, rr)
    BY <1>6 DEF ClientRequest
  <2>2. UNCHANGED calls
    BY <2>1 DEF ClientRefused, ClientRead, ClientWrite, ClientReadWrite
  <2>3. CASE UNCHANGED master BY <2>2, <2>3
  <2>4. ASSUME NEW data \in Data(r), master' = clientWritten(s, d, data).master PROVE Same
    <3>1. data \in [r -> Vals] BY DEF Data
    <3>2. master' \in {master, [master EXCEPT ![d] = setData(@, data)]}
      BY <2>4 DEF clientWritten
    <3>3. QED BY <1>1, <1>2, <1>6, <2>2, <3>1, <3>2
  <2>5. QED
    BY <2>1, <2>3, <2>4 DEF ClientRefused, ClientRead, ClientWrite, ClientReadWrite
<1>7. QED BY <1>3, <1>4, <1>5, <1>6

\* A view registers the ranges it was given, and moves with the one it has.
LEMMA RangesStep == TypeOK /\ RangesGiven /\ [Next]_vars => RangesGiven'
<1> SUFFICES ASSUME TypeOK, RangesGiven, [Next]_vars PROVE RangesGiven'
  OBVIOUS
<1> DEFINE Given == UnitRanges \cup {{}}
           Todo(todo) == \A k \in DOMAIN todo :
                           todo[k].op = "addUnitMap" => todo[k].range \in Given
<1>1. ASSUME Todo(calls'),
             \A d \in Devs : \A i \in Ids : master'[d].units[i] \in Given
      PROVE  RangesGiven'
  BY <1>1 DEF RangesGiven
<1>2. Todo(calls) /\ \A d \in Devs, i \in Ids : master[d].units[i] \in Given
  BY DEF RangesGiven
<1>3. \A i \in Ids : EmptyMap.units[i] \in Given BY DEF EmptyMap
<1>4. CASE UNCHANGED <<master, calls>> BY <1>1, <1>2, <1>4
<1>5. CASE LocalWrite \/ Reconfigure \/ Connection \/ ClientRequest
  <2>1. /\ UNCHANGED calls
        /\ \A d \in Devs : master'[d].units = master[d].units \/ master'[d] = EmptyMap
    BY <1>5, OnlyCallsChangeRanges
  <2>2. QED BY <1>1, <1>2, <1>3, <2>1
<1>6. CASE Call
  <2> DEFINE c == Head(calls)
  <2>1. /\ calls \in Seq(Calls) /\ calls # <<>> /\ calls' = Tail(calls)
        /\ c = calls[1] /\ 1 \in DOMAIN calls /\ c \in Calls /\ Run(c)
    BY <1>6 DEF Call, TypeOK
  <2>2. \A i \in DOMAIN calls' : i + 1 \in DOMAIN calls /\ calls'[i] = calls[i + 1]
    BY <2>1
  <2>3. Todo(calls') BY <1>2, <2>2
  <2>4. /\ c.dev \in Devs
        /\ c.op \in {"addUnitMap", "removeUnitMap"} => c.id \in Ids
        /\ c.op \in {"addUnitMap", "clearUnmappedData"} => c.range \in SUBSET Points
        /\ c.op = "addUnitMap" => c.range \in Given
    BY <1>2, <2>1, CallFields
  <2> HIDE DEF c, Todo
  <2>5. ASSUME NEW n, master' = [master EXCEPT ![c.dev] = n],
               \A i \in Ids : n.units[i] \in Given
        PROVE  RangesGiven'
    BY <1>1, <1>2, <2>3, <2>5 DEF TypeOK
  <2>6. ASSUME NEW m \in Maps, NEW r \in Given, c.id \in Ids,
               \A i \in Ids : m.units[i] \in Given
        PROVE  \A i \in Ids : addUnit(m, c.id, r).units[i] \in Given
    <3>1. addUnit(m, c.id, r).units = [m.units EXCEPT ![c.id] = r]
      BY <2>6, UpdateUnits
    <3>2. m.units \in [Ids -> SUBSET Points] BY DEF Maps
    <3>3. QED BY <2>6, <3>1, <3>2
  <2>7. CASE c.op = "addUnitMap" /\ addUnitMap(c.id, c.dev, c.range)
    <3> DEFINE m == IF c.dev \in known THEN master[c.dev] ELSE flagged(EmptyMap, defs)
    <3>1. m \in Maps BY <2>4, EmptyMapType, FlaggedType DEF TypeOK
    <3>2. \A i \in Ids : m.units[i] \in Given
      <4>1. flagged(EmptyMap, defs).units = EmptyMap.units BY DEF flagged, EmptyMap
      <4>2. QED BY <1>2, <1>3, <2>4, <4>1
    <3>3. master' = [master EXCEPT ![c.dev] = addUnit(m, c.id, c.range)]
      BY <2>7 DEF addUnitMap, reconfigureServers
    <3> HIDE DEF m
    <3>4. c.id \in Ids /\ c.range \in Given BY <2>4, <2>7
    <3>5. \A i \in Ids : addUnit(m, c.id, c.range).units[i] \in Given
      BY <2>6, <3>1, <3>2, <3>4
    <3> DEFINE n == addUnit(m, c.id, c.range)
    <3>6. master' = [master EXCEPT ![c.dev] = n] /\ \A i \in Ids : n.units[i] \in Given
      BY <3>3, <3>5
    <3> HIDE DEF n, Given
    <3>7. QED BY <2>5, <3>6
  <2>8. CASE c.op = "removeUnitMap" /\ removeUnitMap(c.id, c.dev)
    <3>1. removeUnit(master[c.dev], c.id) = addUnit(master[c.dev], c.id, {})
      BY DEF removeUnit, addUnit
    <3>2. master' = [master EXCEPT ![c.dev] = addUnit(master[c.dev], c.id, {})]
      BY <2>8, <3>1 DEF removeUnitMap, reconfigureServers
    <3>3. master[c.dev] \in Maps /\ {} \in Given BY <2>4 DEF TypeOK
    <3>4. c.id \in Ids /\ \A i \in Ids : master[c.dev].units[i] \in Given
      BY <1>2, <2>4, <2>8
    <3>5. \A i \in Ids : addUnit(master[c.dev], c.id, {}).units[i] \in Given
      BY <2>6, <3>3, <3>4
    <3> DEFINE n == addUnit(master[c.dev], c.id, {})
    <3>6. master' = [master EXCEPT ![c.dev] = n] /\ \A i \in Ids : n.units[i] \in Given
      BY <3>2, <3>5
    <3> HIDE DEF n, Given
    <3>7. QED BY <2>5, <3>6
  <2>9. CASE UNCHANGED master BY <1>1, <1>2, <2>3, <2>9
  <2>10. CASE c.op = "clearUnmappedData" /\ clearUnmappedData(c.dev, c.range)
    <3> DEFINE n == clearUnmapped(master[c.dev], c.range)
    <3>1. n.units = master[c.dev].units
      BY <2>4, <2>10, ClearKeepsShape DEF TypeOK, SameShape
    <3>2. master' = master \/ master' = [master EXCEPT ![c.dev] = n]
      BY <2>10 DEF clearUnmappedData
    <3>3. \A i \in Ids : n.units[i] \in Given BY <1>2, <2>4, <3>1
    <3> HIDE DEF n, Given
    <3>4. QED BY <2>5, <2>9, <3>2, <3>3
  <2>11. QED
    BY <2>1, <2>7, <2>8, <2>9, <2>10 DEF Run, addDeviceId, removeDeviceId, core
<1>7. CASE UserEvent
  <2>1. UNCHANGED master
    BY <1>7 DEF UserEvent, OpenForm, Define, ChangeFormDevice, CloseForm, AddRow, MoveRow,
       RemoveRow, CloseRow, Event, core
  <2>2. \A id \in Ids : home[id] # NoDev => rangeOf(id) \in Given
    BY <1>2 DEF TypeOK, rangeOf
  <2>3. \A d, r : /\ CallAddDevice(d).op = "addDeviceId"
                  /\ CallRemoveDevice(d).op = "removeDeviceId"
                  /\ CallClear(d, r).op = "clearUnmappedData"
                  /\ \A id : /\ CallRemoveUnit(id, d).op = "removeUnitMap"
                             /\ CallAddUnit(id, d, r).range = r
    BY DEF CallAddDevice, CallRemoveDevice, CallClear, CallRemoveUnit, CallAddUnit
  <2>4. PICK id \in Ids :
          \/ OpenForm(id)
          \/ \E r \in UnitRanges : Define(id, r)
          \/ \E d \in Devs : ChangeFormDevice(id, d)
          \/ CloseForm(id)
          \/ \E d \in Devs, r \in UnitRanges : AddRow(id, d, r)
          \/ \E d \in Devs, r \in UnitRanges : MoveRow(id, d, r)
          \/ RemoveRow(id)
          \/ CloseRow(id)
    BY <1>7 DEF UserEvent
  <2>5. CASE OpenForm(id) \/ CloseForm(id) \/ RemoveRow(id) \/ CloseRow(id)
    <3>1. Todo(calls')
      BY <2>3, <2>5 DEF OpenForm, CloseForm, RemoveRow, CloseRow, Event
    <3>2. QED BY <1>1, <1>2, <2>1, <3>1
  <2>6. CASE \E d \in Devs : ChangeFormDevice(id, d)
    <3>1. Todo(calls') BY <2>2, <2>3, <2>6 DEF ChangeFormDevice, registered, Event
    <3>2. QED BY <1>1, <1>2, <2>1, <3>1
  <2>7. CASE \E r \in UnitRanges : Define(id, r)
    <3>1. Todo(calls') BY <2>3, <2>7 DEF Define, Event
    <3>2. QED BY <1>1, <1>2, <2>1, <3>1
  <2>8. CASE \E d \in Devs, r \in UnitRanges : AddRow(id, d, r)
    <3>1. Todo(calls') BY <2>3, <2>8 DEF AddRow, Event
    <3>2. QED BY <1>1, <1>2, <2>1, <3>1
  <2>9. CASE \E d \in Devs, r \in UnitRanges : MoveRow(id, d, r)
    <3>1. Todo(calls') BY <2>3, <2>9 DEF MoveRow, Event
    <3>2. QED BY <1>1, <1>2, <2>1, <3>1
  <2>10. QED BY <2>4, <2>5, <2>6, <2>7, <2>8, <2>9
<1>8. QED BY <1>4, <1>5, <1>6, <1>7 DEF Next, vars

LEMMA LocalStart == LocalHyp /\ Init => Local
<1> SUFFICES ASSUME LocalHyp, Init PROVE Local
  OBVIOUS
<1>1. MapsStay(LocalMaps, {DefaultDefinitions}, Addr)
  BY LocalMapsAreClosed, InitStays DEF LocalHyp
<1>2. Unknown /\ ServersFollow
  BY EmptyFollows DEF Init, Unknown, ServersFollow, EmptyMap
<1>3. TypeOK BY InitType
<1>4. RangesGiven
  <2>1. \A i \in Ids : EmptyMap.units[i] = {} BY DEF EmptyMap
  <2>2. master = [d \in Devs |-> EmptyMap] /\ calls = <<>> BY DEF Init
  <2>3. QED BY <2>1, <2>2 DEF RangesGiven
<1>5. QED BY <1>1, <1>2, <1>3, <1>4, RegistryStart, AgreeingStart DEF Local, Before

LEMMA LocalStep == LocalHyp /\ Local /\ [Next]_vars => Local'
<1> SUFFICES ASSUME LocalHyp, Local, [Next]_vars PROVE Local'
  OBVIOUS
<1>1. MapsStay(LocalMaps, {DefaultDefinitions}, Addr)'
  BY LocalMapsAreClosed, StepStays DEF LocalHyp, Local, Before
<1>2. AlwaysWide BY DEF LocalHyp, LocalOnly, AlwaysWide, DefaultDefinitions
<1>3. MastersAgree' BY <1>2, AgreeingStep DEF Local, Before
<1>4. TypeOK' /\ Registry' /\ Unknown' /\ RangesGiven'
  BY TypeStep, RegistryStep, UnknownStep, RangesStep DEF Local, Before
<1>7. ServersFollow'
  <2>1. CASE UNCHANGED <<master, smap>> BY <2>1 DEF Local, ServersFollow
  <2>2. CASE UserEvent
    BY <2>1, <2>2 DEF UserEvent, OpenForm, Define, ChangeFormDevice, CloseForm, AddRow,
       MoveRow, RemoveRow, CloseRow, Event, core
  <2>3. CASE UNCHANGED vars BY <2>1, <2>3 DEF vars
  <2>4. QED
    BY <1>3, <2>2, <2>3, CallKeepsFollowing, LocalWriteKeepsFollowing,
       ReconfigureKeepsFollowing, ConnectionKeepsFollowing, ClientRequestKeepsFollowing
       DEF Next
<1>8. Before' BY <1>1, <1>3, <1>4 DEF Before
<1>9. QED BY <1>7, <1>8 DEF Local

LEMMA AlwaysLocal == LocalHyp => (Spec => []Local)
<1> SUFFICES ASSUME LocalHyp PROVE Spec => []Local
  OBVIOUS
<1>1. Init => Local BY LocalStart
<1>2. Local /\ [Next]_vars => Local' BY LocalStep
<1>3. QED BY <1>1, <1>2, PTL DEF Spec

\* What any server would answer at a registered address is what the views
\* show for it, for any number of views, connections, unit ids and registers:
\* every write reaches every server, and a new connection takes over nothing
\* else (on_dataWritten, setData, reconfigureServers, connectDevice).
\* LocalHyp: no global map, nothing added on request, and no script that writes
\* across the end of a view's range - a server refuses a write it holds in part
\* and the master map keeps it.
THEOREM CopiesFollowWrites == LocalHyp => (Spec => []ServersAgree)
<1> SUFFICES ASSUME LocalHyp PROVE Spec => []ServersAgree
  OBVIOUS
<1>1. Local => ServersAgree
  <2> SUFFICES ASSUME Local, NEW s \in Conns, NEW d \in saddr[s],
                      NEW a \in Stored \cap UnitPoints(smap[s][d])
               PROVE  Served(smap[s][d], a) \in {Absent, master[d].global[a]}
    BY DEF ServersAgree
  <2>1. d \in Devs BY DEF Local, Before, TypeOK
  <2>2. smap[s][d] \in LocalMaps BY <2>1, ServerUnits DEF Local
  <2>3. Served(smap[s][d], a) = smap[s][d].local[a] BY <2>2, LocalAccess
  <2>4. QED BY <2>1, <2>3 DEF Local, ServersFollow, Follows
<1>2. Spec => []Local BY AlwaysLocal
<1>3. QED BY <1>1, <1>2, PTL

-----------------------------------------------------------------------------
(* The register store.                                                     *)

\* The content of the store at a registered address.
LEMMA StoreAt ==
  ASSUME NEW d \in Devs, NEW a \in Stored
  PROVE  storeBar[d][a] = IF a \in UnitPoints(master[d]) THEN master[d].global[a] ELSE Absent
BY DEF storeBar

LEMMA SameStore ==
  ASSUME \A d \in Devs : UnitPoints(master'[d]) = UnitPoints(master[d]),
         \A d \in Devs : \A a \in Stored \cap UnitPoints(master[d]) :
           master'[d].global[a] = master[d].global[a]
  PROVE  storeBar' = storeBar
BY DEF storeBar

\* A write at unit id d is a write of the store.
LEMMA WriteOfStore ==
  ASSUME TypeOK, TypeOK', NEW d \in Devs,
         \A e \in Devs : UnitPoints(master'[e]) = UnitPoints(master[e]),
         \A e \in Devs \ {d} : master'[e] = master[e],
         \/ UNCHANGED answer
         \/ /\ answer'.dev = d
            /\ \A a \in Stored : answer'.values[a] \in {Absent, storeBar'[d][a]}
  PROVE  Store!Next
<1>1. \A e \in Devs \ {d} : storeBar'[e] = storeBar[e]
  BY DEF storeBar
<1>2. \A a \in Stored : (storeBar[d][a] = Absent) <=> (storeBar'[d][a] = Absent)
  <2>1. \A a \in Stored : /\ storeBar[d][a] = IF a \in UnitPoints(master[d])
                                               THEN master[d].global[a] ELSE Absent
                          /\ storeBar'[d][a] = IF a \in UnitPoints(master'[d])
                                                THEN master'[d].global[a] ELSE Absent
    BY DEF storeBar
  <2>2. \A a \in Stored : master[d].global[a] \in Vals /\ master'[d].global[a] \in Vals
    BY DEF TypeOK, Maps
  <2>3. QED BY <2>1, <2>2, AbsentAssumption
<1>3. Store!Write(d) BY <1>1, <1>2 DEF Store!Write, Store!Carries
<1>4. QED BY <1>3 DEF Store!Next

StoreStep == Store!Next \/ UNCHANGED <<storeBar, answer>>

\* Ranges come and go: a register that stays registered keeps its value.
LEMMA RemapOfStore ==
  ASSUME UNCHANGED answer,
         \A d \in Devs : \A a \in Stored :
           a \in UnitPoints(master[d]) /\ a \in UnitPoints(master'[d])
             => master'[d].global[a] = master[d].global[a]
  PROVE  Store!Next
<1>1. \A d \in Devs, a \in Stored :
        /\ storeBar[d][a] = IF a \in UnitPoints(master[d]) THEN master[d].global[a] ELSE Absent
        /\ storeBar'[d][a] = IF a \in UnitPoints(master'[d]) THEN master'[d].global[a]
                             ELSE Absent
  BY DEF storeBar
<1>2. Store!Remap BY <1>1 DEF Store!Remap
<1>3. QED BY <1>2 DEF Store!Next

LEMMA CallOfStore == Local /\ Call => StoreStep
<1> SUFFICES ASSUME Local, Call PROVE StoreStep
  OBVIOUS
<1> DEFINE c == Head(calls)
<1>1. TypeOK /\ c \in Calls /\ Run(c) /\ UNCHANGED answer
  BY DEF Call, Local, Before, TypeOK
<1>2. /\ c.dev \in Devs
      /\ c.op \in {"addUnitMap", "removeUnitMap"} => c.id \in Ids
      /\ c.op \in {"addUnitMap", "clearUnmappedData"} => c.range \in SUBSET Points
  BY <1>1, CallFields
<1> HIDE DEF c
<1>3. CASE UNCHANGED master BY <1>1, <1>3 DEF StoreStep, storeBar
<1>4. ASSUME NEW n, master' = [master EXCEPT ![c.dev] = n],
             \A a \in Stored \cap UnitPoints(master[c.dev]) : a \in UnitPoints(n)
                => n.global[a] = master[c.dev].global[a]
      PROVE  StoreStep
  <2>1. \A d \in Devs : master'[d] = IF d = c.dev THEN n ELSE master[d]
    BY <1>1, <1>4 DEF TypeOK
  <2>2. QED BY <1>1, <1>4, <2>1, RemapOfStore DEF StoreStep
<1>5. CASE c.op = "addUnitMap" /\ addUnitMap(c.id, c.dev, c.range)
  <2> DEFINE m == IF c.dev \in known THEN master[c.dev] ELSE flagged(EmptyMap, defs)
             n == addUnit(m, c.id, c.range)
  <2>1. m \in Maps
    BY <1>1, <1>2, EmptyMapType, FlaggedType DEF TypeOK
  <2>2. n.global = m.global
    <3> HIDE DEF m
    <3>1. QED BY <2>1 DEF addUnit, updateDataUnitMap, Maps
  <2>3. UnitPoints(master[c.dev]) # {} => m = master[c.dev]
    BY <1>2 DEF Local, Before, Unknown, UnitPoints
  <2>4. master' = [master EXCEPT ![c.dev] = n]
    BY <1>5 DEF addUnitMap, reconfigureServers
  <2> HIDE DEF m, n
  <2>5. QED BY <1>4, <2>2, <2>3, <2>4
<1>6. CASE c.op = "removeUnitMap" /\ removeUnitMap(c.id, c.dev)
  <2> DEFINE n == removeUnit(master[c.dev], c.id)
  <2>1. n.global = master[c.dev].global
    BY <1>1, <1>2 DEF TypeOK, removeUnit, updateDataUnitMap, Maps
  <2>2. master' = [master EXCEPT ![c.dev] = n]
    BY <1>6 DEF removeUnitMap, reconfigureServers
  <2> HIDE DEF n
  <2>3. QED BY <1>4, <2>1, <2>2
<1>7. CASE c.op = "clearUnmappedData" /\ clearUnmappedData(c.dev, c.range)
  <2> DEFINE n == clearUnmapped(master[c.dev], c.range)
  <2>1. master' \in {master, [master EXCEPT ![c.dev] = n]} BY <1>7 DEF clearUnmappedData
  <2>2. master[c.dev] \in Maps BY <1>1, <1>2 DEF TypeOK
  <2>3. \A a \in Stored \cap UnitPoints(master[c.dev]) : n.global[a] = master[c.dev].global[a]
    BY <2>2 DEF clearUnmapped, MappedPoints, Maps
  <2> HIDE DEF n
  <2>4. QED BY <1>3, <1>4, <2>1, <2>3
<1>8. QED
  BY <1>1, <1>3, <1>5, <1>6, <1>7 DEF Run, addDeviceId, removeDeviceId, core

LEMMA LocalWriteOfStore == TypeOK /\ TypeOK' /\ LocalWrite => StoreStep
<1>1. ASSUME TypeOK, TypeOK', NEW d \in Devs, NEW r \in SUBSET Points, NEW data \in [r -> Vals],
             setDataLocally(d, data)
      PROVE  StoreStep
  <2>1. master' = [master EXCEPT ![d] = setData(@, data)] /\ UNCHANGED answer
    BY <1>1 DEF setDataLocally
  <2>2. \A e \in Devs : master'[e].units = master[e].units BY <1>1, <2>1, SetDataUnits
  <2>3. \A e \in Devs : UnitPoints(master'[e]) = UnitPoints(master[e]) BY <2>2 DEF UnitPoints
  <2>4. \A e \in Devs \ {d} : master'[e] = master[e] BY <1>1, <2>1 DEF TypeOK
  <2>5. QED BY <1>1, <2>1, <2>3, <2>4, WriteOfStore DEF StoreStep
<1>2. ASSUME TypeOK, TypeOK', NEW id \in Ids, NEW r \in ReqRanges, NEW data \in Data(r),
             ViewWrite(id, data)
      PROVE  StoreStep
  <2>1. home[id] \in Devs BY <1>2 DEF TypeOK, ViewWrite
  <2>2. QED BY <1>1, <1>2, <2>1, RangesAssumption DEF ViewWrite, Data
<1>3. ASSUME TypeOK, TypeOK', NEW d \in Devs, NEW r \in ScriptRanges, NEW data \in Data(r),
             ScriptWrite(d, data)
      PROVE  StoreStep
  BY <1>1, <1>3, RangesAssumption DEF ScriptWrite, Data
<1>4. QED BY <1>2, <1>3 DEF LocalWrite

LEMMA ReconfigureOfStore == TypeOK /\ Reconfigure => StoreStep
<1>1. ASSUME TypeOK, UNCHANGED answer,
             \A d \in Devs : /\ master'[d].units = master[d].units
                             /\ master'[d].global = master[d].global
      PROVE  StoreStep
  <2>1. \A d \in Devs : UnitPoints(master'[d]) = UnitPoints(master[d]) BY <1>1 DEF UnitPoints
  <2>2. QED BY <1>1, <2>1, SameStore DEF StoreStep
<1>2. ASSUME TypeOK, NEW df \in UserDefs, setModbusDefinitions(df) PROVE StoreStep
  <2> DEFINE new == normalised(df)
  <2>1. /\ master' = [d \in Devs |-> IF d \in known THEN flagged(master[d], new)
                                     ELSE master[d]]
        /\ UNCHANGED answer
    BY <1>2 DEF setModbusDefinitions, normalised
  <2>2. \A m \in Maps : flagged(m, new).units = m.units /\ flagged(m, new).global = m.global
    BY DEF flagged, Maps
  <2> HIDE DEF new
  <2>3. QED BY <1>1, <1>2, <2>1, <2>2 DEF TypeOK
<1>3. ASSUME TypeOK, NEW use \in GlobalChoices, setUseGlobalUnitMap(use) PROVE StoreStep
  <2>1. /\ master' = [d \in Devs |-> IF d \in known THEN [master[d] EXCEPT !.isGlobal = use]
                                     ELSE master[d]]
        /\ UNCHANGED answer
    BY <1>3 DEF setUseGlobalUnitMap, reconfigureServers
  <2>2. \A m \in Maps : /\ [m EXCEPT !.isGlobal = use].units = m.units
                        /\ [m EXCEPT !.isGlobal = use].global = m.global
    BY DEF Maps
  <2>3. QED BY <1>1, <1>3, <2>1, <2>2 DEF TypeOK
<1>4. QED BY <1>2, <1>3 DEF Reconfigure

LEMMA ConnectionOfStore == LocalHyp /\ Local /\ Connection => StoreStep
<1> SUFFICES ASSUME LocalHyp, Local, Connection PROVE StoreStep
  OBVIOUS
<1>1. CASE UNCHANGED <<master, answer>> BY <1>1 DEF StoreStep, storeBar
<1>2. ASSUME NEW s \in Conns, NEW opened \in BOOLEAN, connectDevice(s, opened) PROVE StoreStep
  <2>1. \A d \in Devs : UnitPoints(master'[d]) = UnitPoints(master[d])
    BY <1>2, ConnectUnits DEF Local, Before, UnitPoints
  <2>2. \A d \in Devs : \A a \in Stored \cap UnitPoints(master[d]) :
          master'[d].global[a] = master[d].global[a]
    BY <1>2, ConnectKeepsFollowing
  <2>3. UNCHANGED answer BY <1>2 DEF connectDevice
  <2>4. QED BY <2>1, <2>2, <2>3, SameStore DEF StoreStep
<1>3. CASE clearAddressSpace
  <2>1. master' = [d \in Devs |-> EmptyMap] /\ UNCHANGED answer
    BY <1>3 DEF clearAddressSpace
  <2>2. \A d \in Devs : UnitPoints(master'[d]) = {} BY <2>1 DEF UnitPoints, EmptyMap
  <2>3. QED BY <2>1, <2>2, RemapOfStore DEF StoreStep
<1>4. QED
  BY <1>1, <1>2, <1>3
     DEF Connection, disconnectDevice, on_errorOccurred, closeConnections, core

-----------------------------------------------------------------------------
(* Replies.                                                                *)

\* A reply carries what the store has, when the copy it was read from follows
\* the master map.
LEMMA RepliedFromStore ==
  ASSUME NEW m \in LocalMaps, NEW n \in LocalMaps, Follows(m, n),
         UnitPoints(n) \subseteq UnitPoints(m), NEW r, r \subseteq UnitPoints(n), NEW d,
         NEW a \in Stored
  PROVE  /\ replied(d, r, n).dev = d
         /\ replied(d, r, n).values[a] \in
              {Absent, IF a \in UnitPoints(m) THEN m.global[a] ELSE Absent}
<1>1. Served(n, a) = n.local[a] BY LocalAccess
<1>2. QED BY <1>1 DEF replied, Follows

LEMMA ReadOfStore ==
  ASSUME NEW d \in Devs, UNCHANGED master, answer'.dev = d,
         \A a \in Stored : answer'.values[a] \in {Absent, storeBar[d][a]}
  PROVE  Store!Next
<1>1. storeBar' = storeBar BY DEF storeBar
<1>2. Store!Read(d) BY <1>1 DEF Store!Read, Store!Carries
<1>3. QED BY <1>2 DEF Store!Next

\* An accepted write changes the master map of its device by setData.
LEMMA ClientWritesMaster ==
  ASSUME LocalHyp, Local, NEW s \in Conns, NEW d \in Devs, NEW r \in ReqRanges,
         NEW data \in Data(r), accepts(fetched(s, d, r), r, TRUE)
  PROVE  \A e \in Devs : clientWritten(s, d, data).master[e]
                           = IF e = d THEN setData(master[d], data) ELSE master[e]
<1>1. fetched(s, d, r) = smap[s][d] BY Fetched DEF Local
<1>2. s \in listed /\ d \in known
  <2>1. d \in saddr[s] BY ClientWrites
  <2>2. r \subseteq UnitPoints(smap[s][d]) BY ClientWrites
  <2>3. r # {} BY RangesAssumption
  <2>4. QED BY <2>1, <2>2, <2>3, ServerUnits DEF Local
<1>3. clientWritten(s, d, data).master = [master EXCEPT ![d] = setData(@, data)]
  BY <1>1, <1>2 DEF clientWritten, Data
<1>4. QED BY <1>3 DEF Local, Before, TypeOK

LEMMA ClientRequestOfStore == LocalHyp /\ Local /\ Local' /\ ClientRequest => StoreStep
<1> SUFFICES ASSUME LocalHyp, Local, Local', ClientRequest PROVE StoreStep
  OBVIOUS
<1>1. PICK s \in Conns, d \in Devs, r \in ReqRanges :
          \/ \E checks \in BOOLEAN : ClientRefused(s, d, r, checks)
          \/ \E checks \in BOOLEAN : ClientRead(s, d, r, checks)
          \/ \E data \in Data(r), checks \in BOOLEAN : ClientWrite(s, d, data, checks)
          \/ \E data \in Data(r), rr \in ReqRanges : ClientReadWrite(s, d, data, rr)
  BY DEF ClientRequest
<1>2. fetched(s, d, r) = smap[s][d] BY Fetched DEF Local
<1>3. smap[s][d] \in LocalMaps /\ master[d] \in LocalMaps BY ServerUnits DEF Local
<1>4. \A a \in Stored : NoValues[a] = Absent BY DEF NoValues
<1>5. TypeOK /\ TypeOK' BY DEF Local, Before
<1>6. CASE \E checks \in BOOLEAN : ClientRefused(s, d, r, checks)
  <2>1. UNCHANGED master /\ answer' = [dev |-> d, values |-> NoValues]
    BY <1>6 DEF ClientRefused
  <2>2. QED BY <1>4, <2>1, ReadOfStore DEF StoreStep
<1>7. CASE \E checks \in BOOLEAN : ClientRead(s, d, r, checks)
  <2>1. /\ UNCHANGED master /\ answer' = replied(d, r, smap[s][d])
        /\ accepts(smap[s][d], r, TRUE)
    BY <1>2, <1>7 DEF ClientRead, refuses
  <2>2. r \subseteq UnitPoints(smap[s][d]) BY <1>3, <2>1, LocalAccess
  <2>3. UnitPoints(smap[s][d]) \subseteq UnitPoints(master[d]) BY ServerUnits DEF Local
  <2>4. Follows(master[d], smap[s][d]) BY DEF Local, ServersFollow
  <2>5. \A a \in Stored : /\ replied(d, r, smap[s][d]).dev = d
                          /\ replied(d, r, smap[s][d]).values[a] \in {Absent, storeBar[d][a]}
    BY <1>3, <2>2, <2>3, <2>4, RepliedFromStore, StoreAt
  <2>6. 0 \in Stored BY WidthAssumption DEF Stored
  <2>7. QED BY <2>1, <2>5, <2>6, ReadOfStore DEF StoreStep
<1>8. ASSUME NEW data \in Data(r), accepts(fetched(s, d, r), r, TRUE),
             master' = clientWritten(s, d, data).master,
             answer'.dev = d,
             \A a \in Stored : answer'.values[a] \in {Absent, storeBar'[d][a]}
      PROVE  StoreStep
  <2>0. accepts(fetched(s, d, r), r, TRUE) BY <1>8
  <2>1. master' = [master EXCEPT ![d] = setData(@, data)]
    <3>1. \A e \in Devs : clientWritten(s, d, data).master[e]
                             = IF e = d THEN setData(master[d], data) ELSE master[e]
      BY <2>0, ClientWritesMaster
    <3>2. \A e \in Devs : master'[e] = IF e = d THEN setData(master[d], data) ELSE master[e]
      BY <1>8, <3>1
    <3>3. QED BY <1>5, <3>2 DEF TypeOK
  <2>2. r \in SUBSET Points /\ data \in [r -> Vals] BY RangesAssumption DEF Data
  <2>3. \A e \in Devs : master'[e].units = master[e].units
    BY <1>5, <2>1, <2>2, SetDataUnits
  <2>4. \A e \in Devs : UnitPoints(master'[e]) = UnitPoints(master[e]) BY <2>3 DEF UnitPoints
  <2>5. \A e \in Devs \ {d} : master'[e] = master[e] BY <1>5, <2>1 DEF TypeOK
  <2>6. QED BY <1>5, <1>8, <2>4, <2>5, WriteOfStore DEF StoreStep
<1>9. ASSUME NEW data \in Data(r), NEW checks \in BOOLEAN, ClientWrite(s, d, data, checks)
      PROVE  StoreStep
  <2>1. DOMAIN data = r BY DEF Data
  <2>2. /\ accepts(fetched(s, d, r), r, TRUE) /\ master' = clientWritten(s, d, data).master
        /\ answer' = [dev |-> d, values |-> NoValues]
    BY <1>9, <2>1 DEF ClientWrite, refuses
  <2>3. QED BY <1>4, <1>8, <2>2
<1>10. ASSUME NEW data \in Data(r), NEW rr \in ReqRanges, ClientReadWrite(s, d, data, rr)
       PROVE  StoreStep
  <2> DEFINE w == clientWritten(s, d, data)
             e == ensureAutoAddRange(defs, w.maps[s][d], rr)
  <2>1. DOMAIN data = r BY DEF Data
  <2>2. /\ accepts(fetched(s, d, r), r, TRUE) /\ master' = w.master
        /\ smap' = [w.maps EXCEPT ![s][d] = e]
        /\ answer' = IF accepts(e, rr, TRUE) THEN replied(d, rr, e)
                     ELSE [dev |-> d, values |-> NoValues]
    BY <1>10, <2>1 DEF ClientReadWrite, refuses
  <2>3. w.maps \in [Conns -> [Devs -> Maps]]
    BY ClientWrittenType, RangesAssumption DEF Data, Local, Before
  <2> HIDE DEF w
  <2>4. smap'[s][d] = e
    <3> HIDE DEF e
    <3>1. QED BY <2>2, <2>3
  <2> HIDE DEF e
  <2>5. /\ smap'[s][d] \in LocalMaps /\ master'[d] \in LocalMaps
        /\ Follows(master'[d], smap'[s][d])
    BY DEF Local, Before, MapsStay, ServersFollow
  <2>6. UnitPoints(smap'[s][d]) \subseteq UnitPoints(master'[d])
    <3>1. smap'[s][d].units = IF d \in saddr'[s] THEN master'[d].units ELSE [i \in Ids |-> {}]
      BY DEF Local, Before, Registry, UnitsFollow
    <3>2. QED BY <3>1 DEF UnitPoints
  <2>7. accepts(e, rr, TRUE) => rr \subseteq UnitPoints(e) BY <2>4, <2>5, LocalAccess
  <2>8. \A a \in Stored : storeBar'[d][a]
          = IF a \in UnitPoints(master'[d]) THEN master'[d].global[a] ELSE Absent
    BY DEF storeBar
  <2>9. accepts(e, rr, TRUE) => \A a \in Stored :
          /\ replied(d, rr, e).dev = d
          /\ replied(d, rr, e).values[a] \in {Absent, storeBar'[d][a]}
    BY <2>4, <2>5, <2>6, <2>7, <2>8, RepliedFromStore
  <2>10. 0 \in Stored BY WidthAssumption DEF Stored
  <2>11. answer'.dev = d /\ \A a \in Stored : answer'.values[a] \in {Absent, storeBar'[d][a]}
    BY <1>4, <2>2, <2>9, <2>10
  <2>12. QED BY <1>8, <2>2, <2>11 DEF w
<1>11. QED BY <1>1, <1>6, <1>7, <1>9, <1>10

\* The multi-server is a register store: whatever connection a client uses,
\* whatever views open, move and close, a reply carries the current values of
\* the registers, a write changes registers of its own unit id only, and a
\* register that stays registered keeps its value - the servers' copies of the
\* maps cannot be told from one shared memory.
THEOREM ImplementsRegisterStore == LocalHyp => (Spec => IsRegisterStore)
<1> SUFFICES ASSUME LocalHyp PROVE Spec => IsRegisterStore
  OBVIOUS
<1>1. Init => Store!Init
  <2> SUFFICES ASSUME Init PROVE Store!Init OBVIOUS
  <2>1. \A d \in Devs : UnitPoints(master[d]) = {} BY DEF Init, UnitPoints, EmptyMap
  <2>2. storeBar = [d \in Devs |-> [a \in Stored |-> Absent]] BY <2>1 DEF storeBar
  <2>3. answer = [dev |-> NoDev, values |-> [a \in Stored |-> Absent]]
    BY DEF Init, NoAnswer, NoValues
  <2>4. QED BY <2>2, <2>3 DEF Store!Init, Store!Nothing
<1>2. Local /\ Local' /\ [Next]_vars => [Store!Next]_<<storeBar, answer>>
  <2> SUFFICES ASSUME Local, Local', [Next]_vars PROVE StoreStep
    BY DEF StoreStep
  <2>1. CASE UNCHANGED <<master, answer>> BY <2>1 DEF StoreStep, storeBar
  <2>2. CASE UserEvent
    BY <2>1, <2>2 DEF UserEvent, OpenForm, Define, ChangeFormDevice, CloseForm, AddRow,
       MoveRow, RemoveRow, CloseRow, Event, core
  <2>3. CASE UNCHANGED vars BY <2>1, <2>3 DEF vars
  <2>4. TypeOK /\ TypeOK' BY DEF Local, Before
  <2>5. QED
    BY <2>2, <2>3, <2>4, CallOfStore, LocalWriteOfStore, ReconfigureOfStore,
       ConnectionOfStore, ClientRequestOfStore DEF Next
<1>3. Spec => []Local BY AlwaysLocal
<1>4. Store!Spec <=> Store!Init /\ [][Store!Next]_<<storeBar, answer>>
  BY DEF Store!Spec, Store!vars
<1>5. QED BY <1>1, <1>2, <1>3, <1>4, PTL DEF Spec, IsRegisterStore

=============================================================================
