------------------------------- MODULE UnitMap -------------------------------
(***************************************************************************)
(* The register map of one Modbus device: class ModbusDataUnitMap, for one *)
(* register type (the four types never meet in the code: every operation   *)
(* takes the type as a key and works on that entry alone).                 *)
(*                                                                         *)
(* A map holds the ranges registered by views (_dataUnits, by id), the     *)
(* ranges added on request (_autoRanges), a local copy of the values over  *)
(* the merged range of all of them (_modbusDataUnitMap) and a copy of the  *)
(* values over the whole address space (_modbusDataUnitGlobalMap).  Which  *)
(* copy is served depends on _isGlobal.                                    *)
(*                                                                         *)
(* Addresses are 16-bit in the code: Width stands for 65536.  The global   *)
(* copy has one entry fewer (65535), so the last address has no entry; in  *)
(* the 5-digit address space only its first 9999 entries (Narrow) count.   *)
(***************************************************************************)
EXTENDS Integers

CONSTANTS
  Width,   \* number of addresses a 16-bit address can name
  Narrow,  \* entries of the global copy in the 5-digit address space
  Ids,     \* ids under which views register their ranges
  Vals,    \* register values
  Absent   \* no value: the address is outside the local range

ASSUME WidthAssumption == Width \in Nat /\ Width >= 2
ASSUME NarrowAssumption == Narrow \in 1 .. Width - 1
ASSUME ValsAssumption == Vals \subseteq Int /\ 0 \in Vals
ASSUME AbsentAssumption == Absent \notin Vals

Addr == 0 .. Width - 1
Stored == 0 .. Width - 2            \* the entries of the global copy
Points == 0 .. 2 * Width - 3        \* the addresses a range may reach

\* A range is the set of its addresses; the empty set: nothing registered.
Maps == [units : [Ids -> SUBSET Points], auto : SUBSET Points,
         local : [Points -> Vals \cup {Absent}], global : [Stored -> Vals],
         isGlobal : BOOLEAN, wide : BOOLEAN]

EmptyMap == [units |-> [i \in Ids |-> {}], auto |-> {},
             local |-> [p \in Points |-> Absent],
             global |-> [a \in Stored |-> 0], isGlobal |-> FALSE, wide |-> TRUE]

\* The entries that count; the others keep their values out of reach.
Entries(m) == {a \in Stored : m.wide \/ a < Narrow}

-----------------------------------------------------------------------------
(* The registered addresses and the merged range.                          *)

UnitPoints(m) == UNION {m.units[i] : i \in Ids}
MappedPoints(m) == UnitPoints(m) \cup m.auto

\* Every address of a nonempty range is registered (the sorted sweep).
coveredByUnits(m, r) == r # {} /\ r \subseteq MappedPoints(m)

\* Bug: the end of the merged range taken for its last address.
InMergedRangeShort(m, p) ==
  \E lo, hi \in MappedPoints(m) :
    /\ \A q \in MappedPoints(m) : lo <= q /\ q <= hi
    /\ lo <= p /\ p < lo + ((hi - lo) % Width)

\* The merged range reaches from the lowest to the highest registered
\* address, but its length is kept in 16 bits: a merged range of Width
\* addresses or more keeps only what is left after the wrap.
InMergedRange(m, p) ==
  \E lo, hi \in MappedPoints(m) :
    /\ \A q \in MappedPoints(m) : lo <= q /\ q <= hi
    /\ lo <= p
    /\ p < lo + ((hi + 1 - lo) % Width)

ValueIn(m, p) == IF p \in Entries(m) THEN m.global[p] ELSE 0

\* The local copy built anew from the global one.
updateDataUnitMap(m) ==
  [m EXCEPT !.local =
    [p \in Points |-> IF InMergedRange(m, p) THEN ValueIn(m, p) ELSE Absent]]

addUnit(m, id, r) == updateDataUnitMap([m EXCEPT !.units[id] = r])
removeUnit(m, id) == updateDataUnitMap([m EXCEPT !.units[id] = {}])

ensureRange(m, r) ==
  IF m.isGlobal \/ r = {} \/ coveredByUnits(m, r)
  THEN m
  ELSE updateDataUnitMap([m EXCEPT !.auto = @ \cup r])

-----------------------------------------------------------------------------
(* The copy that is served, and access to the values.                      *)

Served(m, p) == IF m.isGlobal THEN (IF p \in Entries(m) THEN m.global[p] ELSE Absent)
                ELSE m.local[p]

contains(m) == m.isGlobal \/ \E p \in Points : m.local[p] # Absent

\* The range lies within the served copy (both its ends do, and the served
\* copy is one interval).
Holds(m, r) == \A p \in r : Served(m, p) # Absent

\* Bug: the merged range checked instead of the registered ranges.
isMappedMerged(m, r) == r # {} /\ Holds(m, r)

\* What a client may reach: in local mode the gaps of the merged range are
\* refused, in global mode any address with an entry is served.
isMapped(m, r) == IF m.isGlobal THEN r # {} /\ r \subseteq Entries(m)
                  ELSE coveredByUnits(m, r)

\* Data is a function from the addresses of a range to values.
Data(r) == [r -> Vals]

\* Addresses are taken modulo Width when a value is fetched or stored.
getData(m, r) == [p \in r |-> ValueIn(m, p % Width)]

\* Bug: a write that misses the global copy.
setDataLocal(m, data) ==
  [m EXCEPT !.local = [p \in Points |-> IF m.local[p] # Absent /\ p \in DOMAIN data
                                         THEN data[p] ELSE m.local[p]]]

setData(m, data) ==
  LET hit(a) == \E p \in DOMAIN data : p % Width = a
      new(a) == data[CHOOSE p \in DOMAIN data : p % Width = a]
  IN [m EXCEPT
       !.local = [p \in Points |-> IF m.local[p] # Absent /\ p \in Addr /\ hit(p)
                                   THEN new(p) ELSE m.local[p]],
       !.global = [a \in Stored |-> IF a \in Entries(m) /\ hit(a)
                                    THEN new(a) ELSE m.global[a]]]

\* Write into the copy that is served, and only into that one.
writeServed(m, data) ==
  IF m.isGlobal
  THEN [m EXCEPT !.global =
         [a \in Stored |-> IF a \in DOMAIN data THEN data[a] ELSE m.global[a]]]
  ELSE [m EXCEPT !.local =
         [p \in Points |-> IF p \in DOMAIN data THEN data[p] ELSE m.local[p]]]

\* Zero in both copies at the addresses of the range no view covers.
clearUnmapped(m, r) ==
  LET gone(p) == p \in r /\ p \notin MappedPoints(m)
  IN [m EXCEPT
       !.local = [p \in Points |-> IF m.local[p] # Absent /\ gone(p)
                                   THEN 0 ELSE m.local[p]],
       !.global = [a \in Stored |-> IF a \in Entries(m) /\ gone(a)
                                    THEN 0 ELSE m.global[a]]]
=============================================================================
