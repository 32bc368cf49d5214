---------------------------- MODULE UnitMapProofs ----------------------------
(***************************************************************************)
(* What the operations of a register map return, for every address width,  *)
(* every set of views and every set of values.                             *)
(***************************************************************************)
EXTENDS UnitMap, WellFoundedInduction, TLAPS

-----------------------------------------------------------------------------
(* Every operation takes maps to maps.                                     *)

\* A new map is a map.
LEMMA EmptyMapType == EmptyMap \in Maps
BY WidthAssumption, ValsAssumption DEF EmptyMap, Maps

\* A value read from the global copy is a register value.
LEMMA ValueInType ==
  ASSUME NEW m \in Maps, NEW p
  PROVE  ValueIn(m, p) \in Vals
BY ValsAssumption DEF ValueIn, Entries, Maps

\* The local copy can be built anew for any registration.
LEMMA UpdateType ==
  ASSUME NEW m \in Maps
  PROVE  updateDataUnitMap(m) \in Maps
<1>1. [p \in Points |-> IF InMergedRange(m, p) THEN ValueIn(m, p) ELSE Absent]
        \in [Points -> Vals \cup {Absent}]
  BY ValueInType
<1>2. QED BY <1>1 DEF updateDataUnitMap, Maps

\* Registering and releasing a range (addUnitMap, removeUnitMap).
LEMMA AddUnitType ==
  ASSUME NEW m \in Maps, NEW id \in Ids, NEW r \in SUBSET Points
  PROVE  addUnit(m, id, r) \in Maps
<1>1. [m EXCEPT !.units[id] = r] \in Maps BY DEF Maps
<1>2. QED BY <1>1, UpdateType DEF addUnit

LEMMA RemoveUnitType ==
  ASSUME NEW m \in Maps, NEW id \in Ids
  PROVE  removeUnit(m, id) \in Maps
<1>1. [m EXCEPT !.units[id] = {}] \in Maps BY DEF Maps
<1>2. QED BY <1>1, UpdateType DEF removeUnit

\* Adding a range on request (ensureRange).
LEMMA EnsureRangeType ==
  ASSUME NEW m \in Maps, NEW r \in SUBSET Points
  PROVE  ensureRange(m, r) \in Maps
<1>1. [m EXCEPT !.auto = @ \cup r] \in Maps BY DEF Maps
<1>2. QED BY <1>1, UpdateType DEF ensureRange

\* What is served is a value or nothing.
LEMMA ServedType ==
  ASSUME NEW m \in Maps, NEW p \in Points
  PROVE  Served(m, p) \in Vals \cup {Absent}
BY DEF Served, Entries, Maps

\* Writing into a map (setData, writeData, clearUnmappedData).
LEMMA SetDataType ==
  ASSUME NEW m \in Maps, NEW r \in SUBSET Points, NEW data \in [r -> Vals]
  PROVE  setData(m, data) \in Maps
<1> DEFINE hit(a) == \E p \in DOMAIN data : p % Width = a
           new(a) == data[CHOOSE p \in DOMAIN data : p % Width = a]
<1>1. \A a : hit(a) => new(a) \in Vals
  OBVIOUS
<1> HIDE DEF hit, new
<1>2. [p \in Points |-> IF m.local[p] # Absent /\ p \in Addr /\ hit(p)
                        THEN new(p) ELSE m.local[p]] \in [Points -> Vals \cup {Absent}]
  BY <1>1 DEF Maps
<1>3. [a \in Stored |-> IF a \in Entries(m) /\ hit(a) THEN new(a) ELSE m.global[a]]
        \in [Stored -> Vals]
  BY <1>1 DEF Maps
<1>4. setData(m, data) =
        [m EXCEPT !.local = [p \in Points |-> IF m.local[p] # Absent /\ p \in Addr /\ hit(p)
                                              THEN new(p) ELSE m.local[p]],
                  !.global = [a \in Stored |-> IF a \in Entries(m) /\ hit(a)
                                               THEN new(a) ELSE m.global[a]]]
  BY DEF setData, hit, new
<1>5. QED BY <1>2, <1>3, <1>4 DEF Maps

LEMMA WriteServedType ==
  ASSUME NEW m \in Maps, NEW r \in SUBSET Points, NEW data \in [r -> Vals]
  PROVE  writeServed(m, data) \in Maps
<1>1. [a \in Stored |-> IF a \in DOMAIN data THEN data[a] ELSE m.global[a]]
        \in [Stored -> Vals]
  BY DEF Maps
<1>2. [p \in Points |-> IF p \in DOMAIN data THEN data[p] ELSE m.local[p]]
        \in [Points -> Vals \cup {Absent}]
  BY DEF Maps
<1>3. QED BY <1>1, <1>2 DEF writeServed, Maps

LEMMA ClearType ==
  ASSUME NEW m \in Maps, NEW r
  PROVE  clearUnmapped(m, r) \in Maps
<1>1. [p \in Points |-> IF m.local[p] # Absent /\ p \in r /\ p \notin MappedPoints(m)
                        THEN 0 ELSE m.local[p]] \in [Points -> Vals \cup {Absent}]
  BY ValsAssumption DEF Maps
<1>2. [a \in Stored |-> IF a \in Entries(m) /\ a \in r /\ a \notin MappedPoints(m)
                        THEN 0 ELSE m.global[a]] \in [Stored -> Vals]
  BY ValsAssumption DEF Maps
<1>3. QED BY <1>1, <1>2 DEF clearUnmapped, Maps

-----------------------------------------------------------------------------
(* What stays of a map when its values or its flags change.                *)

\* The two maps have the same ranges, and their local copies the same extent.
SameShape(m, n) ==
  /\ n.units = m.units
  /\ n.auto = m.auto
  /\ \A p \in Points : (n.local[p] = Absent) <=> (m.local[p] = Absent)

\* What is registered lies in B, and the local copy is the merged range.
LocalIsMerged(m) == \A p \in Points : (m.local[p] # Absent) <=> InMergedRange(m, p)
Good(m, B) == MappedPoints(m) \subseteq B /\ LocalIsMerged(m)

LEMMA SameMerged ==
  ASSUME NEW m, NEW n, n.units = m.units, n.auto = m.auto
  PROVE  /\ UnitPoints(n) = UnitPoints(m)
         /\ MappedPoints(n) = MappedPoints(m)
         /\ \A p : InMergedRange(n, p) = InMergedRange(m, p)
BY DEF UnitPoints, MappedPoints, InMergedRange

LEMMA ShapeKeepsGood ==
  ASSUME NEW m, NEW n, NEW B, SameShape(m, n), Good(m, B)
  PROVE  Good(n, B)
<1>1. n.units = m.units /\ n.auto = m.auto BY DEF SameShape
<1>2. /\ MappedPoints(n) = MappedPoints(m)
      /\ \A p : InMergedRange(n, p) = InMergedRange(m, p)
  BY <1>1, SameMerged
<1>3. QED BY <1>2 DEF SameShape, Good, LocalIsMerged

\* The flags.
LEMMA FlagsKeepShape ==
  ASSUME NEW m \in Maps, NEW g, NEW w
  PROVE  /\ SameShape(m, [m EXCEPT !.isGlobal = g])
         /\ SameShape(m, [m EXCEPT !.isGlobal = g, !.wide = w])
BY DEF SameShape, Maps

\* The values: setData and clearUnmapped wherever they write, writeServed
\* within the served copy.
LEMMA SetDataKeepsShape ==
  ASSUME NEW m \in Maps, NEW r \in SUBSET Points, NEW data \in [r -> Vals]
  PROVE  SameShape(m, setData(m, data))
<1> DEFINE hit(a) == \E p \in DOMAIN data : p % Width = a
           new(a) == data[CHOOSE p \in DOMAIN data : p % Width = a]
           loc == [p \in Points |-> IF m.local[p] # Absent /\ p \in Addr /\ hit(p)
                                    THEN new(p) ELSE m.local[p]]
           glob == [a \in Stored |-> IF a \in Entries(m) /\ hit(a) THEN new(a) ELSE m.global[a]]
<1>1. \A a : hit(a) => new(a) \in Vals
  OBVIOUS
<1>2. setData(m, data) = [m EXCEPT !.local = loc, !.global = glob]
  BY DEF setData
<1> HIDE DEF hit, new
<1>3. \A p \in Points : (loc[p] = Absent) <=> (m.local[p] = Absent)
  BY <1>1, AbsentAssumption
<1> HIDE DEF loc, glob
<1>4. QED BY <1>2, <1>3 DEF SameShape, Maps

LEMMA ClearKeepsShape ==
  ASSUME NEW m \in Maps, NEW r
  PROVE  SameShape(m, clearUnmapped(m, r))
<1> DEFINE gone(p) == p \in r /\ p \notin MappedPoints(m)
           loc == [p \in Points |-> IF m.local[p] # Absent /\ gone(p) THEN 0 ELSE m.local[p]]
           glob == [a \in Stored |-> IF a \in Entries(m) /\ gone(a) THEN 0 ELSE m.global[a]]
<1>1. clearUnmapped(m, r) = [m EXCEPT !.local = loc, !.global = glob]
  BY DEF clearUnmapped
<1>2. \A p \in Points : (loc[p] = Absent) <=> (m.local[p] = Absent)
  BY ValsAssumption, AbsentAssumption
<1> HIDE DEF loc, glob
<1>3. QED BY <1>1, <1>2 DEF SameShape, Maps

LEMMA WriteServedKeepsShape ==
  ASSUME NEW m \in Maps, NEW r \in SUBSET Points, NEW data \in [r -> Vals], Holds(m, r)
  PROVE  SameShape(m, writeServed(m, data))
<1> DEFINE glob == [a \in Stored |-> IF a \in DOMAIN data THEN data[a] ELSE m.global[a]]
           loc == [p \in Points |-> IF p \in DOMAIN data THEN data[p] ELSE m.local[p]]
<1>1. CASE m.isGlobal
  <2>1. writeServed(m, data) = [m EXCEPT !.global = glob] BY <1>1 DEF writeServed
  <2> HIDE DEF glob
  <2>2. QED BY <2>1 DEF SameShape, Maps
<1>2. CASE ~m.isGlobal
  <2>1. writeServed(m, data) = [m EXCEPT !.local = loc] BY <1>2 DEF writeServed
  <2>2. \A p \in r : m.local[p] # Absent BY <1>2 DEF Holds, Served
  <2>3. \A p \in Points : (loc[p] = Absent) <=> (m.local[p] = Absent)
    BY <2>2, AbsentAssumption
  <2> HIDE DEF loc
  <2>4. QED BY <2>1, <2>3 DEF SameShape, Maps
<1>3. QED BY <1>1, <1>2

-----------------------------------------------------------------------------
(* The local copy is the merged range.                                     *)

LEMMA EmptyMapGood ==
  ASSUME NEW B
  PROVE  Good(EmptyMap, B)
BY DEF Good, LocalIsMerged, EmptyMap, MappedPoints, UnitPoints, InMergedRange

LEMMA UpdateGood ==
  ASSUME NEW m \in Maps, NEW B, MappedPoints(m) \subseteq B
  PROVE  Good(updateDataUnitMap(m), B)
<1> DEFINE n == updateDataUnitMap(m)
           loc == [p \in Points |-> IF InMergedRange(m, p) THEN ValueIn(m, p) ELSE Absent]
<1>1. n = [m EXCEPT !.local = loc] BY DEF updateDataUnitMap
<1>2. \A p \in Points : (loc[p] # Absent) <=> InMergedRange(m, p)
  BY ValueInType, AbsentAssumption
<1> HIDE DEF n, loc
<1>3. n.units = m.units /\ n.auto = m.auto /\ n.local = loc BY <1>1 DEF Maps
<1>4. /\ MappedPoints(n) = MappedPoints(m)
      /\ \A p : InMergedRange(n, p) = InMergedRange(m, p)
  BY <1>3, SameMerged
<1>5. QED BY <1>2, <1>3, <1>4 DEF Good, LocalIsMerged, n

LEMMA AddUnitGood ==
  ASSUME NEW m \in Maps, NEW id \in Ids, NEW B, NEW r \in SUBSET Points,
         r \subseteq B, Good(m, B)
  PROVE  Good(addUnit(m, id, r), B)
<1> DEFINE n == [m EXCEPT !.units[id] = r]
<1>1. n \in Maps BY DEF Maps
<1>2. MappedPoints(n) \subseteq B
  <2>1. \A i \in Ids : n.units[i] \subseteq m.units[i] \cup r BY DEF Maps
  <2>2. n.auto = m.auto BY DEF Maps
  <2>3. QED BY <2>1, <2>2 DEF MappedPoints, UnitPoints, Good
<1>3. QED BY <1>1, <1>2, UpdateGood DEF addUnit

LEMMA RemoveUnitGood ==
  ASSUME NEW m \in Maps, NEW id \in Ids, NEW B, Good(m, B)
  PROVE  Good(removeUnit(m, id), B)
BY AddUnitGood, removeUnit(m, id) = addUnit(m, id, {}) DEF removeUnit, addUnit

LEMMA EnsureRangeGood ==
  ASSUME NEW m \in Maps, NEW B, NEW r \in SUBSET Points, r \subseteq B, Good(m, B)
  PROVE  Good(ensureRange(m, r), B)
<1> DEFINE n == [m EXCEPT !.auto = @ \cup r]
<1>1. n \in Maps BY DEF Maps
<1>2. MappedPoints(n) \subseteq B
  BY DEF Maps, MappedPoints, UnitPoints, Good
<1>3. QED BY <1>1, <1>2, UpdateGood DEF ensureRange

\* The length of a merged range within the address space fits into 16 bits,
\* or the range is lost altogether: what is served ends with the last
\* registered address.
LEMMA MergedIsInside ==
  ASSUME NEW m \in Maps, MappedPoints(m) \subseteq Addr, NEW p \in Points,
         InMergedRange(m, p)
  PROVE  \E lo, hi \in MappedPoints(m) :
           /\ \A q \in MappedPoints(m) : lo <= q /\ q <= hi
           /\ lo <= p /\ p <= hi
           /\ (hi + 1 - lo) % Width = hi + 1 - lo
<1>1. PICK lo \in MappedPoints(m), hi \in MappedPoints(m) :
        /\ \A q \in MappedPoints(m) : lo <= q /\ q <= hi
        /\ lo <= p
        /\ p < lo + ((hi + 1 - lo) % Width)
  BY DEF InMergedRange
<1>2. lo \in 0 .. Width - 1 /\ hi \in 0 .. Width - 1 /\ lo <= hi BY <1>1 DEF Addr
<1>3. hi + 1 - lo \in 1 .. Width BY <1>2, WidthAssumption
<1>4. Width % Width = 0 BY WidthAssumption
<1>5. hi + 1 - lo # Width
  <2> SUFFICES ASSUME hi + 1 - lo = Width PROVE FALSE OBVIOUS
  <2>1. (hi + 1 - lo) % Width = 0 BY <1>4
  <2>2. QED BY <1>1, <1>2, <2>1 DEF Points
<1>6. \A x \in 0 .. Width - 1 : x % Width = x BY WidthAssumption
<1>7. (hi + 1 - lo) % Width = hi + 1 - lo
  BY <1>3, <1>5, <1>6, WidthAssumption
<1>8. p <= hi BY <1>1, <1>2, <1>7, WidthAssumption DEF Points
<1>9. QED BY <1>1, <1>7, <1>8

\* So a local copy holds all of what is registered or nothing.
LEMMA AllOrNothing ==
  ASSUME NEW m \in Maps, MappedPoints(m) \subseteq Addr, NEW p \in Points,
         InMergedRange(m, p), NEW q \in MappedPoints(m)
  PROVE  InMergedRange(m, q)
<1>1. PICK lo \in MappedPoints(m), hi \in MappedPoints(m) :
        /\ \A x \in MappedPoints(m) : lo <= x /\ x <= hi
        /\ (hi + 1 - lo) % Width = hi + 1 - lo
  BY MergedIsInside
<1>2. lo <= q /\ q < lo + ((hi + 1 - lo) % Width) BY <1>1, WidthAssumption DEF Addr
<1>3. QED BY <1>1, <1>2 DEF InMergedRange

\* Without the last address everything registered is held.
LEMMA ExtremesExist ==
  ASSUME NEW S \in SUBSET Nat, S # {}, NEW n \in Nat, \A q \in S : q <= n
  PROVE  \E lo, hi \in S : \A q \in S : lo <= q /\ q <= hi
<1>1. PICK lo \in S : \A q \in S : lo <= q
  <2>1. IsWellFoundedOn(OpToRel(<, Nat), Nat) BY NatLessThanWellFounded
  <2>2. PICK x \in S : \A y \in S : ~ (<<y, x>> \in OpToRel(<, Nat))
    BY <2>1, WFMin
  <2>3. \A y \in S : ~ (y < x) BY <2>2 DEF OpToRel
  <2>4. QED BY <2>3
<1>2. PICK hi \in S : \A q \in S : q <= hi
  <2> DEFINE T == {n - q : q \in S}
  <2>1. T \in SUBSET Nat /\ T # {}
    <3>1. \A q \in S : q \in Nat /\ n - q \in Nat OBVIOUS
    <3>2. n - lo \in T OBVIOUS
    <3>3. QED BY <3>1, <3>2
  <2> HIDE DEF T
  <2>2. IsWellFoundedOn(OpToRel(<, Nat), Nat) BY NatLessThanWellFounded
  <2>3. PICK x \in T : \A y \in T : ~ (<<y, x>> \in OpToRel(<, Nat))
    BY <2>1, <2>2, WFMin
  <2>4. \A y \in T : ~ (y < x) BY <2>1, <2>3 DEF OpToRel
  <2>5. PICK hi \in S : x = n - hi BY DEF T
  <2>6. \A q \in S : n - q \in T BY DEF T
  <2>7. QED BY <2>4, <2>5, <2>6
<1>3. QED BY <1>1, <1>2

LEMMA AllIsHeld ==
  ASSUME NEW m \in Maps, MappedPoints(m) \subseteq Stored, NEW q \in MappedPoints(m)
  PROVE  InMergedRange(m, q)
<1>1. MappedPoints(m) \in SUBSET Nat /\ \A x \in MappedPoints(m) : x <= Width
  BY WidthAssumption DEF Stored
<1>2. PICK lo \in MappedPoints(m), hi \in MappedPoints(m) :
        \A x \in MappedPoints(m) : lo <= x /\ x <= hi
  BY <1>1, ExtremesExist, WidthAssumption
<1>3. lo \in 0 .. Width - 2 /\ hi \in 0 .. Width - 2 /\ lo <= hi BY <1>2 DEF Stored
<1>4. hi + 1 - lo \in 0 .. Width - 1 BY <1>3, WidthAssumption
<1>5. \A x \in 0 .. Width - 1 : x % Width = x BY WidthAssumption
<1>6. (hi + 1 - lo) % Width = hi + 1 - lo BY <1>4, <1>5
<1>7. q < lo + ((hi + 1 - lo) % Width) BY <1>2, <1>3, <1>6, WidthAssumption DEF Stored
<1>8. QED BY <1>2, <1>7 DEF InMergedRange

\* What a map serves lies where its ranges do, or has an entry.
LEMMA ServedIsInside ==
  ASSUME NEW m \in Maps, NEW B \in {Stored, Addr}, Good(m, B), NEW p \in Points,
         Served(m, p) # Absent
  PROVE  p \in B
<1>1. CASE m.isGlobal
  BY <1>1, WidthAssumption DEF Served, Entries, Stored, Addr
<1>2. CASE ~m.isGlobal
  <2>1. InMergedRange(m, p) BY <1>2 DEF Served, Good, LocalIsMerged
  <2>2. MappedPoints(m) \subseteq Addr BY WidthAssumption DEF Good, Stored, Addr
  <2>3. PICK lo \in MappedPoints(m), hi \in MappedPoints(m) : lo <= p /\ p <= hi
    BY <2>1, <2>2, MergedIsInside
  <2>4. lo \in B /\ hi \in B BY <2>3 DEF Good
  <2>5. QED BY <2>3, <2>4, WidthAssumption DEF Stored, Addr, Points
<1>3. QED BY <1>1, <1>2

-----------------------------------------------------------------------------
(* The two copies of a map.                                                *)

CopiesAgree(m) == \A a \in Stored : m.local[a] \in {Absent, m.global[a]}

LEMMA UpdateAgrees ==
  ASSUME NEW m \in Maps, m.wide
  PROVE  CopiesAgree(updateDataUnitMap(m))
<1> DEFINE loc == [p \in Points |-> IF InMergedRange(m, p) THEN ValueIn(m, p) ELSE Absent]
<1>1. Stored \subseteq Points BY WidthAssumption DEF Stored, Points
<1>2. \A a \in Stored : loc[a] \in {Absent, m.global[a]}
  BY <1>1 DEF ValueIn, Entries
<1>3. updateDataUnitMap(m) = [m EXCEPT !.local = loc] BY DEF updateDataUnitMap
<1> HIDE DEF loc
<1>4. QED BY <1>2, <1>3 DEF CopiesAgree, Maps

LEMMA SetDataAgrees ==
  ASSUME NEW m \in Maps, m.wide, CopiesAgree(m), NEW r \in SUBSET Points,
         NEW data \in [r -> Vals]
  PROVE  CopiesAgree(setData(m, data))
<1> DEFINE hit(a) == \E p \in DOMAIN data : p % Width = a
           new(a) == data[CHOOSE p \in DOMAIN data : p % Width = a]
           loc == [p \in Points |-> IF m.local[p] # Absent /\ p \in Addr /\ hit(p)
                                    THEN new(p) ELSE m.local[p]]
           glob == [a \in Stored |-> IF a \in Entries(m) /\ hit(a) THEN new(a) ELSE m.global[a]]
<1>1. setData(m, data) = [m EXCEPT !.local = loc, !.global = glob]
  BY DEF setData
<1> HIDE DEF hit, new
<1>2. Stored \subseteq Points \cap Addr BY WidthAssumption DEF Stored, Points, Addr
<1>3. Entries(m) = Stored BY DEF Entries
<1>4. \A a \in Stored : m.local[a] \in {Absent, m.global[a]} BY DEF CopiesAgree
<1>5. ASSUME NEW a \in Stored PROVE loc[a] \in {Absent, glob[a]}
  <2>1. a \in Points /\ a \in Addr /\ a \in Entries(m) BY <1>2, <1>3
  <2>2. CASE hit(a) BY <1>4, <2>1, <2>2
  <2>3. CASE ~hit(a) BY <1>4, <2>1, <2>3
  <2>4. QED BY <2>2, <2>3
<1> HIDE DEF loc, glob
<1>6. QED BY <1>1, <1>5 DEF CopiesAgree, Maps

LEMMA ClearAgrees ==
  ASSUME NEW m \in Maps, m.wide, CopiesAgree(m), NEW r
  PROVE  CopiesAgree(clearUnmapped(m, r))
<1> DEFINE gone(p) == p \in r /\ p \notin MappedPoints(m)
           loc == [p \in Points |-> IF m.local[p] # Absent /\ gone(p) THEN 0 ELSE m.local[p]]
           glob == [a \in Stored |-> IF a \in Entries(m) /\ gone(a) THEN 0 ELSE m.global[a]]
<1>1. clearUnmapped(m, r) = [m EXCEPT !.local = loc, !.global = glob]
  BY DEF clearUnmapped
<1> HIDE DEF gone
<1>2. Stored \subseteq Points BY WidthAssumption DEF Stored, Points
<1>3. \A a \in Stored : m.local[a] \in {Absent, m.global[a]} BY DEF CopiesAgree
<1>4. \A a \in Stored : loc[a] \in {Absent, glob[a]} BY <1>2, <1>3 DEF Entries
<1> HIDE DEF loc, glob
<1>5. QED BY <1>1, <1>4 DEF CopiesAgree, Maps

=============================================================================
