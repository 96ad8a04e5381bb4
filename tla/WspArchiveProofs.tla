------------------------- MODULE WspArchiveProofs -------------------------
(***************************************************************************)
(* Theorems about WspArchive, for every archive, every word size and every *)
(* set of timestamps.  They concern archives whose points start zeroed, as *)
(* the file mappings create them, and points that are either not older     *)
(* than the base or written where the unsigned wrap-around of              *)
(* wsp_point_index happens to be a whole number of laps.                   *)
(***************************************************************************)
EXTENDS WspArchive, WspPointsProofs

\* The points are zero-filled.
ZeroedPoints == InitialPoints = {Blank}

\* Late points are not written, or do no harm.
WrapsWhole == Backfill => (Word \div Spp) % Count = 0

\* The inductive invariant: where a point may be stored depends on the
\* timestamps in the slots, so neither conjunct is inductive by itself.
IInv == TypeOK /\ RingAligned

-----------------------------------------------------------------------------
(* What the invariant says, in intervals.                                  *)

\* A timestamp that is written, in intervals.
LEMMA WrittenTime ==
    ASSUME NEW t \in Times
    PROVE  /\ t \div Spp \in Nat \ {0}
           /\ TimeFloor(t, Spp) = Spp * (t \div Spp)
           /\ TimeFloor(t, Spp) \in Timestamp
           /\ TimeFloor(t, Spp) # 0
           /\ TimeFloor(t, Spp) = t - (t % Spp)
<1>1. Spp \in Nat \ {0} /\ t \in Nat /\ t >= Spp /\ t < Word \div 2
  BY ArchiveAssumption, TimesAssumption, WordAssumption
<1>2. Word \div 2 <= Word
  BY WordAssumption
<1>3. /\ TimeFloor(t, Spp) \in Nat
      /\ t \div Spp \in Nat
      /\ TimeFloor(t, Spp) = Spp * (t \div Spp)
      /\ TimeFloor(t, Spp) <= t
      /\ TimeFloor(t, Spp) >= Spp
  BY <1>1, TimeFloorFacts
<1>4. t \div Spp # 0
  <2>1. Spp * 0 = 0
    BY <1>1
  <2> QED
    BY <2>1, <1>1, <1>3
<1>5. TimeFloor(t, Spp) \in Timestamp
  BY <1>1, <1>2, <1>3, WordAssumption DEF Timestamp
<1>6. TimeFloor(t, Spp) = t - (t % Spp)
  BY DEF TimeFloor
<1> QED
  BY <1>1, <1>3, <1>4, <1>5, <1>6

\* A slot is blank, or its timestamp is a positive number of intervals.
LEMMA SlotTime ==
    ASSUME TypeOK, ZeroedPoints, NEW i \in Slots(Arc)
    PROVE  /\ slots[i].timestamp \in Timestamp
           /\ slots[i] = Blank => slots[i].timestamp = 0
           /\ slots[i] # Blank =>
                slots[i].timestamp # 0 /\
                \E n \in Nat : n # 0 /\ slots[i].timestamp = Spp * n
<1>1. slots[i] \in {Blank} \cup {Point(t - (t % Spp), v) : t \in Times, v \in Values}
  BY DEF TypeOK, ZeroedPoints
<1>2. CASE slots[i] = Blank
  BY <1>2, WordAssumption DEF Blank, Point, Timestamp
<1>3. CASE \E t \in Times, v \in Values : slots[i] = Point(t - (t % Spp), v)
  <2>1. PICK t \in Times, v \in Values : slots[i] = Point(t - (t % Spp), v)
    BY <1>3
  <2>2. slots[i].timestamp = TimeFloor(t, Spp)
    BY <2>1, WrittenTime DEF Point
  <2>3. slots[i] # Blank
    BY <2>2, WrittenTime DEF Blank, Point
  <2> QED
    BY <2>2, <2>3, WrittenTime
<1> QED
  BY <1>1, <1>2, <1>3

\* Alignment of a slot, with the number of laps as a witness.
LEMMA AlignedByLaps ==
    ASSUME NEW a \in Int
    PROVE  a % (Spp * Count) = 0 <=> \E q \in Int : a = (Spp * Count) * q
<1>1. Spp * Count \in Nat \ {0}
  BY ArchiveAssumption
<1>2. ASSUME a % (Spp * Count) = 0
      PROVE  \E q \in Int : a = (Spp * Count) * q
  <2>1. /\ a = (Spp * Count) * (a \div (Spp * Count)) + (a % (Spp * Count))
        /\ a \div (Spp * Count) \in Int
    BY <1>1, DivMod
  <2> QED
    BY <2>1, <1>1, <1>2
<1>3. ASSUME NEW q \in Int, a = (Spp * Count) * q
      PROVE  a % (Spp * Count) = 0
  BY <1>1, <1>3, MultipleMod
<1> QED
  BY <1>2, <1>3

\* Whole laps are aligned.
LEMMA WholeLaps ==
    ASSUME NEW q \in Int
    PROVE  ((Spp * Count) * q) % (Spp * Count) = 0
<1>1. Spp * Count \in Nat \ {0}
  BY ArchiveAssumption
<1> QED
  BY <1>1, MultipleMod

\* A distance in intervals as whole laps and a slot, in seconds.
LEMMA LapsInSeconds ==
    ASSUME NEW m \in Int, NEW n \in Int, NEW g \in Int, NEW k \in Int,
           m - n = Count * g + k
    PROVE  Spp * m - Spp * n - k * Spp = (Spp * Count) * g
<1>1. Spp \in Int /\ Count \in Int
  BY ArchiveAssumption
<1>2. Spp * (m - n) = Spp * (Count * g + k)
  OBVIOUS
<1>3. Spp * (m - n) = Spp * m - Spp * n
  BY <1>1
<1>4. Spp * (Count * g + k) = (Spp * Count) * g + k * Spp
  BY <1>1
<1>5. /\ Spp * m \in Int /\ Spp * n \in Int
      /\ k * Spp \in Int /\ (Spp * Count) * g \in Int
  BY <1>1
<1> QED
  BY <1>2, <1>3, <1>4, <1>5

-----------------------------------------------------------------------------
(* The slot wsp_write_points chooses.                                      *)

\* With a base, the slot is the distance in intervals modulo Count; without
\* one it is slot 0.
LEMMA WriteIndexIsDistance ==
    ASSUME IInv, ZeroedPoints, WrapsWhole, NEW t \in Times, NEW v \in Values,
           WritePoints(t, v)
    PROVE  /\ WriteIndex(Arc, slots[0], TimeFloor(t, Spp)) \in Slots(Arc)
           /\ slots[0] = Blank => WriteIndex(Arc, slots[0], TimeFloor(t, Spp)) = 0
           /\ \A n \in Nat \ {0} :
                slots[0].timestamp = Spp * n =>
                  WriteIndex(Arc, slots[0], TimeFloor(t, Spp))
                      = ((t \div Spp) - n) % Count
<1> DEFINE k == WriteIndex(Arc, slots[0], TimeFloor(t, Spp))
           m == t \div Spp
<1>1. /\ Spp \in Nat \ {0} /\ Count \in Nat \ {0}
      /\ Arc.spp = Spp /\ Arc.count = Count
      /\ Slots(Arc) = 0 .. Count - 1
      /\ 0 \in Slots(Arc)
  BY ArchiveAssumption DEF Arc, Slots
<1>2. /\ m \in Nat \ {0}
      /\ TimeFloor(t, Spp) = Spp * m
      /\ TimeFloor(t, Spp) \in Timestamp
  BY WrittenTime
<1>3. /\ slots[0].timestamp \in Timestamp
      /\ slots[0] = Blank => slots[0].timestamp = 0
      /\ slots[0] # Blank =>
           slots[0].timestamp # 0 /\
           \E n \in Nat : n # 0 /\ slots[0].timestamp = Spp * n
  BY <1>1, SlotTime DEF IInv
<1>4. slots[0] = Blank => k = 0
  BY <1>3 DEF WriteIndex
<1>5. ASSUME NEW n \in Nat \ {0}, slots[0].timestamp = Spp * n
      PROVE  k = (m - n) % Count /\ (m - n) % Count \in 0 .. Count - 1
  <2>1. slots[0].timestamp # 0
    BY <1>5, <1>1
  <2>2. m >= n \/ (Word \div Spp) % Count = 0
    <3>1. CASE Backfill
      BY <3>1 DEF WrapsWhole
    <3>2. CASE slots[0].timestamp <= TimeFloor(t, Spp)
      <4>1. Spp * n <= Spp * m
        BY <3>2, <1>5, <1>2
      <4>2. SUFFICES ASSUME m < n PROVE FALSE
        BY <1>2
      <4>3. Spp * (n - m) >= Spp
        BY <4>2, <1>1, <1>2
      <4> QED
        BY <4>1, <4>3, <1>1, <1>2
    <3> QED
      BY <3>1, <3>2 DEF WritePoints
  <2>3. PointIndex(Arc, slots[0], Arc.spp * m) = (m - n) % Arc.count
    <3>1. /\ Arc.spp \in Nat \ {0} /\ Arc.count \in Nat \ {0}
          /\ slots[0].timestamp = Arc.spp * n
          /\ Arc.spp * m \in Timestamp
          /\ m >= n \/ (Word \div Arc.spp) % Arc.count = 0
          /\ m \in Int /\ n \in Int
      BY <2>2, <1>1, <1>2, <1>5
    <3> HIDE DEF m
    <3> QED
      BY <3>1, <1>3, PointIndexIsDistance
  <2>4. k = PointIndex(Arc, slots[0], Arc.spp * m)
    BY <2>1, <1>1, <1>2 DEF WriteIndex
  <2>5. m - n \in Int
    BY <1>2
  <2>6. (m - n) % Count \in 0 .. Count - 1
    BY <2>5, <1>1, DivMod
  <2> QED
    BY <2>3, <2>4, <2>6, <1>1
<1> QED
  BY <1>1, <1>3, <1>4, <1>5

-----------------------------------------------------------------------------
(* Preservation.                                                           *)

LEMMA InitInv == ZeroedPoints /\ Init => IInv
<1> SUFFICES ASSUME ZeroedPoints, Init PROVE IInv
  OBVIOUS
<1>1. \A i \in Slots(Arc) : slots[i] = Blank
  BY DEF Init, ZeroedPoints
<1> QED
  BY <1>1 DEF Init, IInv, TypeOK, RingAligned

\* A write keeps every slot of the right type.
LEMMA WriteTypeOK ==
    ASSUME IInv, ZeroedPoints, WrapsWhole, NEW t \in Times, NEW v \in Values,
           WritePoints(t, v)
    PROVE  TypeOK'
<1> DEFINE k == WriteIndex(Arc, slots[0], TimeFloor(t, Spp))
<1>1. k \in Slots(Arc)
  BY WriteIndexIsDistance
<1>2. slots' = [slots EXCEPT ![k] = Point(TimeFloor(t, Spp), v)]
  BY DEF WritePoints, WritePoint, Arc
<1>3. TimeFloor(t, Spp) = t - (t % Spp)
  BY WrittenTime
<1> QED
  BY <1>1, <1>2, <1>3 DEF IInv, TypeOK

\* A write keeps the ring aligned, also when it replaces the base.
LEMMA WriteRingAligned ==
    ASSUME IInv, ZeroedPoints, WrapsWhole, NEW t \in Times, NEW v \in Values,
           WritePoints(t, v)
    PROVE  RingAligned'
<1> DEFINE k == WriteIndex(Arc, slots[0], TimeFloor(t, Spp))
           m == t \div Spp
           R == Spp * Count
           new == Point(TimeFloor(t, Spp), v)
<1>1. /\ Spp \in Nat \ {0} /\ Count \in Nat \ {0}
      /\ Slots(Arc) = 0 .. Count - 1
      /\ 0 \in Slots(Arc)
  BY ArchiveAssumption DEF Arc, Slots
<1>2. k \in Slots(Arc)
  BY WriteIndexIsDistance
<1>3. slots' = [slots EXCEPT ![k] = new]
  BY DEF WritePoints, WritePoint, Arc
<1>4. /\ slots'[k] = new
      /\ \A i \in Slots(Arc) : i # k => slots'[i] = slots[i]
  BY <1>2, <1>3 DEF IInv, TypeOK
<1>5. /\ m \in Nat \ {0}
      /\ new.timestamp = Spp * m
      /\ new # Blank
  BY WrittenTime DEF Point, Blank
<1>6. SUFFICES ASSUME NEW i \in Slots(Arc), slots'[i] # Blank
               PROVE  /\ slots'[0] # Blank
                      /\ (slots'[i].timestamp - slots'[0].timestamp - i * Spp) % R = 0
  BY DEF RingAligned
<1>7. CASE slots[0] = Blank
  <2>1. k = 0
    BY <1>7, WriteIndexIsDistance
  <2>2. \A j \in Slots(Arc) : slots[j] = Blank
    BY <1>7 DEF IInv, RingAligned
  <2>3. i = 0
    BY <2>1, <2>2, <1>4, <1>6
  <2>4. slots'[i].timestamp - slots'[0].timestamp - i * Spp = R * 0
    BY <2>1, <2>3, <1>1, <1>4, <1>5
  <2>5. (R * 0) % R = 0
    BY WholeLaps
  <2> QED
    BY <2>1, <2>4, <2>5, <1>4, <1>5
<1>8. CASE slots[0] # Blank
  <2>1. PICK n \in Nat \ {0} : slots[0].timestamp = Spp * n
    BY <1>8, <1>1, SlotTime DEF IInv
  <2>2. k = (m - n) % Count
    BY <2>1, WriteIndexIsDistance
  <2>3. PICK g \in Int : m - n = Count * g + k
    <3>1. m - n \in Int
      BY <1>5
    <3>2. /\ m - n = Count * ((m - n) \div Count) + ((m - n) % Count)
          /\ (m - n) \div Count \in Int
      BY <3>1, <1>1, DivMod
    <3> QED
      BY <3>2, <2>2
  <2>4. Spp * m - Spp * n - k * Spp = R * g
    <3>1. k \in Int /\ m \in Int /\ n \in Int
      BY <1>1, <1>2, <1>5
    <3> QED
      BY <3>1, <2>3, LapsInSeconds
  <2>5. slots'[0] # Blank
    BY <1>4, <1>5, <1>8, <1>1
  <2>6. CASE i = k
    <3>1. CASE k = 0
      <4>1. slots'[i].timestamp = Spp * m /\ slots'[0].timestamp = Spp * m /\ i = 0
        BY <3>1, <2>6, <1>1, <1>4, <1>5
      <4>3. slots'[i].timestamp - slots'[0].timestamp - i * Spp = R * 0
        BY <4>1, <1>1, <1>5
      <4>2. (R * 0) % R = 0
        BY WholeLaps
      <4> QED
        BY <4>2, <4>3, <2>5
    <3>2. CASE k # 0
      <4>1. /\ slots'[i].timestamp = Spp * m
            /\ slots'[0].timestamp = Spp * n
            /\ i * Spp = k * Spp
        BY <3>2, <2>1, <2>6, <1>1, <1>4, <1>5
      <4>3. slots'[i].timestamp - slots'[0].timestamp - i * Spp = R * g
        BY <4>1, <2>4
      <4>2. (R * g) % R = 0
        BY WholeLaps
      <4> QED
        BY <4>2, <4>3, <2>5
    <3> QED
      BY <3>1, <3>2
  <2>7. CASE i # k
    <3>1. slots'[i] = slots[i] /\ slots[i] # Blank
      BY <2>7, <1>4, <1>6
    <3>2. slots[i].timestamp \in Int
      BY SlotTime DEF IInv, Timestamp
    <3>3. (slots[i].timestamp - slots[0].timestamp - i * Spp) % R = 0
      BY <3>1 DEF IInv, RingAligned
    <3>4. slots[i].timestamp - slots[0].timestamp - i * Spp \in Int
      BY <3>2, <2>1, <1>1
    <3>5. PICK q \in Int : slots[i].timestamp - slots[0].timestamp - i * Spp = R * q
      BY <3>3, <3>4, AlignedByLaps
    <3>6. CASE k = 0
      <4>1. slots'[0].timestamp = Spp * m
        BY <3>6, <1>4, <1>5
      <4>2. Spp * m - Spp * n = R * g
        <5>1. k * Spp = 0
          BY <3>6, <1>1
        <5> QED
          BY <5>1, <2>4, <1>1, <1>5
      <4>3. R * (q - g) = R * q - R * g
        BY <1>1
      <4>4. slots'[i].timestamp - slots'[0].timestamp - i * Spp = R * q - R * g
        BY <4>1, <4>2, <3>1, <3>2, <3>5, <2>1, <1>1, <1>5
      <4>5. (R * (q - g)) % R = 0
        BY WholeLaps
      <4> QED
        BY <4>3, <4>4, <4>5, <2>5
    <3>7. CASE k # 0
      <4>1. slots'[0] = slots[0]
        BY <3>7, <1>1, <1>4
      <4> QED
        BY <4>1, <3>1, <3>3, <2>5
    <3> QED
      BY <3>6, <3>7
  <2> QED
    BY <2>6, <2>7
<1> QED
  BY <1>7, <1>8

LEMMA NextInv ==
    ASSUME ZeroedPoints, WrapsWhole, IInv, [Next]_slots
    PROVE  IInv'
<1>1. CASE Next
  <2>1. PICK t \in Times, v \in Values : WritePoints(t, v)
    BY <1>1 DEF Next
  <2> QED
    BY <2>1, WriteTypeOK, WriteRingAligned DEF IInv
<1>2. CASE UNCHANGED slots
  BY <1>2 DEF IInv, TypeOK, RingAligned
<1> QED
  BY <1>1, <1>2

-----------------------------------------------------------------------------
\* Every slot always holds a blank or a point with a rounded timestamp that was
\* submitted, whatever sequence of points wsp_write_points is given.
THEOREM TypeCorrect ==
    ASSUME ZeroedPoints, WrapsWhole
    PROVE  Spec => []TypeOK
<1>1. Init => IInv
  BY InitInv
<1>2. IInv /\ [Next]_slots => IInv'
  BY NextInv
<1>3. IInv => TypeOK
  BY DEF IInv
<1> QED
  BY <1>1, <1>2, <1>3, PTL DEF Spec

\* The points of an archive stay where wsp_fetch_points looks for them, however
\* often the base in slot 0 is overwritten.
THEOREM RingStaysAligned ==
    ASSUME ZeroedPoints, WrapsWhole
    PROVE  Spec => []RingAligned
<1>1. Init => IInv
  BY InitInv
<1>2. IInv /\ [Next]_slots => IInv'
  BY NextInv
<1>3. IInv => RingAligned
  BY DEF IInv
<1> QED
  BY <1>1, <1>2, <1>3, PTL DEF Spec

-----------------------------------------------------------------------------
(* Refinement: the ring implements the round-robin table.                  *)

\* The table's place of a slot, with a base of n intervals.
LEMMA TableEntry ==
    ASSUME NEW n \in Nat \ {0}, slots[0].timestamp = Spp * n, slots[0] # Blank
    PROVE  Table = [r \in Slots(Arc) |-> slots[(r - n) % Count]]
<1>1. (Spp * n) \div Spp = n
  BY ArchiveAssumption, MultipleMod
<1> QED
  BY <1>1 DEF Table

LEMMA InitTable ==
    ASSUME ZeroedPoints, Init
    PROVE  RR!Init
<1>1. \A i \in Slots(Arc) : slots[i] = Blank
  BY DEF Init, ZeroedPoints
<1>2. 0 \in Slots(Arc) /\ Slots(Arc) = 0 .. Count - 1
  BY ArchiveAssumption DEF Slots, Arc
<1>3. Table = [r \in Slots(Arc) |-> Blank]
  BY <1>1, <1>2 DEF Table
<1> QED
  BY <1>2, <1>3 DEF RR!Init

\* Storing a point in its slot replaces the table's entry for its time, also
\* when the point becomes the new base.
LEMMA WriteInserts ==
    ASSUME IInv, ZeroedPoints, WrapsWhole, NEW t \in Times, NEW v \in Values,
           WritePoints(t, v)
    PROVE  RR!Insert(t, v)
<1> DEFINE k == WriteIndex(Arc, slots[0], TimeFloor(t, Spp))
           m == t \div Spp
           new == Point(TimeFloor(t, Spp), v)
<1>1. /\ Spp \in Nat \ {0} /\ Count \in Nat \ {0}
      /\ Slots(Arc) = 0 .. Count - 1
      /\ 0 \in Slots(Arc)
  BY ArchiveAssumption DEF Arc, Slots
<1>2. k \in Slots(Arc)
  BY WriteIndexIsDistance
<1>3. slots' = [slots EXCEPT ![k] = new]
  BY DEF WritePoints, WritePoint, Arc
<1>4. /\ slots'[k] = new
      /\ \A i \in Slots(Arc) : i # k => slots'[i] = slots[i]
  BY <1>2, <1>3 DEF IInv, TypeOK
<1>5. /\ m \in Nat \ {0} /\ m \in Int
      /\ new.timestamp = Spp * m
      /\ new # Blank
      /\ new = [timestamp |-> t - (t % Spp), value |-> v]
  BY WrittenTime DEF Point, Blank
<1>6. /\ m % Count \in 0 .. Count - 1
      /\ \A r \in 0 .. Count - 1 : \A n \in Int :
           /\ (r - n) % Count \in 0 .. Count - 1
           /\ (r - n) % Count = (m - n) % Count <=> r = m % Count
  <2>1. m % Count \in 0 .. Count - 1
    BY <1>1, <1>5, DivMod
  <2>2. ASSUME NEW r \in 0 .. Count - 1, NEW n \in Int
        PROVE  /\ (r - n) % Count \in 0 .. Count - 1
               /\ (r - n) % Count = (m - n) % Count <=> r = m % Count
    <3>1. r - n \in Int
      BY <1>1
    <3>2. (r - n) % Count \in 0 .. Count - 1
      BY <3>1, <1>1, DivMod
    <3>3. PICK x \in Int : x = m
      BY <1>5
    <3>4. /\ Ahead(r, n, Count) = Ahead(x, n, Count) => r = x % Count
          /\ r = x % Count => Ahead(r, n, Count) = Ahead(x, n, Count)
      BY <1>1, SameDistance
    <3>5. (r - n) % Count = (m - n) % Count <=> r = m % Count
      BY <3>3, <3>4 DEF Ahead
    <3> QED
      BY <3>2, <3>5
  <2> QED
    BY <2>1, <2>2
<1>7. SUFFICES Table' = [Table EXCEPT ![m % Count] = new]
  BY <1>5 DEF RR!Insert, RR!Place
<1>8. CASE slots[0] = Blank
  <2>1. k = 0
    BY <1>8, WriteIndexIsDistance
  <2>2. \A j \in Slots(Arc) : slots[j] = Blank
    BY <1>8 DEF IInv, RingAligned
  <2>3. slots'[0] = new
    BY <2>1, <1>4
  <2>4. Table = [r \in Slots(Arc) |-> Blank]
    BY <1>8 DEF Table
  <2>5. Table' = [r \in Slots(Arc) |-> slots'[(r - m) % Count]]
    <3>1. (Spp * m) \div Spp = m
      BY <1>1, <1>5, MultipleMod
    <3> QED
      BY <3>1, <2>3, <1>5 DEF Table, Arc, Slots
  <2>6. \A r \in Slots(Arc) :
           slots'[(r - m) % Count] = IF r = m % Count THEN new ELSE Blank
    <3>1. (m - m) % Count = 0
      <4>1. m - m = 0 /\ 0 \in 0 .. Count - 1
        BY <1>1, <1>5
      <4> QED
        BY <4>1, <1>1, ModSmall
    <3>2. TAKE r \in Slots(Arc)
    <3>3. /\ (r - m) % Count \in Slots(Arc)
          /\ (r - m) % Count = 0 <=> r = m % Count
      BY <3>1, <1>1, <1>5, <1>6
    <3> QED
      BY <3>3, <2>1, <2>2, <2>3, <1>4
  <2> QED
    BY <2>4, <2>5, <2>6
<1>9. CASE slots[0] # Blank
  <2>1. PICK n \in Nat \ {0} : slots[0].timestamp = Spp * n
    BY <1>9, <1>1, SlotTime DEF IInv
  <2>2. k = (m - n) % Count
    BY <2>1, WriteIndexIsDistance
  <2>3. Table = [r \in Slots(Arc) |-> slots[(r - n) % Count]]
    BY <2>1, <1>9, TableEntry
  <2>4. Table' = [r \in Slots(Arc) |-> slots'[(r - n) % Count]]
    <3>1. CASE k = 0
      <4>1. slots'[0] = new
        BY <3>1, <1>4
      <4>2. (Spp * m) \div Spp = m
        BY <1>1, <1>5, MultipleMod
      <4>3. Table' = [r \in Slots(Arc) |-> slots'[(r - m) % Count]]
        BY <4>1, <4>2, <1>5 DEF Table, Arc, Slots
      <4>4. \A r \in Slots(Arc) : (r - m) % Count = (r - n) % Count
        <5>1. PICK g \in Int : m - n = Count * g
          <6>1. m - n \in Int
            BY <1>5
          <6>2. /\ m - n = Count * ((m - n) \div Count) + ((m - n) % Count)
                /\ (m - n) \div Count \in Int
            BY <6>1, <1>1, DivMod
          <6>3. (m - n) % Count = 0
            BY <2>2, <3>1
          <6>4. PICK g \in Int : g = (m - n) \div Count
            BY <6>2
          <6>5. m - n = Count * g
            BY <6>2, <6>3, <6>4, <1>1
          <6> QED
            BY <6>5
        <5>2. TAKE r \in Slots(Arc)
        <5>3. r - n = Count * g + (r - m) /\ r - m \in Int
          BY <5>1, <1>1, <1>5
        <5>4. (Count * g + (r - m)) % Count = (r - m) % Count
          BY <5>3, <1>1, ModShift
        <5> QED
          BY <5>3, <5>4
      <4> QED
        BY <4>3, <4>4
    <3>2. CASE k # 0
      <4>1. slots'[0] = slots[0]
        BY <3>2, <1>1, <1>4
      <4>2. (Spp * n) \div Spp = n
        BY <1>1, MultipleMod
      <4> QED
        BY <4>1, <4>2, <2>1, <1>9 DEF Table, Arc, Slots
    <3> QED
      BY <3>1, <3>2
  <2>5. \A r \in Slots(Arc) :
           slots'[(r - n) % Count]
             = IF r = m % Count THEN new ELSE slots[(r - n) % Count]
    <3>1. TAKE r \in Slots(Arc)
    <3>2. /\ (r - n) % Count \in Slots(Arc)
          /\ (r - n) % Count = k <=> r = m % Count
      <4>1. r \in 0 .. Count - 1 /\ n \in Int
        BY <1>1, <2>1
      <4>2. /\ (r - n) % Count \in 0 .. Count - 1
            /\ (r - n) % Count = (m - n) % Count <=> r = m % Count
        BY <4>1, <1>6
      <4> QED
        BY <4>2, <2>2, <1>1
    <3> QED
      BY <3>2, <1>4
  <2> QED
    BY <2>3, <2>4, <2>5
<1> QED
  BY <1>8, <1>9

\* The archive implements the round-robin table: a write replaces the point that
\* shares its place, whole retentions away, and no other.
THEOREM ImplementsRoundRobin ==
    ASSUME ZeroedPoints, WrapsWhole
    PROVE  Spec => RefinesRoundRobin
<1>1. Init => IInv
  BY InitInv
<1>2. IInv /\ [Next]_slots => IInv'
  BY NextInv
<1>3. Init => RR!Init
  BY InitTable
<1>4. IInv /\ [Next]_slots => [RR!Next]_Table
  <2>1. SUFFICES ASSUME IInv, [Next]_slots
                 PROVE  [RR!Next]_Table
    OBVIOUS
  <2>2. CASE Next
    <3>1. PICK t \in Times, v \in Values : WritePoints(t, v)
      BY <2>2 DEF Next
    <3>2. RR!Insert(t, v)
      BY <3>1, <2>1, WriteInserts
    <3> QED
      BY <3>2 DEF RR!Next
  <2>3. CASE UNCHANGED slots
    BY <2>3 DEF Table
  <2> QED
    BY <2>1, <2>2, <2>3
<1> QED
  BY <1>1, <1>2, <1>3, <1>4, PTL DEF Spec, RefinesRoundRobin, RR!Spec

-----------------------------------------------------------------------------
(* Fetching.                                                               *)

\* The interval after the last one fetched still has a number that is an int.
LastTimeFits == (Word \div 2) - 1 \notin Times

\* A slot's timestamp is a number of intervals in the lower half of the word.
LEMMA SlotTimeLow ==
    ASSUME TypeOK, ZeroedPoints, NEW i \in Slots(Arc)
    PROVE  \E b \in Nat : /\ slots[i].timestamp = Spp * b
                          /\ Spp * b <= Word \div 2
<1>1. slots[i] \in {Blank} \cup {Point(t - (t % Spp), v) : t \in Times, v \in Values}
  BY DEF TypeOK, ZeroedPoints
<1>2. Spp \in Nat \ {0} /\ Word \div 2 \in Nat
  BY ArchiveAssumption, WordAssumption
<1>3. CASE slots[i] = Blank
  <2>1. slots[i].timestamp = Spp * 0 /\ Spp * 0 <= Word \div 2
    BY <1>2, <1>3 DEF Blank, Point
  <2> QED
    BY <2>1
<1>4. CASE \E t \in Times, v \in Values : slots[i] = Point(t - (t % Spp), v)
  <2>1. PICK t \in Times, v \in Values : slots[i] = Point(t - (t % Spp), v)
    BY <1>4
  <2>2. slots[i].timestamp = TimeFloor(t, Spp)
    BY <2>1, WrittenTime DEF Point
  <2>3. t \in Nat /\ t < Word \div 2
    BY <1>2, TimesAssumption
  <2>4. TimeFloor(t, Spp) <= t /\ TimeFloor(t, Spp) \in Nat
    BY <1>2, <2>3, TimeFloorFacts
  <2>5. t \div Spp \in Nat /\ TimeFloor(t, Spp) = Spp * (t \div Spp)
    BY WrittenTime
  <2>6. PICK b \in Nat : b = t \div Spp
    BY <2>5
  <2>7. slots[i].timestamp = Spp * b /\ Spp * b <= Word \div 2
    BY <1>2, <2>2, <2>3, <2>4, <2>5, <2>6
  <2> QED
    BY <2>7
<1> QED
  BY <1>1, <1>3, <1>4

\* Only one slot can hold the point of an interval.
LEMMA OnlySlot ==
    ASSUME IInv, ZeroedPoints, NEW b \in Nat, slots[0].timestamp = Spp * b,
           NEW j \in Nat \ {0}, NEW s \in Slots(Arc), slots[s].timestamp = Spp * j
    PROVE  (j - b) % Count = s
<1>1. /\ Spp \in Nat \ {0} /\ Count \in Nat \ {0}
      /\ s \in 0 .. Count - 1
  BY ArchiveAssumption DEF Arc, Slots
<1>2. Spp * j # 0
  BY <1>1
<1>3. slots[s] # Blank
  BY <1>2 DEF Blank, Point
<1>4. (Spp * j - Spp * b - s * Spp) % (Spp * Count) = 0
  BY <1>3 DEF IInv, RingAligned
<1>5. PICK q \in Int : Spp * j - Spp * b - s * Spp = (Spp * Count) * q
  <2>1. PICK a \in Int : a = Spp * j - Spp * b - s * Spp
    BY <1>1
  <2>2. a % (Spp * Count) = 0
    BY <2>1, <1>4
  <2>3. \E q \in Int : a = (Spp * Count) * q
    BY <2>2, AlignedByLaps
  <2> QED
    BY <2>1, <2>3
<1>6. j - b = Count * q + s
  <2>1. PICK y \in Int : y = j - b - s - Count * q
    BY <1>1
  <2>2. Spp * y = 0
    <3>1. Spp * (j - b - s) = Spp * j - Spp * b - s * Spp
      BY <1>1
    <3>2. Spp * (Count * q) = (Spp * Count) * q
      BY <1>1
    <3>3. Spp * (j - b - s - Count * q) = Spp * (j - b - s) - Spp * (Count * q)
      BY <1>1
    <3> QED
      BY <2>1, <3>1, <3>2, <3>3, <1>1, <1>5
  <2>3. y = 0
    BY <2>2, <1>1
  <2> QED
    BY <2>1, <2>3, <1>1
<1>7. (Count * q + s) % Count = s
  BY <1>1, DivModOf
<1> QED
  BY <1>6, <1>7

\* A fetch finds the point of every interval, in the slot it belongs in.
LEMMA FetchReturns ==
    ASSUME LastTimeFits, NEW ring,
           NEW b \in Nat, ring[0].timestamp = Spp * b, Spp * b <= Word \div 2,
           NEW from \in Times, NEW until \in Times, from <= until
    PROVE  FetchTimePoints(Arc, ring, from, until)
             = FoundFrom(Spp, Count, ring, b, from \div Spp,
                         Capped(until \div Spp - from \div Spp + 1, Count))
<1>1. Spp \in Nat \ {0} /\ Count \in Nat \ {0} /\ Arc.spp = Spp /\ Arc.count = Count
  BY ArchiveAssumption DEF Arc
<1>2. from \in Nat /\ until \in Nat /\ until + 1 < Word \div 2
  <2>1. Word \div 2 \in Nat
    BY WordAssumption
  <2>2. /\ from \in Nat /\ until \in Nat
        /\ until <= (Word \div 2) - 1
        /\ until # (Word \div 2) - 1
    BY <1>1, <2>1, TimesAssumption DEF LastTimeFits
  <2> QED
    BY <2>1, <2>2
<1> QED
  BY <1>1, <1>2, FetchTimeFinds

LEMMA InvFetchExact ==
    ASSUME IInv, ZeroedPoints, LastTimeFits
    PROVE  FetchExact
<1>1. /\ Spp \in Nat \ {0} /\ Count \in Nat \ {0}
      /\ Slots(Arc) = 0 .. Count - 1
      /\ 0 \in Slots(Arc)
  BY ArchiveAssumption DEF Arc, Slots
<1>2. PICK b \in Nat : slots[0].timestamp = Spp * b /\ Spp * b <= Word \div 2
  BY <1>1, SlotTimeLow DEF IInv
<1> DEFINE Got(from, until) == FetchTimePoints(Arc, slots, from, until)
           Wanted(from, until) == (until \div Spp) - (from \div Spp) + 1
           Time(from, i) == TimeFloor(from, Spp) + (i - 1) * Spp
           Held(t) == {s \in Slots(Arc) : slots[s].timestamp = t}
<1>3. ASSUME NEW from \in Times, NEW until \in Times, from <= until
      PROVE  /\ Len(Got(from, until)) = Capped(Wanted(from, until), Count)
             /\ \A i \in 1 .. Len(Got(from, until)) :
                  /\ Got(from, until)[i].timestamp = Time(from, i)
                  /\ IF Held(Time(from, i)) = {}
                     THEN Got(from, until)[i].value = NaN
                     ELSE \E s \in Held(Time(from, i)) :
                            Got(from, until)[i].value = slots[s].value
  <2>1. PICK F \in Nat \ {0} : F = from \div Spp /\ TimeFloor(from, Spp) = Spp * F
    BY WrittenTime
  <2>2. Wanted(from, until) \in Nat \ {0}
    <3>1. PICK U \in Nat : U = until \div Spp
      BY WrittenTime
    <3>2. from \in Nat /\ until \in Nat
      BY <1>1, TimesAssumption
    <3>3. F <= U
      BY <1>1, <1>3, <2>1, <3>1, <3>2, IntervalOrder
    <3> QED
      BY <2>1, <3>1, <3>3
  <2>3. PICK n \in Nat : n = Capped(Wanted(from, until), Count)
    BY <1>1, <2>2 DEF Capped
  <2>4. Got(from, until) = FoundFrom(Spp, Count, slots, b, F, n)
    BY <1>2, <1>3, <2>1, <2>3, FetchReturns
  <2>5. Len(Got(from, until)) = n
    BY <2>4 DEF FoundFrom
  <2>6. ASSUME NEW i \in 1 .. n
        PROVE  /\ Got(from, until)[i].timestamp = Time(from, i)
               /\ IF Held(Time(from, i)) = {}
                  THEN Got(from, until)[i].value = NaN
                  ELSE \E s \in Held(Time(from, i)) :
                         Got(from, until)[i].value = slots[s].value
    <3>1. PICK j \in Nat \ {0} : j = F + i - 1
      OBVIOUS
    <3>2. PICK t \in Nat : t = Spp * j
      BY <1>1
    <3>3. Time(from, i) = t
      BY <1>1, <2>1, <3>1, <3>2
    <3>4. PICK k \in Slots(Arc) : k = (j - b) % Count
      <4>1. (j - b) % Count \in 0 .. Count - 1
        <5>1. j - b \in Int
          OBVIOUS
        <5> QED
          BY <5>1, <1>1, DivMod
      <4> QED
        BY <4>1, <1>1
    <3>5. Got(from, until)[i]
            = IF slots[k].timestamp = t THEN slots[k] ELSE Point(t, NaN)
      <4>1. Got(from, until)[i] = Found(Spp, Count, slots, b, j)
        BY <2>4, <3>1 DEF FoundFrom
      <4> QED
        BY <4>1, <3>2, <3>4 DEF Found
    <3>6. \A s \in Held(t) : s = k
      <4>1. TAKE s \in Held(t)
      <4>2. s \in Slots(Arc) /\ slots[s].timestamp = Spp * j
        BY <3>2
      <4>3. (j - b) % Count = s
        BY <4>2, <1>2, OnlySlot
      <4> QED
        BY <4>3, <3>4
    <3>7. CASE slots[k].timestamp = t
      <4>1. k \in Held(t) /\ Got(from, until)[i] = slots[k]
        BY <3>5, <3>7
      <4> QED
        BY <4>1, <3>3, <3>7
    <3>8. CASE slots[k].timestamp # t
      <4>1. Held(t) = {}
        BY <3>6, <3>8
      <4>2. Got(from, until)[i] = Point(t, NaN)
        BY <3>5, <3>8
      <4> QED
        BY <4>1, <4>2, <3>3 DEF Point
    <3> QED
      BY <3>7, <3>8
  <2> QED
    BY <2>3, <2>5, <2>6
<1> QED
  BY <1>3 DEF FetchExact

\* The point just written is in the slot a fetch of its time reads.
LEMMA WriteReadsBack ==
    ASSUME IInv, ZeroedPoints, WrapsWhole, LastTimeFits,
           NEW t \in Times, NEW v \in Values, WritePoints(t, v)
    PROVE  ReadBackStep(t, v)
<1> DEFINE k == WriteIndex(Arc, slots[0], TimeFloor(t, Spp))
           new == Point(TimeFloor(t, Spp), v)
<1>1. /\ Spp \in Nat \ {0} /\ Count \in Nat \ {0}
      /\ Arc.spp = Spp /\ Arc.count = Count
      /\ Slots(Arc) = 0 .. Count - 1
      /\ 0 \in Slots(Arc)
  BY ArchiveAssumption DEF Arc, Slots
<1>2. PICK F \in Nat \ {0} :
         /\ F = t \div Spp
         /\ TimeFloor(t, Spp) = Spp * F
  BY WrittenTime
<1>3. t \in Nat /\ t + 1 < Word \div 2 /\ Spp * F <= Word \div 2
  <2>1. Word \div 2 \in Nat
    BY WordAssumption
  <2>2. t \in Nat /\ t <= (Word \div 2) - 1 /\ t # (Word \div 2) - 1
    BY <1>1, <2>1, TimesAssumption DEF LastTimeFits
  <2>3. TimeFloor(t, Spp) <= t
    BY <1>1, <2>2, TimeFloorFacts
  <2> QED
    BY <1>1, <1>2, <2>1, <2>2, <2>3
<1>4. /\ k \in Slots(Arc)
      /\ slots' = [slots EXCEPT ![k] = new]
      /\ slots'[k] = new
      /\ \A i \in Slots(Arc) : i # k => slots'[i] = slots[i]
  <2>1. k \in Slots(Arc)
    BY WriteIndexIsDistance
  <2>2. slots' = [slots EXCEPT ![k] = new]
    BY DEF WritePoints, WritePoint, Arc
  <2> QED
    BY <2>1, <2>2 DEF IInv, TypeOK
<1>5. PICK b \in Nat : /\ slots'[0].timestamp = Spp * b
                       /\ Spp * b <= Word \div 2
                       /\ (F - b) % Count = k
  <2>1. CASE k = 0
    <3>1. slots'[0].timestamp = Spp * F
      BY <2>1, <1>2, <1>4 DEF Point
    <3>2. (F - F) % Count = 0
      <4>1. F - F = 0 /\ 0 \in 0 .. Count - 1
        BY <1>1
      <4> QED
        BY <4>1, <1>1, ModSmall
    <3> QED
      BY <3>1, <3>2, <2>1, <1>3
  <2>2. CASE k # 0
    <3>1. slots'[0] = slots[0]
      BY <2>2, <1>1, <1>4
    <3>2. slots[0] # Blank
      BY <2>2, WriteIndexIsDistance
    <3>3. PICK n \in Nat \ {0} : slots[0].timestamp = Spp * n
      BY <3>2, <1>1, SlotTime DEF IInv
    <3>4. k = (F - n) % Count
      BY <3>3, <1>2, WriteIndexIsDistance
    <3>5. Spp * n <= Word \div 2
      BY <3>3, <1>1, SlotTimeLow DEF IInv
    <3> QED
      BY <3>1, <3>3, <3>4, <3>5
  <2> QED
    BY <2>1, <2>2
<1>6. PICK ring : ring = slots'
  OBVIOUS
<1>7. FetchTimePoints(Arc, ring, t, t)
        = FoundFrom(Spp, Count, ring, b, t \div Spp,
                    Capped(t \div Spp - t \div Spp + 1, Count))
  <2>1. t <= t /\ ring[0].timestamp = Spp * b
    BY <1>3, <1>5, <1>6
  <2> QED
    BY <2>1, <1>5, FetchReturns
<1>8. Capped(t \div Spp - t \div Spp + 1, Count) = 1
  <2>1. F - F + 1 = 1
    OBVIOUS
  <2>2. Capped(1, Count) = 1
    BY <1>1 DEF Capped
  <2> QED
    BY <2>1, <2>2, <1>2
<1>9. Found(Spp, Count, ring, b, F) = new
  BY <1>2, <1>4, <1>5, <1>6 DEF Found, Point
<1>10. FoundFrom(Spp, Count, ring, b, F, 1) = <<new>>
  <2>1. FoundFrom(Spp, Count, ring, b, F, 1)
          = [i \in 1 .. 1 |-> Found(Spp, Count, ring, b, F)]
    <3>1. \A i \in 1 .. 1 : F + i - 1 = F
      OBVIOUS
    <3> QED
      BY <3>1 DEF FoundFrom
  <2> QED
    BY <2>1, <1>9
<1>11. FetchTimePoints(Arc, slots', t, t) = <<new>>
  BY <1>2, <1>6, <1>7, <1>8, <1>10
<1> QED
  BY <1>11 DEF ReadBackStep, Arc

\* Whatever was written, in whatever order the hypotheses allow, a fetch returns
\* one point per interval asked for: the point some slot holds for that very
\* interval, and NaN when none does.
THEOREM FetchIsExact ==
    ASSUME ZeroedPoints, WrapsWhole, LastTimeFits
    PROVE  Spec => []FetchExact
<1>1. Init => IInv
  BY InitInv
<1>2. IInv /\ [Next]_slots => IInv'
  BY NextInv
<1>3. IInv => FetchExact
  BY InvFetchExact
<1> QED
  BY <1>1, <1>2, <1>3, PTL DEF Spec

\* A fetch of the time of a point just written returns that point, also when
\* writing it replaced the base that fetch starts from.
THEOREM WritesReadBack ==
    ASSUME ZeroedPoints, WrapsWhole, LastTimeFits
    PROVE  Spec => ReadBack
<1>1. Init => IInv
  BY InitInv
<1>2. IInv /\ [Next]_slots => IInv'
  BY NextInv
<1>3. IInv /\ [Next]_slots
        => [\A t \in Times, v \in Values : WritePoints(t, v) => ReadBackStep(t, v)]_slots
  BY WriteReadsBack
<1> QED
  BY <1>1, <1>2, <1>3, PTL DEF Spec, ReadBack
=============================================================================
