-------------------------- MODULE WspPointsProofs --------------------------
(***************************************************************************)
(* Facts about the arithmetic of WspPoints, for every value of Word and    *)
(* every archive: what floor, modulo and the unsigned slot computation     *)
(* return, what a store does to a ring and what a fetch finds in it.  The  *)
(* proofs about the components cite them by name.                          *)
(***************************************************************************)
EXTENDS WspPoints, SequenceTheorems, TLAPS

-----------------------------------------------------------------------------
(* Division with remainder.                                                *)

\* Quotient and remainder make up the number again.
LEMMA DivMod ==
    ASSUME NEW x \in Int, NEW d \in Nat \ {0}
    PROVE  /\ x \div d \in Int
           /\ x % d \in 0 .. d - 1
           /\ x = d * (x \div d) + (x % d)
OBVIOUS

\* Two divisions with remainder of the same number are the same.
LEMMA DivModUnique ==
    ASSUME NEW d \in Nat \ {0}, NEW p \in Int, NEW q \in Int,
           NEW r \in 0 .. d - 1, NEW s \in 0 .. d - 1,
           d * p + r = d * q + s
    PROVE  p = q /\ r = s
<1>1. d * (p - q) = s - r
  OBVIOUS
<1>2. CASE p > q
  <2>1. d * (p - q) >= d
    BY <1>2
  <2> QED
    BY <2>1, <1>1
<1>3. CASE p < q
  <2>1. d * (q - p) >= d
    BY <1>3
  <2>2. d * (q - p) = r - s
    BY <1>1
  <2> QED
    BY <2>1, <2>2
<1> QED
  BY <1>2, <1>3

\* The quotient and the remainder of a number given as d * q + r.
LEMMA DivModOf ==
    ASSUME NEW d \in Nat \ {0}, NEW q \in Int, NEW r \in 0 .. d - 1
    PROVE  (d * q + r) \div d = q /\ (d * q + r) % d = r
<1> DEFINE x == d * q + r
<1>1. x \in Int
  OBVIOUS
<1>2. /\ x = d * (x \div d) + (x % d)
      /\ x \div d \in Int
      /\ x % d \in 0 .. d - 1
  BY <1>1, DivMod
<1>3. d * (x \div d) + (x % d) = d * q + r
  BY <1>2
<1> QED
  BY <1>2, <1>3, DivModUnique

\* A multiple has remainder 0 and the quotient it was made with.
LEMMA MultipleMod ==
    ASSUME NEW d \in Nat \ {0}, NEW q \in Int
    PROVE  (d * q) % d = 0 /\ (d * q) \div d = q
<1>1. d * q = d * q + 0 /\ 0 \in 0 .. d - 1
  OBVIOUS
<1> QED
  BY <1>1, DivModOf

\* Adding a multiple of d changes the quotient but not the remainder.
LEMMA ModShift ==
    ASSUME NEW d \in Nat \ {0}, NEW x \in Int, NEW k \in Int
    PROVE  /\ (d * k + x) % d = x % d
           /\ (d * k + x) \div d = k + (x \div d)
<1>1. /\ x = d * (x \div d) + (x % d)
      /\ x \div d \in Int
      /\ x % d \in 0 .. d - 1
  BY DivMod
<1>2. d * k + x = d * (k + (x \div d)) + (x % d)
  BY <1>1
<1>3. k + (x \div d) \in Int
  BY <1>1
<1>4. /\ (d * (k + (x \div d)) + (x % d)) % d = x % d
      /\ (d * (k + (x \div d)) + (x % d)) \div d = k + (x \div d)
  BY <1>1, <1>3, DivModOf
<1> QED
  BY <1>2, <1>4

\* How far x is ahead of n on a ring of d places.
Ahead(x, n, d) == (x - n) % d

\* A number m and a remainder r are as far from n, modulo d, exactly when r is
\* the remainder of m.
LEMMA SameDistance ==
    ASSUME NEW d \in Nat \ {0}, NEW r \in 0 .. d - 1, NEW m \in Int, NEW n \in Int
    PROVE  /\ Ahead(r, n, d) = Ahead(m, n, d) => r = m % d
           /\ r = m % d => Ahead(r, n, d) = Ahead(m, n, d)
<1>1. PICK a \in Int, s \in 0 .. d - 1 : s = m % d /\ m = d * a + s
  BY DivMod
<1>2. (m - n) % d = (s - n) % d
  <2>1. m - n = d * a + (s - n) /\ s - n \in Int
    BY <1>1
  <2>2. (d * a + (s - n)) % d = (s - n) % d
    BY <2>1, ModShift
  <2> QED
    BY <2>1, <2>2
<1>3. ASSUME (r - n) % d = (s - n) % d
      PROVE  r = s
  <2>1. r - n \in Int /\ s - n \in Int
    OBVIOUS
  <2>2. /\ r - n = d * ((r - n) \div d) + ((r - n) % d)
        /\ (r - n) \div d \in Int
        /\ (r - n) % d \in 0 .. d - 1
    BY <2>1, DivMod
  <2>3. /\ s - n = d * ((s - n) \div d) + ((s - n) % d)
        /\ (s - n) \div d \in Int
        /\ (s - n) % d \in 0 .. d - 1
    BY <2>1, DivMod
  <2>4. PICK p \in Int, q \in Int :
           p = (r - n) \div d /\ q = (s - n) \div d
    BY <2>2, <2>3
  <2>5. r - s = d * p - d * q
    BY <2>2, <2>3, <2>4, <1>3
  <2>6. d * (p - q) + s = d * 0 + r /\ p - q \in Int /\ 0 \in Int
    BY <2>5
  <2> QED
    BY <2>6, DivModUnique
<1> QED
  BY <1>1, <1>2, <1>3 DEF Ahead

\* A number below d and not negative is its own remainder.
LEMMA ModSmall ==
    ASSUME NEW d \in Nat \ {0}, NEW x \in 0 .. d - 1
    PROVE  x % d = x
OBVIOUS

-----------------------------------------------------------------------------
(* wsp_time_floor.                                                         *)

\* A floored timestamp is the largest multiple of the interval not after it.
LEMMA TimeFloorFacts ==
    ASSUME NEW t \in Nat, NEW s \in Nat \ {0}
    PROVE  /\ TimeFloor(t, s) \in Nat
           /\ t \div s \in Nat
           /\ TimeFloor(t, s) = s * (t \div s)
           /\ TimeFloor(t, s) % s = 0
           /\ TimeFloor(t, s) \div s = t \div s
           /\ TimeFloor(t, s) <= t
           /\ t < TimeFloor(t, s) + s
           /\ t >= s => TimeFloor(t, s) >= s
<1>1. /\ t = s * (t \div s) + (t % s)
      /\ t \div s \in Int
      /\ t % s \in 0 .. s - 1
  BY DivMod
<1>2. TimeFloor(t, s) = s * (t \div s)
  BY <1>1 DEF TimeFloor
<1>3. t \div s \in Nat
  <2>1. SUFFICES ASSUME t \div s < 0 PROVE FALSE
    BY <1>1
  <2>2. s * (t \div s) <= s * (-1)
    BY <2>1, <1>1
  <2> QED
    BY <2>2, <1>1
<1>4. t >= s => s * (t \div s) >= s
  <2>1. SUFFICES ASSUME t >= s PROVE t \div s >= 1
    BY <1>1
  <2>2. SUFFICES ASSUME t \div s = 0 PROVE FALSE
    BY <1>3
  <2>3. s * (t \div s) = 0
    BY <2>2
  <2> QED
    BY <2>3, <2>1, <1>1
<1>5. /\ (s * (t \div s)) % s = 0
      /\ (s * (t \div s)) \div s = t \div s
  BY <1>1, MultipleMod
<1>6. s * (t \div s) \in Nat
  BY <1>3
<1> QED
  BY <1>1, <1>2, <1>3, <1>4, <1>5, <1>6

-----------------------------------------------------------------------------
(* wsp_point_index.                                                        *)

\* k intervals of S seconds, computed as an unsigned distance, are k slots
\* modulo the number C of points: always when k is not negative, and for a
\* negative one when Word is, in whole intervals, a whole number of laps.
LEMMA UnsignedDistance ==
    ASSUME NEW S \in Nat \ {0}, NEW C \in Nat \ {0}, NEW k \in Int,
           -Word < S * k, S * k < Word,
           k >= 0 \/ (Word \div S) % C = 0
    PROVE  (Wrap(S * k) \div S) % C = k % C
<1>1. Word \in Nat \ {0} /\ Word \in Int /\ S * k \in Int
  BY WordAssumption
<1>2. CASE k >= 0
  <2>1. S * k \in 0 .. Word - 1
    BY <1>1, <1>2
  <2>2. Wrap(S * k) = S * k
    BY <2>1, <1>1, ModSmall DEF Wrap
  <2>3. (S * k) \div S = k
    BY MultipleMod
  <2> QED
    BY <2>2, <2>3
<1>3. CASE k < 0 /\ (Word \div S) % C = 0
  <2>1. S * k < 0
    BY <1>3
  <2>2. S * k + Word \in 0 .. Word - 1
    BY <2>1, <1>1
  <2>3. S * k = Word * (-1) + (S * k + Word) /\ -1 \in Int
    BY <1>1
  <2>4. Wrap(S * k) = S * k + Word
    <3>1. (Word * (-1) + (S * k + Word)) % Word = S * k + Word
      BY <2>2, <2>3, <1>1, DivModOf
    <3> QED
      BY <2>3, <3>1 DEF Wrap
  <2>5. PICK W \in Int : W = Word \div S
    BY <1>1, DivMod
  <2>6. Word = S * W + (Word % S) /\ Word % S \in 0 .. S - 1
    BY <1>1, <2>5, DivMod
  <2>7. (S * k + Word) \div S = W + k
    <3>1. S * k + Word = S * (W + k) + (Word % S) /\ W + k \in Int
      BY <2>6
    <3>2. (S * (W + k) + (Word % S)) \div S = W + k
      BY <3>1, <2>6, DivModOf
    <3> QED
      BY <3>1, <3>2
  <2>8. PICK laps \in Int : W = C * laps
    <3>1. W % C = 0
      BY <1>3, <2>5
    <3>2. W = C * (W \div C) + (W % C) /\ W \div C \in Int
      BY DivMod
    <3> QED
      BY <3>1, <3>2
  <2>9. (W + k) % C = k % C
    BY <2>8, ModShift
  <2> QED
    BY <2>4, <2>7, <2>9
<1> QED
  BY <1>2, <1>3

\* The slot of a timestamp of m intervals, with a base of n intervals.
LEMMA PointIndexIsDistance ==
    ASSUME NEW arc, arc.spp \in Nat \ {0}, arc.count \in Nat \ {0},
           NEW base, NEW m \in Int, NEW n \in Int,
           base.timestamp = arc.spp * n, base.timestamp \in Timestamp,
           arc.spp * m \in Timestamp,
           m >= n \/ (Word \div arc.spp) % arc.count = 0
    PROVE  PointIndex(arc, base, arc.spp * m) = (m - n) % arc.count
<1>1. PICK S \in Nat \ {0}, C \in Nat \ {0} : S = arc.spp /\ C = arc.count
  OBVIOUS
<1>2. S * m \in 0 .. Word - 1 /\ S * n \in 0 .. Word - 1
  BY <1>1 DEF Timestamp
<1>3. /\ m - n \in Int
      /\ S * (m - n) = S * m - base.timestamp
      /\ m - n >= 0 \/ (Word \div S) % C = 0
  BY <1>1
<1>4. -Word < S * (m - n) /\ S * (m - n) < Word
  BY <1>1, <1>2, <1>3, WordAssumption
<1>5. (Wrap(S * (m - n)) \div S) % C = (m - n) % C
  BY <1>3, <1>4, UnsignedDistance
<1> QED
  BY <1>1, <1>3, <1>5 DEF PointIndex

-----------------------------------------------------------------------------
(* wsp_write_points and the base it goes by.                               *)

\* Every timestamp of a ring is a whole number of intervals, and slots without
\* one are blank.
WholeRing(arc, ring) ==
    /\ ring = [i \in Slots(arc) |-> ring[i]]
    /\ \A i \in Slots(arc) : ring[i].timestamp = 0 => ring[i] = Blank
    /\ \A i \in Slots(arc) : \E n \in Nat :
         ring[i].timestamp = arc.spp * n /\ arc.spp * n \in Timestamp

\* Every point is as far from the base as its slot says, modulo whole laps.
AlignedRing(arc, ring) ==
    \A i \in Slots(arc) :
        ring[i].timestamp # 0 =>
            /\ ring[0].timestamp # 0
            /\ (ring[i].timestamp - ring[0].timestamp - i * arc.spp)
                   % Retention(arc) = 0

\* A base that was loaded some time ago is still good for computing slots: the
\* present one is whole laps away, and there is none if there was none.
KnownBase(arc, ring, b) ==
    /\ \E n \in Nat : b = arc.spp * n /\ arc.spp * n \in Timestamp
    /\ b = 0 => ring[0].timestamp = 0
    /\ b # 0 => /\ ring[0].timestamp # 0
                /\ (ring[0].timestamp - b) % Retention(arc) = 0

\* Whoever has loaded a base from the ring before finds it good for the new one.
BasesKept(arc, ring, new) ==
    \A c : c # 0 /\ KnownBase(arc, ring, c) => KnownBase(arc, new, c)

\* Whole laps add up to whole laps.
LEMMA LapsAdd ==
    ASSUME NEW R \in Nat \ {0}, NEW x \in Int, NEW y \in Int,
           x % R = 0, y % R = 0
    PROVE  (x + y) % R = 0 /\ (x - y) % R = 0
<1>1. PICK p \in Int : x = R * p
  <2>1. x = R * (x \div R) + (x % R) /\ x \div R \in Int
    BY DivMod
  <2>2. PICK p \in Int : p = x \div R
    BY <2>1
  <2>3. x = R * p
    BY <2>1, <2>2
  <2> QED
    BY <2>3
<1>2. PICK q \in Int : y = R * q
  <2>1. y = R * (y \div R) + (y % R) /\ y \div R \in Int
    BY DivMod
  <2>2. PICK q \in Int : q = y \div R
    BY <2>1
  <2>3. y = R * q
    BY <2>1, <2>2
  <2> QED
    BY <2>3
<1>3. x + y = R * (p + q) /\ x - y = R * (p - q) /\ p + q \in Int /\ p - q \in Int
  BY <1>1, <1>2
<1>4. (R * (p + q)) % R = 0 /\ (R * (p - q)) % R = 0
  BY <1>3, MultipleMod
<1> QED
  BY <1>3, <1>4

\* The slot wsp_write_points computes from such a base.
LEMMA SlotOfKnownBase ==
    ASSUME NEW arc, arc.spp \in Nat \ {0}, arc.count \in Nat \ {0},
           (Word \div arc.spp) % arc.count = 0,
           NEW ring, NEW b, KnownBase(arc, ring, b),
           NEW m \in Nat \ {0}, arc.spp * m \in Timestamp
    PROVE  LET k == WriteIndex(arc, Point(b, 0), arc.spp * m)
           IN  /\ k \in Slots(arc)
               /\ b = 0 => k = 0
               /\ b # 0 => (arc.spp * m - b - k * arc.spp) % Retention(arc) = 0
<1> DEFINE k == WriteIndex(arc, Point(b, 0), arc.spp * m)
<1>1. PICK S \in Nat \ {0}, C \in Nat \ {0} : S = arc.spp /\ C = arc.count
  OBVIOUS
<1>2. Retention(arc) = S * C /\ Slots(arc) = 0 .. C - 1 /\ S * C \in Nat \ {0}
  BY <1>1 DEF Retention, Slots
<1>3. CASE b = 0
  <2>1. k = 0
    BY <1>3 DEF WriteIndex, Point
  <2> QED
    BY <2>1, <1>2, <1>3
<1>4. CASE b # 0
  <2>1. PICK n \in Nat : b = S * n /\ S * n \in Timestamp
    BY <1>1 DEF KnownBase
  <2>2. k = PointIndex(arc, Point(b, 0), arc.spp * m)
    BY <1>4 DEF WriteIndex, Point
  <2>3. /\ Point(b, 0).timestamp = arc.spp * n
        /\ Point(b, 0).timestamp \in Timestamp
        /\ m \in Int /\ n \in Int
    BY <2>1, <1>1 DEF Point
  <2>4. PointIndex(arc, Point(b, 0), arc.spp * m) = (m - n) % arc.count
    BY <2>3, <1>1, PointIndexIsDistance
  <2>5. m - n \in Int
    BY <2>3
  <2>6. /\ m - n = C * ((m - n) \div C) + ((m - n) % C)
        /\ (m - n) \div C \in Int
        /\ (m - n) % C \in 0 .. C - 1
    BY <2>5, DivMod
  <2>7. k = (m - n) % C /\ k \in 0 .. C - 1
    BY <2>2, <2>4, <2>6, <1>1
  <2>8. PICK g \in Int : m - n = C * g + k
    BY <2>6, <2>7
  <2>9. S * m - S * n - k * S = (S * C) * g
    <3> HIDE DEF k
    <3>1. S * (m - n) = S * (C * g + k)
      BY <2>8
    <3>2. k \in Int
      BY <2>7
    <3>3. S * (m - n) = S * m - S * n
      BY <2>3
    <3>4. S * (C * g + k) = (S * C) * g + k * S
      BY <3>2
    <3>5. S * m \in Int /\ S * n \in Int /\ k * S \in Int /\ (S * C) * g \in Int
      BY <3>2, <2>3
    <3> QED
      BY <3>1, <3>3, <3>4, <3>5
  <2>10. ((S * C) * g) % (S * C) = 0
    BY <1>2, MultipleMod
  <2> QED
    BY <2>1, <2>7, <2>9, <2>10, <1>1, <1>2, <1>4
<1> QED
  BY <1>3, <1>4

\* Storing a point at the slot computed from such a base, which may become the new
\* base, keeps the ring aligned, and every base anybody else has loaded good.
LEMMA StoreKeepsAligned ==
    ASSUME NEW arc, arc.spp \in Nat \ {0}, arc.count \in Nat \ {0},
           (Word \div arc.spp) % arc.count = 0,
           NEW ring, WholeRing(arc, ring), AlignedRing(arc, ring),
           NEW b, KnownBase(arc, ring, b),
           NEW m \in Nat \ {0}, arc.spp * m \in Timestamp, NEW v,
           NEW new,
           new = [ring EXCEPT ![WriteIndex(arc, Point(b, 0), arc.spp * m)] =
                      Point(arc.spp * m, v)]
    PROVE  /\ WholeRing(arc, new)
           /\ AlignedRing(arc, new)
           /\ new[0].timestamp # 0
           /\ BasesKept(arc, ring, new)
<1> DEFINE k == WriteIndex(arc, Point(b, 0), arc.spp * m)
           T == arc.spp * m
           R == Retention(arc)
           S == arc.spp
           D(x) == x % R = 0
<1>1. /\ k \in Slots(arc)
      /\ b = 0 => k = 0
      /\ b # 0 => D(T - b - k * S)
  BY SlotOfKnownBase
<1>2. /\ 0 \in Slots(arc) /\ R \in Nat \ {0}
      /\ \A i \in Slots(arc) : i * S \in Int
      /\ T \in Int /\ T # 0
  BY DEF Slots, Retention
<1>3. /\ new[k] = Point(T, v) /\ new[k].timestamp = T
      /\ \A i \in Slots(arc) : i # k => new[i] = ring[i]
  BY <1>1 DEF WholeRing, Point
<1>4. /\ \A i \in Slots(arc) : ring[i].timestamp \in Int
      /\ b \in Int
      /\ \A c : KnownBase(arc, ring, c) => c \in Int
  BY DEF WholeRing, KnownBase
<1> HIDE DEF k, T, R, S
<1>5. WholeRing(arc, new)
  <2>1. new = [i \in Slots(arc) |-> new[i]]
    BY <1>1 DEF WholeRing, k
  <2>2. ASSUME NEW i \in Slots(arc)
        PROVE  \E n \in Nat : new[i].timestamp = arc.spp * n /\ arc.spp * n \in Timestamp
    <3>1. CASE i = k
      BY <3>1, <1>3 DEF T
    <3>2. CASE i # k
      BY <3>2, <1>3 DEF WholeRing
    <3> QED
      BY <3>1, <3>2
  <2>3. ASSUME NEW i \in Slots(arc), new[i].timestamp = 0
        PROVE  new[i] = Blank
    <3>1. CASE i = k
      BY <3>1, <2>3, <1>2, <1>3
    <3>2. CASE i # k
      BY <3>2, <2>3, <1>3 DEF WholeRing
    <3> QED
      BY <3>1, <3>2
  <2> QED
    BY <2>1, <2>2, <2>3 DEF WholeRing
<1>6. new[0].timestamp # 0
  <2>1. CASE k = 0
    BY <2>1, <1>2, <1>3
  <2>2. CASE k # 0
    <3>1. ring[0].timestamp # 0
      BY <2>2, <1>1 DEF KnownBase
    <3> QED
      BY <3>1, <2>2, <1>2, <1>3
  <2> QED
    BY <2>1, <2>2
<1>7. CASE b = 0
  <2>1. k = 0 /\ \A i \in Slots(arc) : ring[i].timestamp = 0
    BY <1>1, <1>7 DEF KnownBase, AlignedRing
  <2>2. ASSUME NEW i \in Slots(arc), new[i].timestamp # 0
        PROVE  D(new[i].timestamp - new[0].timestamp - i * S)
    <3>1. i = 0
      BY <2>1, <2>2, <1>3
    <3>2. new[i].timestamp - new[0].timestamp - i * S = 0
      BY <3>1, <2>1, <1>2, <1>3 DEF S
    <3>3. 0 \in 0 .. R - 1
      BY <1>2
    <3> QED
      BY <3>2, <3>3, <1>2, ModSmall
  <2>3. AlignedRing(arc, new)
    BY <2>2, <1>6 DEF AlignedRing, S, R
  <2>4. BasesKept(arc, ring, new)
    BY <2>1, <1>2 DEF BasesKept, KnownBase
  <2> QED
    BY <2>3, <2>4, <1>5, <1>6
<1>8. CASE b # 0
  <2>1. PICK c \in Int : c = ring[0].timestamp
    BY <1>2, <1>4
  <2>2. c # 0 /\ D(c - b) /\ D(T - b - k * S) /\ k * S \in Int
    BY <2>1, <1>1, <1>2, <1>8 DEF KnownBase, R
  <2>3. D(T - c - k * S)
    <3>1. T - b - k * S \in Int /\ c - b \in Int
      BY <2>2, <1>2, <1>4
    <3>2. D((T - b - k * S) - (c - b))
      BY <3>1, <2>2, <1>2, LapsAdd
    <3>3. (T - b - k * S) - (c - b) = T - c - k * S
      BY <2>2, <1>2, <1>4
    <3> QED
      BY <3>2, <3>3
  <2>4. ASSUME NEW i \in Slots(arc), new[i].timestamp # 0
        PROVE  D(new[i].timestamp - new[0].timestamp - i * S)
    <3>1. CASE k # 0 /\ i = k
      <4>1. new[i].timestamp = T /\ new[0].timestamp = c
        BY <3>1, <2>1, <1>2, <1>3
      <4> QED
        BY <4>1, <3>1, <2>3
    <3>2. CASE k # 0 /\ i # k
      <4>1. new[i].timestamp = ring[i].timestamp /\ new[0].timestamp = ring[0].timestamp
        BY <3>2, <1>2, <1>3
      <4> QED
        BY <4>1, <2>4 DEF AlignedRing, R, S
    <3>3. CASE k = 0 /\ i = k
      <4>1. new[i].timestamp - new[0].timestamp - i * S = 0
        BY <3>3, <1>2, <1>3 DEF S
      <4>2. 0 \in 0 .. R - 1
        BY <1>2
      <4> QED
        BY <4>1, <4>2, <1>2, ModSmall
    <3>4. CASE k = 0 /\ i # k
      <4>1. PICK t \in Int, d \in Int : t = ring[i].timestamp /\ d = i * S
        BY <1>2, <1>4
      <4>2. new[i].timestamp = t /\ new[0].timestamp = T
        BY <4>1, <3>4, <1>3
      <4>3. D(t - c - d)
        BY <4>1, <4>2, <2>1, <2>4 DEF AlignedRing, R, S
      <4>4. D(T - c)
        <5>1. k * S = 0
          BY <3>4 DEF S
        <5>2. T - c - k * S = T - c
          BY <5>1, <1>2
        <5> QED
          BY <5>2, <2>3
      <4>5. t - c - d \in Int /\ T - c \in Int
        BY <1>2
      <4>6. D((t - c - d) - (T - c))
        BY <4>3, <4>4, <4>5, <1>2, LapsAdd
      <4>7. (t - c - d) - (T - c) = t - T - d
        BY <1>2
      <4> QED
        BY <4>1, <4>2, <4>6, <4>7
    <3> QED
      BY <3>1, <3>2, <3>3, <3>4
  <2>5. AlignedRing(arc, new)
    BY <2>4, <1>6 DEF AlignedRing, S, R
  <2>6. ASSUME NEW x, x # 0, KnownBase(arc, ring, x)
        PROVE  KnownBase(arc, new, x)
    <3>1. x \in Int /\ D(c - x)
      BY <2>1, <2>6, <1>4 DEF KnownBase, R
    <3>2. D(new[0].timestamp - x)
      <4>1. CASE k # 0
        BY <4>1, <3>1, <2>1, <1>2, <1>3
      <4>2. CASE k = 0
        <5>1. k * S = 0
          BY <4>2 DEF S
        <5>2. T - c - k * S = T - c
          BY <5>1, <1>2
        <5>3. D(T - c) /\ T - c \in Int /\ c - x \in Int
          BY <5>2, <2>3, <3>1, <1>2
        <5>4. D((T - c) + (c - x))
          BY <5>3, <3>1, <1>2, LapsAdd
        <5>5. (T - c) + (c - x) = T - x
          BY <3>1, <1>2
        <5> QED
          BY <5>4, <5>5, <4>2, <1>3
      <4> QED
        BY <4>1, <4>2
    <3> QED
      BY <3>2, <2>6, <1>6 DEF KnownBase, R
  <2> QED
    BY <2>5, <2>6, <1>5, <1>6 DEF BasesKept
<1> QED
  BY <1>7, <1>8

-----------------------------------------------------------------------------
(* A ring as a round-robin table.                                          *)

\* The points by the residue of their time: the ring turned by its base.
RingTable(arc, ring) ==
    [r \in Slots(arc) |->
        IF ring[0].timestamp = 0 THEN Blank
        ELSE ring[(r - ring[0].timestamp \div arc.spp) % arc.count]]

\* Bases that are whole laps apart turn the ring by the same number of slots.
SamePlaces(C, m, n) == \A r \in Int : Ahead(r, m, C) = Ahead(r, n, C)

LEMMA SameTurn ==
    ASSUME NEW S \in Nat \ {0}, NEW C \in Nat \ {0}, NEW m \in Int, NEW n \in Int,
           (S * m - S * n) % (S * C) = 0
    PROVE  SamePlaces(C, m, n)
<1>1. S * C \in Nat \ {0} /\ S * m - S * n \in Int
  OBVIOUS
<1>2. /\ S * m - S * n
            = (S * C) * ((S * m - S * n) \div (S * C)) + ((S * m - S * n) % (S * C))
      /\ (S * m - S * n) \div (S * C) \in Int
  BY <1>1, DivMod
<1>3. PICK q \in Int : q = (S * m - S * n) \div (S * C)
  BY <1>2
<1>4. S * m - S * n = (S * C) * q
  BY <1>1, <1>2, <1>3
<1>5. PICK d \in Int : d = m - n - C * q
  OBVIOUS
<1>6. S * d = 0
  <2>1. S * (m - n - C * q) = S * m - S * n - (S * C) * q
    OBVIOUS
  <2>2. (S * C) * q \in Int
    OBVIOUS
  <2> QED
    BY <2>1, <2>2, <1>1, <1>4, <1>5
<1>7. d = 0
  <2>1. CASE d > 0
    <3>1. S * d >= S
      BY <2>1
    <3> QED
      BY <3>1, <1>6
  <2>2. CASE d < 0
    <3>1. S * (-d) >= S
      BY <2>2
    <3>2. S * (-d) = -(S * d)
      OBVIOUS
    <3> QED
      BY <3>1, <3>2, <1>6
  <2> QED
    BY <2>1, <2>2
<1>8. m = n + C * q
  BY <1>5, <1>7
<1>9. SUFFICES ASSUME NEW r \in Int PROVE Ahead(r, m, C) = Ahead(r, n, C)
  BY DEF SamePlaces
<1>10. r - n = C * q + (r - m) /\ r - m \in Int
  BY <1>8
<1>11. (C * q + (r - m)) % C = (r - m) % C
  BY <1>10, ModShift
<1> QED
  BY <1>10, <1>11 DEF Ahead

\* A slot and a number are as far from a base exactly when the slot is the residue
\* of the number.
LEMMA SlotOfResidue ==
    ASSUME NEW C \in Nat \ {0}, NEW r \in 0 .. C - 1, NEW m \in Int, NEW n \in Int
    PROVE  /\ Ahead(r, n, C) \in 0 .. C - 1
           /\ Ahead(r, n, C) = Ahead(m, n, C) => r = m % C
           /\ r = m % C => Ahead(r, n, C) = Ahead(m, n, C)
<1>1. r - n \in Int
  OBVIOUS
<1>2. Ahead(r, n, C) \in 0 .. C - 1
  BY <1>1, DivMod DEF Ahead
<1>3. Ahead(r, n, C) = Ahead(m, n, C) => r = m % C
  BY SameDistance
<1>4. r = m % C => Ahead(r, n, C) = Ahead(m, n, C)
  BY SameDistance
<1> QED
  BY <1>2, <1>3, <1>4

\* Storing a point at the slot computed from a base that may be old replaces the
\* entry of the point's own residue and no other.
Inserted(arc, ring, new, r, p) ==
    RingTable(arc, new) = [RingTable(arc, ring) EXCEPT ![r] = p]

LEMMA StoreInserts ==
    ASSUME NEW arc, arc.spp \in Nat \ {0}, arc.count \in Nat \ {0},
           (Word \div arc.spp) % arc.count = 0,
           NEW ring, WholeRing(arc, ring), AlignedRing(arc, ring),
           NEW b, KnownBase(arc, ring, b),
           NEW m \in Nat \ {0}, arc.spp * m \in Timestamp, NEW v,
           NEW new,
           new = [ring EXCEPT ![WriteIndex(arc, Point(b, 0), arc.spp * m)] =
                      Point(arc.spp * m, v)],
           NEW place, place = m % arc.count
    PROVE  Inserted(arc, ring, new, place, Point(arc.spp * m, v))
<1> DEFINE k == WriteIndex(arc, Point(b, 0), arc.spp * m)
           p == Point(arc.spp * m, v)
<1>1. PICK S \in Nat \ {0}, C \in Nat \ {0} : S = arc.spp /\ C = arc.count
  OBVIOUS
<1>2. /\ Slots(arc) = 0 .. C - 1 /\ 0 \in Slots(arc) /\ Retention(arc) = S * C
      /\ S * m \in Int /\ S * m # 0 /\ m \in Int /\ m % C \in 0 .. C - 1
  <2>1. m \in Int
    OBVIOUS
  <2>2. m % C \in 0 .. C - 1
    BY <2>1, DivMod
  <2>3. S * m # 0 /\ S * m \in Int
    OBVIOUS
  <2> QED
    BY <1>1, <2>1, <2>2, <2>3 DEF Slots, Retention
<1>3. /\ k \in Slots(arc)
      /\ b = 0 => k = 0
  BY SlotOfKnownBase
<1>4. /\ new[k] = p /\ p.timestamp = S * m
      /\ \A i \in Slots(arc) : i # k => new[i] = ring[i]
  BY <1>1, <1>3 DEF WholeRing, Point
<1>5. (S * m) \div S = m
  BY <1>2, MultipleMod
<1> HIDE DEF k, p
<1>6. SUFFICES ASSUME NEW r \in Slots(arc)
               PROVE  RingTable(arc, new)[r]
                        = IF r = m % C THEN p ELSE RingTable(arc, ring)[r]
  BY <1>1, <1>2 DEF Inserted, RingTable, p
<1>7. CASE b = 0
  <2>1. k = 0 /\ \A i \in Slots(arc) : ring[i].timestamp = 0 /\ ring[i] = Blank
    BY <1>2, <1>3, <1>7 DEF KnownBase, AlignedRing, WholeRing
  <2>2. RingTable(arc, ring)[r] = Blank
    BY <2>1, <1>2 DEF RingTable
  <2>3. RingTable(arc, new)[r] = new[Ahead(r, m, C)]
    BY <2>1, <1>1, <1>2, <1>4, <1>5 DEF RingTable, Ahead
  <2>4. /\ Ahead(r, m, C) \in 0 .. C - 1
        /\ Ahead(r, m, C) = Ahead(m, m, C) => r = m % C
        /\ r = m % C => Ahead(r, m, C) = Ahead(m, m, C)
    BY <1>2, SlotOfResidue
  <2>5. Ahead(m, m, C) = 0
    <3>1. m - m = 0 /\ 0 \in 0 .. C - 1
      BY <1>2
    <3>2. 0 % C = 0
      BY <3>1, ModSmall
    <3> QED
      BY <3>1, <3>2 DEF Ahead
  <2> QED
    BY <2>1, <2>2, <2>3, <2>4, <2>5, <1>2, <1>4
<1>8. CASE b # 0
  <2>1. PICK n \in Nat : b = S * n /\ S * n \in Timestamp
    BY <1>1 DEF KnownBase
  <2>2. PICK o \in Nat : ring[0].timestamp = S * o
    BY <1>1, <1>2 DEF WholeRing
  <2>3. ring[0].timestamp # 0 /\ (S * o - S * n) % (S * C) = 0
    BY <2>1, <2>2, <1>2, <1>8 DEF KnownBase
  <2>4. SamePlaces(C, o, n)
    <3>1. o \in Int /\ n \in Int
      BY <2>1, <2>2
    <3> QED
      BY <3>1, <2>3, SameTurn
  <2>5. k = Ahead(m, n, C)
    <3>1. /\ Point(b, 0).timestamp = arc.spp * n
          /\ Point(b, 0).timestamp \in Timestamp
          /\ m \in Int /\ n \in Int
      BY <2>1, <1>1, <1>2 DEF Point
    <3>2. PointIndex(arc, Point(b, 0), arc.spp * m) = (m - n) % arc.count
      BY <3>1, <1>1, PointIndexIsDistance
    <3> QED
      BY <3>2, <1>1, <1>8 DEF k, WriteIndex, Point, Ahead
  <2>6. r \in Int /\ r \in 0 .. C - 1 /\ n \in Int
    BY <1>2
  <2>7. /\ Ahead(r, n, C) \in 0 .. C - 1
        /\ Ahead(r, n, C) = Ahead(m, n, C) => r = m % C
        /\ r = m % C => Ahead(r, n, C) = Ahead(m, n, C)
    BY <2>6, <1>2, SlotOfResidue
  <2>8. RingTable(arc, ring)[r] = ring[Ahead(r, n, C)]
    <3>1. (S * o) \div S = o
      BY <2>2, MultipleMod
    <3>2. RingTable(arc, ring)[r] = ring[Ahead(r, o, C)]
      BY <3>1, <2>2, <2>3, <1>1 DEF RingTable, Ahead
    <3> QED
      BY <3>2, <2>4, <2>6 DEF SamePlaces
  <2>9. RingTable(arc, new)[r] = new[Ahead(r, n, C)]
    <3>1. CASE k = 0
      <4>1. RingTable(arc, new)[r] = new[Ahead(r, m, C)]
        BY <3>1, <1>1, <1>2, <1>4, <1>5 DEF RingTable, Ahead
      <4>2. (S * m - S * n) % (S * C) = 0
        <5>1. (S * m - b - k * S) % (S * C) = 0
          BY <1>1, <1>2, <1>8, SlotOfKnownBase DEF k
        <5>2. S * m - b - k * S = S * m - S * n
          BY <3>1, <2>1, <1>2
        <5> QED
          BY <5>1, <5>2
      <4>3. SamePlaces(C, m, n)
        BY <4>2, <2>6, <1>2, SameTurn
      <4> QED
        BY <4>1, <4>3, <2>6 DEF SamePlaces
    <3>2. CASE k # 0
      <4>1. new[0].timestamp = S * o /\ new[0].timestamp # 0
        BY <3>2, <2>2, <2>3, <1>2, <1>4
      <4>2. (S * o) \div S = o
        BY <2>2, MultipleMod
      <4>3. RingTable(arc, new)[r] = new[Ahead(r, o, C)]
        BY <4>1, <4>2, <1>1 DEF RingTable, Ahead
      <4> QED
        BY <4>3, <2>4, <2>6 DEF SamePlaces
    <3> QED
      BY <3>1, <3>2
  <2> QED
    BY <2>5, <2>7, <2>8, <2>9, <1>2, <1>4
<1> QED
  BY <1>7, <1>8

-----------------------------------------------------------------------------
(* What a fetch returns: the one or two loads of __wsp_fetch_read_points   *)
(* put together, and the points __wsp_filter_points lets through.          *)

\* A piece of a sequence of points taken from a ring of C slots, from slot f on.
Turned(C, ring, f, n) == [i \in 1 .. n |-> ring[(f + i - 1) % C]]

PointsOf(C, ring) == {ring[k] : k \in 0 .. C - 1}

\* s holds the n points of the slots from o on.
Loaded(C, s, ring, o, n) ==
    /\ s \in Seq(PointsOf(C, ring))
    /\ Len(s) = n
    /\ \A i \in 1 .. n : s[i] = ring[o + i - 1]

LEMMA LoadedPoints ==
    ASSUME NEW C \in Nat \ {0}, NEW ring, NEW o \in Nat, NEW n \in Nat, o + n <= C
    PROVE  Loaded(C, LoadPoints(ring, o, n), ring, o, n)
<1> DEFINE s == LoadPoints(ring, o, n)
<1>1. s = [i \in 1 .. n |-> ring[o + i - 1]]
  BY DEF LoadPoints
<1>2. s \in [1 .. n -> PointsOf(C, ring)]
  <2>1. \A i \in 1 .. n : ring[o + i - 1] \in PointsOf(C, ring)
    <3>1. \A i \in 1 .. n : o + i - 1 \in 0 .. C - 1
      OBVIOUS
    <3> QED
      BY <3>1 DEF PointsOf
  <2> QED
    BY <1>1, <2>1
<1>3. s \in Seq(PointsOf(C, ring))
  BY <1>2, SeqDef
<1>4. Len(s) = n
  BY <1>2, <1>3, LenProperties
<1> QED
  BY <1>1, <1>3, <1>4 DEF Loaded

\* Every index is in the first lap or the second.
InLap(x, C) == x % C = IF x < C THEN x ELSE x - C

LEMMA SecondLap ==
    ASSUME NEW C \in Nat \ {0}, NEW x \in 0 .. 2 * C - 1
    PROVE  InLap(x, C)
<1>1. CASE x < C
  <2>1. x \in 0 .. C - 1
    BY <1>1
  <2>2. x % C = x
    BY <2>1, ModSmall
  <2> QED
    BY <2>2, <1>1 DEF InLap
<1>2. CASE x >= C
  <2>1. x = C * 1 + (x - C) /\ x - C \in 0 .. C - 1
    BY <1>2
  <2>2. PICK y \in 0 .. C - 1 : y = x - C
    BY <2>1
  <2>3. (C * 1 + y) % C = y
    BY DivModOf
  <2>4. x % C = x - C
    BY <2>1, <2>2, <2>3
  <2> QED
    BY <2>4, <1>2 DEF InLap
<1> QED
  BY <1>1, <1>2

\* One load or two: the points are those from slot f on, around the end.
LEMMA ReadTurns ==
    ASSUME NEW arc, NEW C \in Nat \ {0}, arc.count = C, NEW ring,
           NEW f \in 0 .. C - 1, NEW n \in 1 .. C, NEW u, u = (f + n) % C
    PROVE  FetchReadPoints(arc, ring, f, u, n) = Turned(C, ring, f, n)
<1> DEFINE got == FetchReadPoints(arc, ring, f, u, n)
           S == PointsOf(C, ring)
<1>1. u = IF f + n < C THEN f + n ELSE f + n - C
  <2>1. PICK x \in 0 .. 2 * C - 1 : x = f + n
    OBVIOUS
  <2>2. InLap(x, C)
    BY SecondLap
  <2> QED
    BY <2>1, <2>2 DEF InLap
<1>2. \A i \in 1 .. n : InLap(f + i - 1, C)
  <2>1. ASSUME NEW i \in 1 .. n
        PROVE  InLap(f + i - 1, C)
    <3>1. PICK x \in 0 .. 2 * C - 1 : x = f + i - 1
      OBVIOUS
    <3>2. InLap(x, C)
      BY SecondLap
    <3> QED
      BY <3>1, <3>2
  <2> QED
    BY <2>1
<1>3. /\ got \in Seq(S) /\ Len(got) = n
      /\ \A i \in 1 .. n : got[i] = ring[(f + i - 1) % C]
  <2>1. CASE f # 0 /\ u <= f
    <3>1. f + n >= C /\ u = f + n - C
      BY <1>1, <2>1
    <3>2. PICK h \in Nat, w \in Nat : h = C - f /\ w = u
      <4>1. C - f \in Nat /\ u \in Nat
        BY <3>1
      <4> QED
        BY <4>1
    <3> DEFINE s == LoadPoints(ring, f, h)
               t == LoadPoints(ring, 0, w)
    <3>3. got = s \o t
      BY <2>1, <3>2 DEF FetchReadPoints
    <3>4. Loaded(C, s, ring, f, h)
      <4>1. f \in Nat /\ f + h <= C
        BY <3>2
      <4> QED
        BY <4>1, LoadedPoints
    <3>5. Loaded(C, t, ring, 0, w)
      <4>1. 0 \in Nat /\ 0 + w <= C
        BY <3>1, <3>2
      <4> QED
        BY <4>1, LoadedPoints
    <3> HIDE DEF s, t
    <3>6. /\ s \in Seq(S) /\ Len(s) = h
          /\ \A i \in 1 .. h : s[i] = ring[f + i - 1]
      BY <3>4 DEF Loaded
    <3>7. /\ t \in Seq(S) /\ Len(t) = w
          /\ \A i \in 1 .. w : t[i] = ring[0 + i - 1]
      BY <3>5 DEF Loaded
    <3> HIDE DEF S
    <3>8. /\ s \o t \in Seq(S)
          /\ Len(s \o t) = Len(s) + Len(t)
          /\ \A i \in 1 .. Len(s) + Len(t) :
               (s \o t)[i] = IF i <= Len(s) THEN s[i] ELSE t[i - Len(s)]
      BY <3>6, <3>7, ConcatProperties
    <3>9. h + w = n
      BY <3>1, <3>2
    <3>10. ASSUME NEW i \in 1 .. n PROVE got[i] = ring[(f + i - 1) % C]
      <4>0. got[i] = IF i <= h THEN s[i] ELSE t[i - h]
        BY <3>3, <3>6, <3>7, <3>8, <3>9
      <4>1. CASE i <= h
        <5>1. got[i] = ring[f + i - 1]
          BY <4>0, <4>1, <3>6
        <5>2. (f + i - 1) % C = f + i - 1
          BY <4>1, <3>2, <1>2 DEF InLap
        <5> QED
          BY <5>1, <5>2
      <4>2. CASE i > h
        <5>1. i - h \in 1 .. w /\ 0 + (i - h) - 1 = f + i - 1 - C
          BY <4>2, <3>1, <3>2, <3>9
        <5>2. got[i] = t[i - h]
          BY <4>0, <4>2
        <5>3. t[i - h] = ring[0 + (i - h) - 1]
          BY <5>1, <3>7
        <5>4. (f + i - 1) % C = f + i - 1 - C
          BY <4>2, <3>2, <1>2 DEF InLap
        <5> QED
          BY <5>1, <5>2, <5>3, <5>4
      <4> QED
        BY <4>1, <4>2
    <3> QED
      BY <3>3, <3>6, <3>7, <3>8, <3>9, <3>10
  <2>2. CASE ~ (f # 0 /\ u <= f)
    <3>1. got = LoadPoints(ring, f, n)
      BY <2>2 DEF FetchReadPoints
    <3>2. f + n <= C
      BY <1>1, <2>2
    <3>3. Loaded(C, got, ring, f, n)
      <4>1. f \in Nat /\ n \in Nat
        OBVIOUS
      <4> QED
        BY <4>1, <3>1, <3>2, LoadedPoints
    <3>4. \A i \in 1 .. n : (f + i - 1) % C = f + i - 1
      BY <3>2, <1>2 DEF InLap
    <3> QED
      BY <3>3, <3>4 DEF Loaded
  <2> QED
    BY <2>1, <2>2
<1>4. got = [i \in 1 .. n |-> got[i]]
  BY <1>3, LenProperties
<1> QED
  BY <1>3, <1>4 DEF Turned

-----------------------------------------------------------------------------
(* Distances.                                                              *)

\* A distance that fits an int is unchanged by the detour over an unsigned.
LEMMA SignedDistance ==
    ASSUME NEW x \in Int, -(Word \div 2) <= x, x < Word \div 2
    PROVE  Signed(Wrap(x)) = x
<1>1. /\ Word \in Nat \ {0}
      /\ Word \div 2 \in Nat
      /\ Word = 2 * (Word \div 2)
  BY WordAssumption
<1>2. CASE x >= 0
  <2>1. x \in 0 .. Word - 1
    BY <1>1, <1>2
  <2>2. x % Word = x
    BY <1>1, <2>1, ModSmall
  <2> QED
    BY <2>2 DEF Wrap, Signed
<1>3. CASE x < 0
  <2>1. PICK y \in 0 .. Word - 1 : y = x + Word
    BY <1>1, <1>3
  <2>2. (Word * (-1) + y) % Word = y
    BY <1>1, DivModOf
  <2>3. Word * (-1) + y = x
    BY <1>1, <2>1
  <2>4. Wrap(x) = y
    BY <2>2, <2>3 DEF Wrap
  <2>5. ~ (y < Word \div 2)
    BY <1>1, <2>1
  <2> QED
    BY <2>1, <2>4, <2>5, <1>1 DEF Signed
<1> QED
  BY <1>2, <1>3

\* What a fetch of n points from the m-th interval on gives: the point of the
\* slot the m-th interval belongs in, or NaN if that slot holds another time.
Found(S, C, ring, b, m) ==
    IF ring[(m - b) % C].timestamp = S * m
    THEN ring[(m - b) % C] ELSE Point(S * m, NaN)

FoundFrom(S, C, ring, b, m, n) ==
    [i \in 1 .. n |-> Found(S, C, ring, b, m + i - 1)]

\* The base is of the b-th interval, and neither the times of the n intervals
\* from the m-th on nor their distances to it are out of range.
Fetchable(arc, S, C, ring, b, m, n) ==
    /\ arc.spp = S
    /\ arc.count = C
    /\ ring[0].timestamp = S * b
    /\ b <= Word \div 2
    /\ m + n < Word \div 2
    /\ \A i \in 1 .. n : S * (m + i - 1) \in Timestamp

\* wsp_fetch_points, for distances that fit an int and times that fit a word.
LEMMA FetchFinds ==
    ASSUME NEW arc, NEW S \in Nat \ {0}, NEW C \in Nat \ {0},
           NEW ring, NEW b \in Nat, NEW m \in Nat, NEW n \in 1 .. C,
           Fetchable(arc, S, C, ring, b, m, n),
           NEW d \in Int, d = m - b
    PROVE  FetchPoints(arc, ring, d, n) = FoundFrom(S, C, ring, b, m, n)
<1>1. Word \div 2 \in Nat /\ Word \in Nat \ {0}
  BY WordAssumption
<1>2. d = m - b
  OBVIOUS
<1>3. PICK f \in 0 .. C - 1, q \in Int : f = d % C /\ d = C * q + f
  <2>1. d \div C \in Int /\ d % C \in 0 .. C - 1 /\ d = C * (d \div C) + (d % C)
    BY DivMod
  <2> QED
    BY <2>1
<1>4. (d + n) % C = (f + n) % C
  <2>1. f + n \in Int /\ d + n = C * q + (f + n)
    <3>1. d = C * q + f
      BY <1>3
    <3> QED
      BY <3>1
  <2>2. PICK y \in Int : y = f + n
    BY <2>1
  <2>3. (C * q + y) % C = y % C
    BY ModShift
  <2> QED
    BY <2>1, <2>2, <2>3
<1>5. Signed(Wrap(d + n)) = d + n
  <2>1. PICK x \in Int : x = d + n
    OBVIOUS
  <2>2. -(Word \div 2) <= x /\ x < Word \div 2
    BY <2>1, <1>1, <1>2 DEF Fetchable
  <2> QED
    BY <2>1, <2>2, SignedDistance
<1>6. Capped(n, C) = n
  BY DEF Capped
<1>7. PICK u : u = (f + n) % C
  OBVIOUS
<1>8. FetchReadPoints(arc, ring, f, u, n) = Turned(C, ring, f, n)
  BY <1>7, ReadTurns DEF Fetchable
<1>9. FetchPoints(arc, ring, d, n) = FilterPoints(ring[0], arc, d, Turned(C, ring, f, n))
  BY <1>3, <1>4, <1>5, <1>6, <1>7, <1>8 DEF FetchPoints, FetchPointsFrom, PointMod, Fetchable
<1>10. ASSUME NEW i \in 1 .. n
       PROVE  /\ Wrap(S * b + S * (d + i - 1)) = S * (m + i - 1)
              /\ (f + i - 1) % C = (m + i - 1 - b) % C
  <2>1. PICK x \in Timestamp : x = S * (m + i - 1)
    BY DEF Fetchable
  <2>2. x \in 0 .. Word - 1
    BY DEF Timestamp
  <2>3. x % Word = x
    BY <1>1, <2>2, ModSmall
  <2>4. S * b + S * (d + i - 1) = x
    BY <2>1, <1>2
  <2>5. PICK y \in Int : y = f + i - 1
    OBVIOUS
  <2>6. (C * q + y) % C = y % C
    BY ModShift
  <2>7. C * q + y = m + i - 1 - b
    <3>1. d = C * q + f
      BY <1>3
    <3> QED
      BY <3>1, <2>5, <1>2
  <2> QED
    BY <2>1, <2>3, <2>4, <2>5, <2>6, <2>7 DEF Wrap
<1>11. FilterPoints(ring[0], arc, d, Turned(C, ring, f, n))
         = [i \in 1 .. n |->
              IF Turned(C, ring, f, n)[i].timestamp = Wrap(S * b + S * (d + i - 1))
              THEN Turned(C, ring, f, n)[i]
              ELSE Point(Wrap(S * b + S * (d + i - 1)), NaN)]
  BY DEF FilterPoints, Turned, Fetchable
<1>12. \A i \in 1 .. n : Turned(C, ring, f, n)[i] = ring[(m + i - 1 - b) % C]
  BY <1>10 DEF Turned
<1>13. ASSUME NEW i \in 1 .. n
       PROVE  Found(S, C, ring, b, m + i - 1)
                = IF Turned(C, ring, f, n)[i].timestamp = Wrap(S * b + S * (d + i - 1))
                  THEN Turned(C, ring, f, n)[i]
                  ELSE Point(Wrap(S * b + S * (d + i - 1)), NaN)
  <2>1. PICK p, w : p = ring[(m + i - 1 - b) % C] /\ w = S * (m + i - 1)
    OBVIOUS
  <2>2. Turned(C, ring, f, n)[i] = p
    BY <2>1, <1>12
  <2>3. Wrap(S * b + S * (d + i - 1)) = w
    BY <2>1, <1>10
  <2>4. Found(S, C, ring, b, m + i - 1) = IF p.timestamp = w THEN p ELSE Point(w, NaN)
    BY <2>1 DEF Found
  <2> QED
    BY <2>2, <2>3, <2>4
<1>14. FetchPoints(arc, ring, d, n) = FoundFrom(S, C, ring, b, m, n)
  <2> DEFINE G(i) == IF Turned(C, ring, f, n)[i].timestamp = Wrap(S * b + S * (d + i - 1))
                     THEN Turned(C, ring, f, n)[i]
                     ELSE Point(Wrap(S * b + S * (d + i - 1)), NaN)
  <2>1. FetchPoints(arc, ring, d, n) = [i \in 1 .. n |-> G(i)]
    BY <1>9, <1>11
  <2>2. \A i \in 1 .. n : G(i) = Found(S, C, ring, b, m + i - 1)
    BY <1>13
  <2> HIDE DEF G
  <2> QED
    BY <2>1, <2>2 DEF FoundFrom
<1> QED
  BY <1>14

\* Rounding down to intervals keeps the order of two times.
LEMMA IntervalOrder ==
    ASSUME NEW S \in Nat \ {0}, NEW from \in Nat, NEW until \in Nat, from <= until
    PROVE  from \div S <= until \div S
<1>1. /\ from \div S \in Int
      /\ from % S \in 0 .. S - 1
      /\ from = S * (from \div S) + (from % S)
  <2>1. from \in Int
    OBVIOUS
  <2> QED
    BY <2>1, DivMod
<1>2. /\ until \div S \in Int
      /\ until % S \in 0 .. S - 1
      /\ until = S * (until \div S) + (until % S)
  <2>1. until \in Int
    OBVIOUS
  <2> QED
    BY <2>1, DivMod
<1>3. PICK F \in Int, U \in Int, r \in 0 .. S - 1, s \in 0 .. S - 1 :
         F = from \div S /\ U = until \div S /\ r = from % S /\ s = until % S
  BY <1>1, <1>2
<1>4. from = S * F + r /\ until = S * U + s
  BY <1>1, <1>2, <1>3
<1>5. ASSUME U < F PROVE FALSE
  <2>1. S * (F - U) >= S
    BY <1>5
  <2> QED
    BY <1>4, <2>1
<1> QED
  BY <1>3, <1>5

\* wsp_fetch_time_points, for times in the lower half of the word.
LEMMA FetchTimeFinds ==
    ASSUME NEW arc, NEW S \in Nat \ {0}, NEW C \in Nat \ {0},
           arc.spp = S, arc.count = C,
           NEW ring, NEW b \in Nat, ring[0].timestamp = S * b, S * b <= Word \div 2,
           NEW from \in Nat, NEW until \in Nat, from <= until,
           until + 1 < Word \div 2
    PROVE  FetchTimePoints(arc, ring, from, until)
             = FoundFrom(S, C, ring, b, from \div S,
                         Capped(until \div S - from \div S + 1, C))
<1>1. Word \div 2 \in Nat /\ Word \in Nat \ {0} /\ Word = 2 * (Word \div 2)
  BY WordAssumption
<1>2. PICK F \in Nat, U \in Nat :
         /\ F = from \div S /\ U = until \div S
         /\ S * U <= until
         /\ TimeFloor(from, S) \div S = F
         /\ TimeFloor(until, S) \div S = U
         /\ F <= U
  <2>1. from \div S \in Nat /\ TimeFloor(from, S) \div S = from \div S
    BY TimeFloorFacts
  <2>2. /\ until \div S \in Nat /\ S * (until \div S) <= until
        /\ TimeFloor(until, S) \div S = until \div S
    BY TimeFloorFacts
  <2>3. from \div S <= until \div S
    BY IntervalOrder
  <2> QED
    BY <2>1, <2>2, <2>3
<1>3. b <= Word \div 2 /\ U <= until
  <2>1. S * b >= b /\ S * U >= U
    OBVIOUS
  <2> QED
    BY <2>1, <1>1, <1>2
<1>4. (S * b) \div S = b
  BY MultipleMod
<1>5. Signed(Wrap(F - b)) = F - b
  <2>1. PICK x \in Int : x = F - b
    OBVIOUS
  <2>2. -(Word \div 2) <= x /\ x < Word \div 2
    BY <2>1, <1>1, <1>2, <1>3
  <2> QED
    BY <2>1, <2>2, SignedDistance
<1>6. Wrap(U - F + 1) = U - F + 1
  <2>0. U - F + 1 \in 0 .. Word - 1
    BY <1>1, <1>2, <1>3
  <2>1. PICK x \in 0 .. Word - 1 : x = U - F + 1
    BY <2>0
  <2>2. x % Word = x
    BY <1>1, ModSmall
  <2> QED
    BY <2>1, <2>2 DEF Wrap
<1>7. PICK n \in 1 .. C : n = Capped(U - F + 1, C) /\ F + n <= U + 1
  <2>1. Capped(U - F + 1, C) \in 1 .. C /\ F + Capped(U - F + 1, C) <= U + 1
    BY <1>2 DEF Capped
  <2> QED
    BY <2>1
<1>8. FetchTimePoints(arc, ring, from, until) = FetchPoints(arc, ring, F - b, n)
  BY <1>2, <1>4, <1>5, <1>6, <1>7 DEF FetchTimePoints
<1>9. FetchPoints(arc, ring, F - b, n) = FoundFrom(S, C, ring, b, F, n)
  <2>1. F + n < Word \div 2
    BY <1>1, <1>3, <1>7
  <2>2. ASSUME NEW i \in 1 .. n
        PROVE  S * (F + i - 1) \in Timestamp
    <3>1. PICK j \in Nat : j = F + i - 1 /\ j <= U
      BY <1>7
    <3>2. S * j \in Nat /\ S * j <= S * U
      <4>1. S * (U - j) >= 0
        BY <3>1
      <4> QED
        BY <4>1
    <3> QED
      BY <3>1, <3>2, <1>1, <1>2 DEF Timestamp
  <2>3. b <= Word \div 2
    BY <1>3
  <2>4. Fetchable(arc, S, C, ring, b, F, n)
    BY <2>1, <2>2, <2>3 DEF Fetchable
  <2>5. PICK d \in Int : d = F - b
    OBVIOUS
  <2>6. FetchPoints(arc, ring, d, n) = FoundFrom(S, C, ring, b, F, n)
    BY <2>4, <2>5, FetchFinds
  <2> QED
    BY <2>5, <2>6
<1> QED
  BY <1>2, <1>7, <1>8, <1>9
=============================================================================
