-------------------------- MODULE WspWindowProofs --------------------------
(***************************************************************************)
(* Theorems about WspUpdate: the points an aggregate is made of are those  *)
(* of the bucket, and what an update has stored is what a fetch returns.   *)
(***************************************************************************)
EXTENDS WspUpdateProofs, FiniteSetTheorems

-----------------------------------------------------------------------------
(* Fetching a bucket, for any archive.                                     *)

\* The k points from the o-th after the base on, as wsp_fetch_points labels them.
WindowPoint(S, C, ring, b, o, i) ==
    IF ring[(o + i - 1) % C].timestamp = b + S * (o + i - 1)
    THEN ring[(o + i - 1) % C] ELSE Point(b + S * (o + i - 1), NaN)

WindowFrom(S, C, ring, b, o, k) == [i \in 1 .. k |-> WindowPoint(S, C, ring, b, o, i)]

\* The window of k points can be computed without leaving the word.
WindowFits(arc, S, C, b, k) ==
    /\ arc.spp = S /\ arc.count = C
    /\ 2 * C <= Word \div 2
    /\ b + S * C + S * k <= Word

\* wsp_fetch_points from a slot on, where no label leaves the word.
LEMMA WindowFinds ==
    ASSUME NEW arc, NEW S \in Nat \ {0}, NEW C \in Nat \ {0},
           NEW ring, NEW b \in Nat, NEW o \in 0 .. C - 1, NEW k \in 1 .. C,
           WindowFits(arc, S, C, b, k)
    PROVE  FetchPointsFrom(arc, Point(b, 0), ring, o, k) = WindowFrom(S, C, ring, b, o, k)
<1> USE DEF WindowFits
<1>1. Word \div 2 \in Nat /\ Word \in Nat \ {0} /\ Word = 2 * (Word \div 2)
  BY WordAssumption
<1>2. Signed(Wrap(o + k)) = o + k
  <2>1. PICK x \in Int : x = o + k
    OBVIOUS
  <2>2. -(Word \div 2) <= x /\ x < Word \div 2
    BY <2>1, <1>1
  <2> QED
    BY <2>1, <2>2, SignedDistance
<1>3. Capped(k, C) = k
  BY DEF Capped
<1>4. o % C = o
  BY ModSmall
<1>5. PICK u : u = (o + k) % C
  OBVIOUS
<1>6. FetchReadPoints(arc, ring, o, u, k) = Turned(C, ring, o, k)
  BY <1>5, ReadTurns
<1>7. FetchPointsFrom(arc, Point(b, 0), ring, o, k)
        = FilterPoints(Point(b, 0), arc, o, Turned(C, ring, o, k))
  BY <1>2, <1>3, <1>4, <1>5, <1>6 DEF FetchPointsFrom, PointMod
<1>8. ASSUME NEW i \in 1 .. k
      PROVE  Wrap(b + S * (o + i - 1)) = b + S * (o + i - 1)
  <2>1. S * (o + i - 1) >= 0 /\ S * (o + i - 1) < S * C + S * k /\ S * (o + i - 1) \in Int
    <3>1. PICK d \in Nat : d = o + i - 1
      OBVIOUS
    <3>2. S * (C + k - d) >= S
      BY <3>1
    <3>3. S * (C + k - d) = S * C + S * k - S * d
      OBVIOUS
    <3>4. S * d >= 0 /\ S * d \in Int /\ S * C \in Int /\ S * k \in Int
      OBVIOUS
    <3> QED
      BY <3>1, <3>2, <3>3, <3>4
  <2>2. b + S * (o + i - 1) \in 0 .. Word - 1
    <3>1. S * C \in Int /\ S * k \in Int
      OBVIOUS
    <3> QED
      BY <2>1, <3>1, <1>1
  <2> QED
    BY <2>2, <1>1, ModSmall DEF Wrap
<1>9. FilterPoints(Point(b, 0), arc, o, Turned(C, ring, o, k))
        = [i \in 1 .. k |->
             IF Turned(C, ring, o, k)[i].timestamp = Wrap(b + S * (o + i - 1))
             THEN Turned(C, ring, o, k)[i]
             ELSE Point(Wrap(b + S * (o + i - 1)), NaN)]
  BY DEF FilterPoints, Turned, Point
<1>10. \A i \in 1 .. k : Turned(C, ring, o, k)[i] = ring[(o + i - 1) % C]
  BY DEF Turned
<1> DEFINE G(i) == IF Turned(C, ring, o, k)[i].timestamp = Wrap(b + S * (o + i - 1))
                   THEN Turned(C, ring, o, k)[i]
                   ELSE Point(Wrap(b + S * (o + i - 1)), NaN)
<1>11. FetchPointsFrom(arc, Point(b, 0), ring, o, k) = [i \in 1 .. k |-> G(i)]
  BY <1>7, <1>9
<1>12. \A i \in 1 .. k : G(i) = WindowPoint(S, C, ring, b, o, i)
  BY <1>8, <1>10 DEF WindowPoint
<1> HIDE DEF G
<1> QED
  BY <1>11, <1>12 DEF WindowFrom

\* The ring is sound, and its base is of the b-th interval.
SoundRing(arc, S, C, ring, b) ==
    /\ arc.spp = S /\ arc.count = C
    /\ AlignedRing(arc, ring)
    /\ ring[0].timestamp = S * b

\* Slot s has the point of the j-th interval.
Holds(ring, S, s, j) == ring[s].timestamp = S * j

\* In a sound ring the point of an interval can be in one slot only.
LEMMA SlotOfPoint ==
    ASSUME NEW arc, NEW S \in Nat \ {0}, NEW C \in Nat \ {0}, NEW ring,
           NEW b \in Nat, NEW j \in Nat \ {0}, NEW s \in 0 .. C - 1,
           SoundRing(arc, S, C, ring, b), Holds(ring, S, s, j)
    PROVE  (j - b) % C = s
<1>0. /\ arc.spp = S /\ arc.count = C /\ AlignedRing(arc, ring)
      /\ ring[0].timestamp = S * b /\ ring[s].timestamp = S * j
  BY DEF SoundRing, Holds
<1>1. s \in 0 .. C - 1 /\ s \in Slots(arc) /\ S * C \in Nat \ {0} /\ Retention(arc) = S * C
  BY <1>0 DEF Slots, Retention
<1>2. S * j # 0
  OBVIOUS
<1>3. (S * j - S * b - s * S) % (S * C) = 0
  BY <1>0, <1>1, <1>2 DEF AlignedRing
<1>4. S * j - S * b - s * S = S * (j - b) - S * s
  BY <1>1
<1>5. PICK m \in Int : m = j - b
  OBVIOUS
<1>6. SamePlaces(C, m, s)
  <2>1. (S * m - S * s) % (S * C) = 0
    BY <1>3, <1>4, <1>5
  <2>2. s \in Int
    BY <1>1
  <2> QED
    BY <2>1, <2>2, SameTurn
<1>7. Ahead(s, m, C) = Ahead(s, s, C)
  BY <1>1, <1>6 DEF SamePlaces
<1>8. Ahead(s, s, C) = 0
  <2>1. s - s = 0 /\ 0 \in 0 .. C - 1
    BY <1>1
  <2>2. 0 % C = 0
    BY <2>1, ModSmall
  <2> QED
    BY <2>1, <2>2 DEF Ahead
<1>9. PICK y \in Int : y = s - m
  BY <1>1
<1>10. y = C * (y \div C) + (y % C) /\ y \div C \in Int
  BY DivMod
<1>11. PICK q \in Int : q = y \div C
  BY <1>10
<1>12. m = C * (-q) + s
  <2>1. y % C = 0
    BY <1>7, <1>8, <1>9 DEF Ahead
  <2>2. y = C * q
    BY <1>10, <1>11, <2>1
  <2>3. C * (-q) = -(C * q) /\ C * q \in Int
    OBVIOUS
  <2> QED
    BY <2>2, <2>3, <1>1, <1>9
<1>13. (C * (-q) + s) % C = s
  <2>1. -q \in Int
    OBVIOUS
  <2> QED
    BY <2>1, <1>1, DivModOf
<1> QED
  BY <1>5, <1>12, <1>13

\* o is the slot of the f-th interval, computed with a base of n intervals; one of
\* b intervals is whole laps away.
SlotByBase(arc, S, C, b, n, f, o) ==
    /\ arc.spp = S /\ arc.count = C /\ (Word \div S) % C = 0
    /\ (S * b - S * n) % (S * C) = 0
    /\ S * n \in Timestamp /\ S * f \in Timestamp
    /\ o = PointIndex(arc, Point(S * n, 0), S * f)

\* How far the i-th label after slot o is from the i-th interval after the f-th.
LabelError(S, b, o, f, i) == S * b + S * (o + i - 1) - S * f - S * (i - 1)

\* The window from such a slot on, labelled by the other base: what it holds is
\* whole laps from the points asked for.
LEMMA WindowLabels ==
    ASSUME NEW arc, NEW S \in Nat \ {0}, NEW C \in Nat \ {0},
           NEW b \in Nat, NEW n \in Nat, NEW f \in Nat,
           NEW o, NEW i \in Nat \ {0}, SlotByBase(arc, S, C, b, n, f, o)
    PROVE  /\ o \in 0 .. C - 1
           /\ LabelError(S, b, o, f, i) % (S * C) = 0
<1>0. /\ arc.spp = S /\ arc.count = C /\ (Word \div S) % C = 0
      /\ (S * b - S * n) % (S * C) = 0
      /\ S * n \in Timestamp /\ S * f \in Timestamp
      /\ o = PointIndex(arc, Point(S * n, 0), S * f)
  BY DEF SlotByBase
<1>1. o = (f - n) % C
  <2>1. Point(S * n, 0).timestamp = S * n
    BY DEF Point
  <2>2. f \in Int /\ n \in Int
    OBVIOUS
  <2> QED
    BY <2>1, <2>2, <1>0, PointIndexIsDistance
<1>2. PICK m \in Int : m = f - n
  OBVIOUS
<1>3. PICK p \in Int : m = C * p + o /\ o \in 0 .. C - 1
  <2>1. m = C * (m \div C) + (m % C) /\ m \div C \in Int /\ m % C \in 0 .. C - 1
    BY DivMod
  <2> QED
    BY <2>1, <1>1, <1>2
<1>4. PICK g \in Int : S * b - S * n = (S * C) * g
  <2>1. PICK a \in Int : a = S * b - S * n
    OBVIOUS
  <2>2. S * C \in Nat \ {0}
    OBVIOUS
  <2>3. a = (S * C) * (a \div (S * C)) + (a % (S * C)) /\ a \div (S * C) \in Int
    BY <2>2, DivMod
  <2>4. PICK g \in Int : g = a \div (S * C)
    BY <2>3
  <2>5. a = (S * C) * g
    BY <2>1, <2>2, <2>3, <2>4, <1>0
  <2> QED
    BY <2>1, <2>5
<1>5. o = f - n - C * p
  BY <1>2, <1>3
<1>6. S * (o + i - 1) = S * f - S * n - (S * C) * p + S * (i - 1)
  <2>1. S * (f - n - C * p + i - 1) = S * f - S * n - (S * C) * p + S * (i - 1)
    OBVIOUS
  <2> QED
    BY <2>1, <1>5
<1>7. PICK A \in Int, N \in Int, F \in Int, I \in Int, G \in Int, P \in Int, Y \in Int :
         /\ A = S * b /\ N = S * n /\ F = S * f /\ I = S * (i - 1)
         /\ G = (S * C) * g /\ P = (S * C) * p /\ Y = S * (o + i - 1)
  <2>1. S * b \in Int /\ S * n \in Int /\ S * f \in Int /\ S * (i - 1) \in Int
        /\ (S * C) * g \in Int /\ (S * C) * p \in Int
    OBVIOUS
  <2>2. PICK d \in Int : d = o + i - 1
    BY <1>3
  <2>3. S * d \in Int
    OBVIOUS
  <2> QED
    BY <2>1, <2>2, <2>3
<1>8. ((S * C) * (g - p)) % (S * C) = 0
  <2>1. S * C \in Nat \ {0} /\ g - p \in Int
    OBVIOUS
  <2> QED
    BY <2>1, MultipleMod
<1>9. S * b + S * (o + i - 1) - S * f - S * (i - 1) = (S * C) * (g - p)
  <2>1. (S * C) * (g - p) = (S * C) * g - (S * C) * p
    OBVIOUS
  <2>2. A - N = G /\ Y = F - N - P + I
    BY <1>4, <1>6, <1>7
  <2>3. A + Y - F - I = G - P
    BY <2>2
  <2> QED
    BY <2>1, <2>3, <1>7
<1> QED
  BY <1>3, <1>8, <1>9 DEF LabelError

-----------------------------------------------------------------------------
(* The window of an aggregate.                                             *)

\* The points of a bucket fit into the archive they are fetched from, if that
\* archive takes points at all; otherwise uninitialised memory is aggregated.
BucketsFit ==
    \A l \in Levels :
        l # Len(Archives) /\ CanSave(Archives[l], 1) =>
            Archives[l + 1].spp \div Archives[l].spp <= Archives[l].count

\* The time is far enough from the end of the signed half of the word, and a lap
\* of any archive but the last one from the end of the word.
TimeFits(t) ==
    /\ \A l \in Levels : t + Archives[l].spp < Word \div 2
    /\ \A l \in Levels :
         l # Len(Archives) => t + Retention(Archives[l]) + Archives[l + 1].spp <= Word

\* What the code computes with stays in the range it computes in.
NumbersFit ==
    /\ \A l \in Levels : 2 * Archives[l].count <= Word \div 2
    /\ \A t \in Times : TimeFits(t)
    /\ \A l \in Levels : \A i \in Slots(Archives[l]) : TimeFits(InitialRings[l][i].timestamp)

\* The interval t is in, and the bucket of the next archive that t is in: both are
\* whole numbers of intervals, and the bucket contains the interval.
InBucket(S, C, big, t, k, f, m) ==
    /\ k \in 1 .. C /\ big = S * k /\ k = big \div S
    /\ f \in Nat /\ TimeFloor(t, big) = S * f /\ S * f \in Timestamp
    /\ m \in Nat \ {0} /\ TimeFloor(t, S) = S * m
    /\ f <= m /\ m < f + k

LEMMA BucketFacts ==
    ASSUME BucketsFit, NEW l \in Levels, l + 1 \in Levels, CanSave(Archives[l], 1),
           NEW t \in Times
    PROVE  /\ Archives[l].spp \in Nat \ {0} /\ Archives[l].count \in Nat \ {0}
           /\ \E k, f, m : InBucket(Archives[l].spp, Archives[l].count,
                                    Archives[l + 1].spp, t, k, f, m)
<1>1. l + 1 \in 2 .. Len(Archives) /\ (l + 1) - 1 = l /\ l # Len(Archives)
  BY ArchiveFacts DEF Levels
<1>2. Archives[l + 1].spp > Archives[l].spp /\ Archives[l + 1].spp % Archives[l].spp = 0
  BY <1>1, UpdateAssumption DEF ArchivesAssumption
<1>3. PICK S \in Nat \ {0}, B \in Nat \ {0}, C \in Nat \ {0} :
         S = Archives[l].spp /\ B = Archives[l + 1].spp /\ C = Archives[l].count
  BY ArchiveFacts
<1>4. PICK k \in Int : k = B \div S /\ B = S * k
  <2>1. B = S * (B \div S) + (B % S) /\ B \div S \in Int
    BY DivMod
  <2>2. PICK k \in Int : k = B \div S
    BY <2>1
  <2>3. B = S * k
    BY <2>1, <2>2, <1>2, <1>3
  <2> QED
    BY <2>2, <2>3
<1>5. k \in 1 .. C
  <2>1. k <= C
    BY <1>1, <1>3, <1>4 DEF BucketsFit
  <2>2. k >= 1
    <3>1. SUFFICES ASSUME k <= 0 PROVE FALSE
      OBVIOUS
    <3>2. S * k <= 0
      BY <3>1
    <3> QED
      BY <3>2, <1>4
  <2> QED
    BY <2>1, <2>2
<1>6. PICK m \in Nat \ {0} : TimeFloor(t, S) = S * m /\ S * m \in Timestamp
  BY <1>3, FlooredTime
<1>7. PICK g \in Nat \ {0} : TimeFloor(t, B) = B * g /\ B * g \in Timestamp
  BY <1>3, FlooredTime
<1>8. PICK f \in Nat : f = k * g
  BY <1>5
<1>9. B * g = S * f
  BY <1>4, <1>8
<1>10. t \in Nat
  BY TimesAreNumbers
<1>11. /\ S * m <= t /\ t < S * m + S
       /\ S * f <= t /\ t < S * f + S * k
  <2>1. TimeFloor(t, S) <= t /\ t < TimeFloor(t, S) + S
    BY <1>10, TimeFloorFacts
  <2>2. TimeFloor(t, B) <= t /\ t < TimeFloor(t, B) + B
    BY <1>10, TimeFloorFacts
  <2> QED
    BY <2>1, <2>2, <1>4, <1>6, <1>7, <1>9
<1>12. f <= m
  <2>1. SUFFICES ASSUME f >= m + 1 PROVE FALSE
    OBVIOUS
  <2>2. S * f >= S * (m + 1) /\ S * (m + 1) = S * m + S
    BY <2>1
  <2>3. S * f \in Int /\ S * m \in Int
    OBVIOUS
  <2> QED
    BY <2>2, <2>3, <1>10, <1>11
<1>13. m < f + k
  <2>1. SUFFICES ASSUME m >= f + k PROVE FALSE
    BY <1>5
  <2>2. S * m >= S * (f + k) /\ S * (f + k) = S * f + S * k
    BY <2>1
  <2>3. S * f \in Int /\ S * m \in Int /\ S * k \in Int
    OBVIOUS
  <2> QED
    BY <2>2, <2>3, <1>10, <1>11
<1>14. InBucket(S, C, B, t, k, f, m)
  BY <1>4, <1>5, <1>6, <1>7, <1>9, <1>12, <1>13 DEF InBucket
<1> QED
  BY <1>3, <1>14

\* What a window may hold.
InPlace(u) ==
    LET from == TimeFloor(u.time, Archives[u.level].spp)
    IN  \A i \in DOMAIN u.window :
            u.window[i].value # NaN =>
                (u.window[i].timestamp - from) % Retention(PrevArc(u))
                    < Archives[u.level].spp

\* The ring has the point of time t and no other.
OnlyPoint(arc, ring, t) ==
    /\ ring[0].timestamp = t
    /\ \A i \in Slots(arc) : i # 0 => ring[i].timestamp = 0

Fetching == {"fetchBase", "fetch", "aggregate"}

\* The base a writer computes the window from is good for the archive the window
\* is in: it has one, or the writer's own point is all there is.
BaseOK(u) ==
    LET l == u.level - 1
    IN  /\ CanSave(Archives[l], 1)
        /\ rings[l][0].timestamp # 0
        /\ u.base # 0 => KnownBase(Archives[l], rings[l], u.base)
        /\ u.base = 0 => /\ OneWriter
                         /\ OnlyPoint(Archives[l], rings[l],
                                      TimeFloor(u.time, Archives[l].spp))

BucketBaseOK(u) ==
    /\ u.bucketBase # 0
    /\ KnownBase(Archives[u.level - 1], rings[u.level - 1], u.bucketBase)
    /\ TimeFits(u.bucketBase)

WriterOK(p, u) ==
    /\ p \in Fetching => BaseOK(u)
    /\ p = "fetch" => BucketBaseOK(u)
    /\ p = "aggregate" => InPlace(u)

RingTimesFit ==
    \A l \in Levels : \A i \in Slots(Archives[l]) : TimeFits(rings[l][i].timestamp)

\* The window is put together from two loads of the base, with a store to the ring
\* and steps of others between them.
WindowInv ==
    /\ IInv
    /\ RingTimesFit
    /\ \A w \in Writers : WriterOK(pc[w], upd[w])

LEMMA InitWindow == SoundStart /\ NoRaceForBase /\ NumbersFit /\ Init => WindowInv
<1> SUFFICES ASSUME SoundStart, NoRaceForBase, NumbersFit, Init PROVE WindowInv
  OBVIOUS
<1>1. RingTimesFit
  BY DEF NumbersFit, Init, RingTimesFit
<1>2. \A w \in Writers : WriterOK(pc[w], upd[w])
  BY DEF Init, WriterOK, Fetching
<1> QED
  BY <1>1, <1>2, InitInv DEF WindowInv

\* A time before one that fits fits.
LEMMA EarlierFits ==
    ASSUME NEW t \in Nat, NEW s \in Nat, s <= t, TimeFits(t)
    PROVE  TimeFits(s)
<1>1. Word \in Nat /\ Word \div 2 \in Nat
  BY WordAssumption
<1>2. ASSUME NEW l \in Levels PROVE s + Archives[l].spp < Word \div 2
  <2>1. t + Archives[l].spp < Word \div 2 /\ Archives[l].spp \in Nat
    BY ArchiveFacts DEF TimeFits
  <2> QED
    BY <2>1, <1>1
<1>3. ASSUME NEW l \in Levels, l # Len(Archives)
      PROVE  s + Retention(Archives[l]) + Archives[l + 1].spp <= Word
  <2>1. l + 1 \in Levels
    BY <1>3, ArchiveFacts DEF Levels
  <2>2. /\ t + Retention(Archives[l]) + Archives[l + 1].spp <= Word
        /\ Retention(Archives[l]) \in Nat /\ Archives[l + 1].spp \in Nat
    BY <1>3, <2>1, ArchiveFacts, RetentionFacts DEF TimeFits
  <2> QED
    BY <2>2, <1>1
<1> QED
  BY <1>2, <1>3 DEF TimeFits

\* The window of a fetch with the base the writer has just loaded.
LEMMA SequenceOf ==
    ASSUME NEW S, NEW k \in Nat, NEW s \in [1 .. k -> S]
    PROVE  s \in Seq(S)
BY SeqDef

LEMMA FetchedWindow ==
    ASSUME BucketsFit, NumbersFit, WindowInv, NEW w \in Writers, FetchWindow(w),
           NEW S, NEW C, NEW k, NEW f, NEW m,
           S = Archives[upd[w].level - 1].spp, C = Archives[upd[w].level - 1].count,
           InBucket(S, C, Archives[upd[w].level].spp, upd[w].time, k, f, m)
    PROVE  LET u == upd[w]
           IN  /\ PrevIndex(u) = PointIndex(PrevArc(u), Point(u.base, 0), S * f)
               /\ PrevIndex(u) \in 0 .. C - 1
               /\ Go(w, "aggregate",
                     [u EXCEPT !.bucketBase = 0,
                               !.window = WindowFrom(S, C, rings[u.level - 1],
                                              u.bucketBase, PrevIndex(u), k)])
<1> DEFINE u == upd[w]
           l == u.level - 1
           arc == Archives[l]
           ring == rings[l]
           o == PrevIndex(u)
           b == u.bucketBase
<1>1. /\ l \in Levels /\ l + 1 = u.level /\ u.level \in Levels /\ l # Len(Archives)
      /\ BaseOK(u) /\ BucketBaseOK(u) /\ CanSave(arc, 1)
  <2>1. pc[w] = "fetch"
    BY DEF FetchWindow
  <2>2. u.level - 1 \in Levels /\ u.level \in Levels
    BY <2>1 DEF WindowInv, IInv, FramesOK, FrameOK, Updating
  <2>3. BaseOK(u) /\ BucketBaseOK(u)
    BY <2>1 DEF WindowInv, WriterOK, Fetching
  <2> QED
    BY <2>2, <2>3, ArchiveFacts DEF BaseOK, Levels
<1>2. /\ S \in Nat \ {0} /\ C \in Nat \ {0} /\ arc.spp = S /\ arc.count = C
      /\ 2 * C <= Word \div 2
      /\ Retention(arc) = S * C
  BY <1>1, ArchiveFacts DEF NumbersFit, Retention
<1>3. o = PointIndex(arc, Point(u.base, 0), S * f)
  BY DEF PrevIndex, PrevArc, InBucket
<1>4. o \in 0 .. C - 1
  <2>1. PICK n \in Nat : u.base = S * n /\ S * n \in Timestamp
    <3>1. CASE u.base # 0
      BY <3>1, <1>1, <1>2 DEF BaseOK, KnownBase
    <3>2. CASE u.base = 0
      <4>1. S * 0 = 0 /\ 0 \in Timestamp
        BY <1>2, WordAssumption DEF Timestamp
      <4> QED
        BY <3>2, <4>1
    <3> QED
      BY <3>1, <3>2
  <2>2. Point(u.base, 0).timestamp = S * n
    BY <2>1 DEF Point
  <2>3. f \in Int /\ n \in Int /\ S * f \in Timestamp
    BY DEF InBucket
  <2>5. o = (Wrap(S * f - S * n) \div S) % C
    BY <2>2, <1>2, <1>3 DEF PointIndex
  <2>6. Wrap(S * f - S * n) \in Int
    <3>1. PICK x \in Int : x = S * f - S * n
      BY <2>3, <1>2
    <3>2. x % Word \in 0 .. Word - 1
      BY WordAssumption, DivMod
    <3> QED
      BY <3>1, <3>2 DEF Wrap
  <2>7. PICK y \in Int : y = Wrap(S * f - S * n)
    BY <2>6
  <2>4. PICK d \in Nat \ {0} : d = S
    BY <1>2
  <2>8. PICK z \in Int : z = y \div S
    <3>1. y \div d \in Int
      BY DivMod
    <3> QED
      BY <3>1, <2>4
  <2>9. z % C \in 0 .. C - 1
    BY <1>2, DivMod
  <2> QED
    BY <2>5, <2>7, <2>8, <2>9
<1>5. k \in 1 .. C /\ PrevCount(u) = k /\ S * k = Archives[u.level].spp
  BY <1>1 DEF InBucket, PrevCount, PrevArc
<1>6. b \in Nat /\ b + S * C + S * k <= Word
  <2>1. PICK n \in Nat : b = S * n
    BY <1>1, <1>2 DEF BucketBaseOK, KnownBase
  <2>2. b + Retention(arc) + Archives[l + 1].spp <= Word
    BY <1>1 DEF BucketBaseOK, TimeFits
  <2>3. Retention(arc) = S * C /\ Archives[l + 1].spp = S * k
    BY <1>1, <1>2, <1>5
  <2>4. S * n \in Nat
    BY <1>2
  <2> QED
    BY <2>1, <2>2, <2>3, <2>4
<1> DEFINE got == FetchPointsFrom(arc, Point(b, 0), ring, o, k)
<1>7. got = WindowFrom(S, C, ring, b, o, k)
  <2>1. /\ arc.spp = S /\ arc.count = C /\ 2 * C <= Word \div 2
        /\ S \in Nat \ {0} /\ C \in Nat \ {0}
    BY <1>2
  <2>2. WindowFits(arc, S, C, b, k)
    BY <2>1, <1>6 DEF WindowFits
  <2> HIDE DEF arc, ring, b, o, u, l
  <2> QED
    BY <2>1, <2>2, <1>4, <1>5, <1>6, WindowFinds
<1>8. Len(got) = k /\ got = [i \in 1 .. k |-> got[i]]
  <2>1. got = [i \in 1 .. k |-> WindowPoint(S, C, ring, b, o, i)]
    BY <1>7 DEF WindowFrom
  <2>3. got \in Seq({got[i] : i \in 1 .. k})
    <3>1. got = [i \in 1 .. k |-> got[i]]
      BY <2>1
    <3> HIDE DEF got
    <3>2. got \in [1 .. k -> {got[i] : i \in 1 .. k}]
      BY <3>1
    <3>3. k \in Nat
      BY <1>5, <1>2
    <3> QED
      BY <3>2, <3>3, SequenceOf
  <2>4. DOMAIN got = 1 .. k
    BY <2>1
  <2>5. got = [i \in 1 .. k |-> got[i]]
    BY <2>1
  <2>6. k \in Nat
    BY <1>5, <1>2
  <2> HIDE DEF got
  <2>7. Len(got) \in Nat /\ DOMAIN got = 1 .. Len(got)
    BY <2>3, LenProperties
  <2>8. Len(got) = k
    BY <2>4, <2>6, <2>7
  <2> QED
    BY <2>5, <2>8
<1>9. PICK junk : Go(w, "aggregate",
                     [u EXCEPT !.bucketBase = 0,
                               !.window = [i \in 1 .. k |->
                                   IF i <= Len(got) THEN got[i] ELSE Point(0, junk[i])]])
  BY <1>5 DEF FetchWindow, PrevArc
<1>10. [i \in 1 .. k |-> IF i <= Len(got) THEN got[i] ELSE Point(0, junk[i])] = got
  <2> HIDE DEF got
  <2> QED
    BY <1>8, <1>5
<1>11. Go(w, "aggregate", [u EXCEPT !.bucketBase = 0, !.window = got])
  BY <1>9, <1>10
<1> QED
  BY <1>3, <1>4, <1>7, <1>11 DEF PrevArc

\* A number whole laps from one within the first lap has it as its remainder.
LEMMA LapOf ==
    ASSUME NEW R \in Nat \ {0}, NEW x \in Int, NEW j \in 0 .. R - 1, (x - j) % R = 0
    PROVE  x % R = j
<1>1. PICK y \in Int : y = x - j
  OBVIOUS
<1>2. y = R * (y \div R) + (y % R) /\ y \div R \in Int
  BY DivMod
<1>3. PICK q \in Int : q = y \div R
  BY <1>2
<1>4. x = R * q + j
  BY <1>1, <1>2, <1>3
<1> QED
  BY <1>4, DivModOf

\* From the slot o that one base gives for the bucket of time t, k points are fetched
\* and labelled by another base; the first may have been missing.
WindowAsked(arc, S, C, ring, base, b, big, t, k, f, m, o) ==
    /\ arc.spp = S /\ arc.count = C /\ (Word \div S) % C = 0
    /\ InBucket(S, C, big, t, k, f, m)
    /\ ring[0].timestamp \in Nat
    /\ KnownBase(arc, ring, b) /\ b # 0
    /\ base # 0 => KnownBase(arc, ring, base)
    /\ base = 0 => OnlyPoint(arc, ring, TimeFloor(t, S))
    /\ o \in 0 .. C - 1 /\ o = PointIndex(arc, Point(base, 0), S * f)

\* Points of the window lie in place: their labels say where they are, and a lone
\* writer that found the archive empty sees its own point.
LEMMA WindowLies ==
    ASSUME NEW arc, NEW S \in Nat \ {0}, NEW C \in Nat \ {0},
           NEW ring, NEW base, NEW b, NEW big, NEW t, NEW k, NEW f, NEW m, NEW o,
           NEW i \in 1 .. k,
           WindowAsked(arc, S, C, ring, base, b, big, t, k, f, m, o),
           WindowPoint(S, C, ring, b, o, i).value # NaN
    PROVE  (WindowPoint(S, C, ring, b, o, i).timestamp - S * f) % (S * C) < big
<1>0. /\ arc.spp = S /\ arc.count = C /\ (Word \div S) % C = 0
      /\ ring[0].timestamp \in Nat
      /\ KnownBase(arc, ring, b) /\ b # 0
      /\ base # 0 => KnownBase(arc, ring, base)
      /\ base = 0 => OnlyPoint(arc, ring, TimeFloor(t, S))
      /\ o \in 0 .. C - 1 /\ o = PointIndex(arc, Point(base, 0), S * f)
  BY DEF WindowAsked
<1>1. /\ k \in 1 .. C /\ big = S * k /\ f \in Nat /\ S * f \in Timestamp
      /\ m \in Nat \ {0} /\ TimeFloor(t, S) = S * m /\ f <= m /\ m < f + k
  BY DEF WindowAsked, InBucket
<1>2. PICK e \in Nat : b = S * e
  BY <1>0 DEF KnownBase
<1>3. PICK p : p = WindowPoint(S, C, ring, b, o, i)
  OBVIOUS
<1>4. p = ring[(o + i - 1) % C] /\ p.timestamp = b + S * (o + i - 1)
  BY <1>3 DEF WindowPoint, Point
<1>5. S * C \in Nat \ {0} /\ Retention(arc) = S * C /\ S * k \in Int
  BY <1>0, <1>1 DEF Retention
<1>9. p.timestamp \in Nat /\ S * (o + i - 1) \in Nat
  <2>1. PICK d \in Nat : d = o + i - 1
    BY <1>0, <1>1
  <2>2. S * d \in Nat /\ S * e \in Nat
    BY <2>1
  <2> QED
    BY <2>1, <2>2, <1>2, <1>4
<1>6. ASSUME NEW j \in 0 .. k - 1, (p.timestamp - S * f - S * j) % (S * C) = 0
      PROVE  (p.timestamp - S * f) % (S * C) < big
  <2>1. S * j >= 0 /\ S * j < S * k /\ S * k <= S * C
    <3>1. S * (k - j) >= S /\ S * (C - k) >= 0
      BY <1>1, <1>6
    <3>2. S * (k - j) = S * k - S * j /\ S * (C - k) = S * C - S * k
      BY <1>1, <1>6
    <3>3. S * j \in Int /\ S * k \in Int /\ S * C \in Int /\ S * j >= 0
      BY <1>1, <1>6
    <3> QED
      BY <3>1, <3>2, <3>3
  <2>2. PICK J \in Int, F \in Int, R \in Nat \ {0} : J = S * j /\ F = S * f /\ R = S * C
    BY <1>1, <1>5
  <2>3. J \in 0 .. R - 1
    BY <2>1, <2>2, <1>1, <1>5
  <2>4. PICK x \in Int : x = p.timestamp - F
    BY <1>9
  <2>5. (x - J) % R = 0
    BY <2>2, <2>4, <1>6
  <2>6. x % R = J
    BY <2>3, <2>5, LapOf
  <2> QED
    BY <2>1, <2>2, <2>4, <2>6, <1>1
<1>7. CASE base # 0
  <2>1. PICK n \in Nat : base = S * n /\ S * n \in Timestamp
    BY <1>0, <1>7 DEF KnownBase
  <2>2. (S * e - S * n) % (S * C) = 0
    <3>1. (ring[0].timestamp - b) % (S * C) = 0 /\ (ring[0].timestamp - base) % (S * C) = 0
      BY <1>0, <1>5, <1>7 DEF KnownBase
    <3>2. PICK x \in Int, y \in Int :
             /\ x = ring[0].timestamp - base /\ y = ring[0].timestamp - b
             /\ x - y = b - base
      BY <1>0, <1>2, <2>1
    <3>3. (x - y) % (S * C) = 0
      BY <3>1, <3>2, <1>5, LapsAdd
    <3> QED
      BY <3>2, <3>3, <1>2, <2>1
  <2>3. o = PointIndex(arc, Point(S * n, 0), S * f)
    BY <1>0, <2>1
  <2>4. (S * e + S * (o + i - 1) - S * f - S * (i - 1)) % (S * C) = 0
    <3>1. S * n \in Timestamp /\ S * f \in Timestamp
      BY <2>1, <1>1
    <3>2. PICK x \in Nat \ {0} : x = i
      BY <1>1
    <3>3. SlotByBase(arc, S, C, e, n, f, o)
      BY <1>0, <2>2, <2>3, <3>1 DEF SlotByBase
    <3>4. LabelError(S, e, o, f, x) % (S * C) = 0
      BY <3>3, <1>1, WindowLabels
    <3> QED
      BY <3>2, <3>4 DEF LabelError
  <2>5. PICK j \in 0 .. k - 1 : j = i - 1
    BY <1>1
  <2>6. p.timestamp = S * e + S * (o + i - 1)
    BY <1>2, <1>4
  <2>7. S * (i - 1) = S * j
    BY <2>5
  <2>8. (p.timestamp - S * f - S * j) % (S * C) = 0
    <3>1. PICK E \in Int, Y \in Int, F \in Int, J \in Int :
             E = S * e /\ Y = S * (o + i - 1) /\ F = S * f /\ J = S * j
      BY <1>1, <1>9
    <3>2. E + Y - F - J = p.timestamp - F - J
      BY <2>6, <3>1
    <3>3. S * e + S * (o + i - 1) - S * f - S * (i - 1) = E + Y - F - J
      BY <2>7, <3>1, Zenon
    <3> QED
      BY <2>4, <3>1, <3>2, <3>3, Zenon
  <2> QED
    BY <2>5, <2>8, <1>3, <1>6
<1>8. CASE base = 0
  <2>1. p.timestamp # 0
    <3>1. S * (o + i - 1) >= 0 /\ S * (o + i - 1) \in Int
      <4>1. PICK d \in Nat : d = o + i - 1
        BY <1>0, <1>1
      <4> QED
        BY <4>1
    <3> QED
      BY <1>0, <3>1, <1>2, <1>4
  <2>2. (o + i - 1) % C \in 0 .. C - 1
    <3>1. PICK d \in Int : d = o + i - 1
      BY <1>0, <1>1
    <3>2. d % C \in 0 .. C - 1
      BY DivMod
    <3> QED
      BY <3>1, <3>2
  <2>3. p.timestamp = S * m
    <3>1. (o + i - 1) % C \in Slots(arc)
      BY <1>0, <2>2 DEF Slots
    <3> QED
      BY <1>0, <2>1, <3>1, <1>1, <1>4, <1>8 DEF OnlyPoint
  <2>4. PICK j \in 0 .. k - 1 : j = m - f
    BY <1>1
  <2>5. p.timestamp - S * f - S * j = 0
    <3>1. S * (m - f) = S * m - S * f
      BY <1>1
    <3>2. S * j \in Int /\ S * m \in Int /\ S * f \in Int
      BY <1>1
    <3> QED
      BY <2>3, <2>4, <3>1, <3>2
  <2>6. 0 % (S * C) = 0
    BY <1>5, ModSmall
  <2>7. (p.timestamp - S * f - S * j) % (S * C) = 0
    BY <2>5, <2>6, Zenon
  <2> QED
    BY <2>7, <1>3, <1>6
<1> QED
  BY <1>3, <1>7, <1>8

\* A step that leaves the rings alone keeps the invariant if it leaves its writer in
\* order.
LEMMA GoWindow ==
    ASSUME LapsDivideWord, WindowInv, [Next]_vars, NEW w \in Writers, NEW p, NEW v,
           Go(w, p, v), rings' = rings, WriterOK(p, v)
    PROVE  WindowInv'
<1>1. IInv'
  BY NextInv DEF WindowInv
<1>2. RingTimesFit'
  BY DEF WindowInv, RingTimesFit
<1>3. /\ pc'[w] = p /\ upd'[w] = v
      /\ \A x \in Writers : x # w => pc'[x] = pc[x] /\ upd'[x] = upd[x]
  BY DEF Go, WindowInv, IInv, FramesOK
<1>4. ASSUME NEW x \in Writers
      PROVE  WriterOK(pc[x], upd[x])'
  <2>1. CASE x = w
    BY <1>3, <2>1 DEF WriterOK, BaseOK, BucketBaseOK, InPlace, PrevArc
  <2>2. CASE x # w
    <3>1. WriterOK(pc[x], upd[x])
      BY DEF WindowInv
    <3> QED
      BY <1>3, <2>2, <3>1 DEF WriterOK, BaseOK, BucketBaseOK, InPlace, PrevArc
  <2> QED
    BY <2>1, <2>2
<1> QED
  BY <1>1, <1>2, <1>4 DEF WindowInv

\* Outside of a fetch nothing is asked of a writer.
LEMMA NotFetching ==
    ASSUME NEW p, NEW v, p \notin Fetching
    PROVE  WriterOK(p, v)
BY DEF WriterOK, Fetching

LEMMA FetchBaseWindow ==
    ASSUME LapsDivideWord, WindowInv, NEW w \in Writers, FetchBase(w), [Next]_vars
    PROVE  WindowInv'
<1> DEFINE u == upd[w]
           l == u.level - 1
           new == [u EXCEPT !.bucketBase = rings[l][0].timestamp]
<1>1. FrameOK("fetchBase", u) /\ IsFrame(u) /\ WriterOK("fetchBase", u)
      /\ Go(w, "fetch", new) /\ rings' = rings
  BY DEF FetchBase, WindowInv, IInv, FramesOK, FrameOK
<1>2. l \in Levels
  BY <1>1 DEF FrameOK
<1>3. BaseOK(u)
  BY <1>1 DEF WriterOK, Fetching
<1>4. /\ new.level = u.level /\ new.time = u.time /\ new.base = u.base
      /\ new.bucketBase = rings[l][0].timestamp
  BY <1>1 DEF IsFrame, Fields
<1>5. 0 \in Slots(Archives[l]) /\ Retention(Archives[l]) \in Nat \ {0}
  <2>1. PICK S \in Nat \ {0}, C \in Nat \ {0} :
           S = Archives[l].spp /\ C = Archives[l].count
    BY <1>2, ArchiveFacts
  <2>2. S * C \in Nat \ {0}
    OBVIOUS
  <2> QED
    BY <2>1, <2>2 DEF Slots, Retention
<1>6. KnownBase(Archives[l], rings[l], rings[l][0].timestamp) /\ rings[l][0].timestamp # 0
  <2>1. \E n \in Nat : /\ rings[l][0].timestamp = Archives[l].spp * n
                       /\ Archives[l].spp * n \in Timestamp
    BY <1>2, <1>5 DEF WindowInv, IInv, RingsOK, WholeRing
  <2>2. rings[l][0].timestamp - rings[l][0].timestamp = 0
    BY <2>1 DEF Timestamp
  <2>3. 0 % Retention(Archives[l]) = 0
    BY <1>5, ModSmall
  <2> QED
    BY <2>1, <2>2, <2>3, <1>3 DEF KnownBase, BaseOK
<1>7. TimeFits(rings[l][0].timestamp)
  BY <1>2, <1>5 DEF WindowInv, RingTimesFit
<1>8. WriterOK("fetch", new)
  <2>1. BaseOK(new)
    <3> HIDE DEF new
    <3> QED
      BY <1>3, <1>4 DEF BaseOK
  <2>2. BucketBaseOK(new)
    <3> HIDE DEF new
    <3> QED
      BY <1>4, <1>6, <1>7 DEF BucketBaseOK
  <2> QED
    BY <2>1, <2>2 DEF WriterOK, Fetching
<1> HIDE DEF new
<1> QED
  BY <1>1, <1>8, GoWindow

LEMMA FetchWindowKept ==
    ASSUME LapsDivideWord, BucketsFit, NumbersFit, WindowInv,
           NEW w \in Writers, FetchWindow(w), [Next]_vars
    PROVE  WindowInv'
<1> DEFINE u == upd[w]
           l == u.level - 1
           o == PrevIndex(u)
           ring == rings[l]
<1>1. /\ FrameOK("fetch", u) /\ IsFrame(u) /\ WriterOK("fetch", u)
      /\ rings' = rings
  BY DEF FetchWindow, WindowInv, IInv, FramesOK, FrameOK
<1>2. BaseOK(u) /\ BucketBaseOK(u)
  BY <1>1 DEF WriterOK, Fetching
<1>3. l \in Levels /\ l + 1 = u.level /\ u.level \in Levels /\ u.time \in Times
  BY <1>1 DEF FrameOK, Updating, Levels
<1>spp. PICK S \in Nat \ {0}, C \in Nat \ {0} :
           S = Archives[l].spp /\ C = Archives[l].count
  BY <1>3, ArchiveFacts
<1>bucket. PICK k, f, m : InBucket(S, C, Archives[u.level].spp, u.time, k, f, m)
  BY <1>spp, <1>2, <1>3, BucketFacts DEF BaseOK
<1> DEFINE win == WindowFrom(S, C, ring, u.bucketBase, o, k)
           new == [u EXCEPT !.bucketBase = 0, !.window = win]
<1>5. /\ o = PointIndex(PrevArc(u), Point(u.base, 0), S * f)
      /\ o \in 0 .. C - 1
      /\ Go(w, "aggregate", new)
  BY <1>spp, <1>bucket, FetchedWindow
<1>6. new.level = u.level /\ new.time = u.time /\ new.base = u.base /\ new.window = win
  BY <1>1 DEF IsFrame, Fields
<1>7. ring[0].timestamp \in Nat
  <2>1. 0 \in Slots(Archives[l])
    BY <1>spp, <1>bucket DEF Slots
  <2>2. \E n \in Nat : ring[0].timestamp = S * n /\ S * n \in Timestamp
    BY <2>1, <1>3, <1>spp, <1>bucket DEF WindowInv, IInv, RingsOK, WholeRing
  <2> QED
    BY <2>2, WordAssumption DEF Timestamp
<1>8. ASSUME NEW i \in 1 .. k, win[i].value # NaN
      PROVE  (win[i].timestamp - S * f) % (S * C) < Archives[u.level].spp
  <2>1. win[i] = WindowPoint(S, C, ring, u.bucketBase, o, i)
    BY DEF WindowFrom
  <2>2. /\ Archives[l].spp = S /\ Archives[l].count = C /\ (Word \div S) % C = 0
        /\ KnownBase(Archives[l], ring, u.bucketBase) /\ u.bucketBase # 0
        /\ u.base # 0 => KnownBase(Archives[l], ring, u.base)
        /\ u.base = 0 => OnlyPoint(Archives[l], ring, TimeFloor(u.time, S))
        /\ o = PointIndex(Archives[l], Point(u.base, 0), S * f)
        /\ InBucket(S, C, Archives[u.level].spp, u.time, k, f, m)
    BY <1>2, <1>3, <1>spp, <1>bucket, <1>5 DEF LapsDivideWord, BaseOK, BucketBaseOK, PrevArc
  <2>3. PICK arc, base, b, t, big :
           /\ arc = Archives[l] /\ base = u.base /\ b = u.bucketBase
           /\ t = u.time /\ big = Archives[u.level].spp
    OBVIOUS
  <2>4. WindowPoint(S, C, ring, b, o, i).value # NaN
    BY <2>1, <2>3, <1>8
  <2> HIDE DEF win, ring, o, u, l
  <2>5. (WindowPoint(S, C, ring, b, o, i).timestamp - S * f) % (S * C) < big
    <3>1. WindowAsked(arc, S, C, ring, base, b, big, t, k, f, m, o)
      BY <2>2, <2>3, <1>5, <1>7 DEF WindowAsked
    <3> QED
      BY <3>1, <2>4, WindowLies
  <2> QED
    BY <2>1, <2>3, <2>5
<1>9. InPlace(new)
  <2>1. DOMAIN win = 1 .. k
    BY DEF WindowFrom
  <2>2. TimeFloor(u.time, Archives[u.level].spp) = S * f
    BY <1>spp, <1>bucket DEF InBucket
  <2>3. PrevArc(new) = Archives[l] /\ Retention(Archives[l]) = S * C
    BY <1>spp, <1>bucket, <1>6 DEF PrevArc, Retention
  <2> HIDE DEF new, win, u
  <2> QED
    BY <1>6, <1>8, <2>1, <2>2, <2>3 DEF InPlace
<1>10. WriterOK("aggregate", new)
  <2>1. BaseOK(new)
    <3> HIDE DEF new
    <3> QED
      BY <1>2, <1>6 DEF BaseOK
  <2> QED
    BY <2>1, <1>9 DEF WriterOK
<1> HIDE DEF new
<1> QED
  BY <1>1, <1>5, <1>10, GoWindow

\* The times in the rings stay such that a fetch can compute with them.
LEMMA SavePointTimes ==
    ASSUME LapsDivideWord, NumbersFit, WindowInv, NEW w \in Writers, SavePoint(w)
    PROVE  RingTimesFit'
<1> DEFINE u == upd[w]
           l == u.level
           t == TimeFloor(u.time, Archives[l].spp)
           slot == WriteIndex(Archives[l], Point(u.base, 0), t)
<1>1. l \in Levels /\ u.time \in Times
  BY DEF SavePoint, WindowInv, IInv, FramesOK, FrameOK, Updating
<1>2. /\ rings'[l] = [rings[l] EXCEPT ![slot] = Point(t, u.value)]
      /\ \A j \in Levels : j # l => rings'[j] = rings[j]
  BY <1>1 DEF SavePoint, WindowInv, IInv, RingsOK
<1>3. TimeFits(t)
  <2>1. u.time \in Nat /\ TimeFits(u.time)
    BY <1>1, TimesAreNumbers DEF NumbersFit
  <2>2. t \in Nat /\ t <= u.time
    <3>1. PICK S \in Nat \ {0} : S = Archives[l].spp
      BY <1>1, ArchiveFacts
    <3> QED
      BY <3>1, <2>1, TimeFloorFacts
  <2> HIDE DEF t, u
  <2> QED
    BY <2>1, <2>2, EarlierFits
<1>4. ASSUME NEW i \in Slots(Archives[l]) PROVE TimeFits(rings'[l][i].timestamp)
  <2>1. i \in DOMAIN rings[l]
    BY <1>1 DEF WindowInv, IInv, RingsOK, WholeRing
  <2>2. CASE i = slot
    <3>1. rings'[l][i] = Point(t, u.value)
      BY <2>1, <2>2, <1>2
    <3>2. rings'[l][i].timestamp = t
      BY <3>1 DEF Point
    <3> QED
      BY <3>2, <1>3
  <2>3. CASE i # slot
    <3>1. rings'[l][i] = rings[l][i]
      BY <2>1, <2>3, <1>2
    <3> QED
      BY <3>1, <1>1 DEF WindowInv, RingTimesFit
  <2> QED
    BY <2>2, <2>3
<1>5. ASSUME NEW j \in Levels, j # l, NEW i \in Slots(Archives[j])
      PROVE  TimeFits(rings'[j][i].timestamp)
  BY <1>2, <1>5 DEF WindowInv, RingTimesFit
<1> QED
  BY <1>4, <1>5 DEF RingTimesFit

\* A writer that has stored in an archive can fetch from it.
LEMMA SavePointBase ==
    ASSUME LapsDivideWord, WindowInv, NEW w \in Writers, SavePoint(w),
           pc'[w] \in Fetching
    PROVE  pc'[w] = "fetchBase" /\ BaseOK(upd[w])'
<1> DEFINE u == upd[w]
           l == u.level
           ring == rings[l]
           t == TimeFloor(u.time, Archives[l].spp)
           done == [u EXCEPT !.wrote = @ \cup {u.level}]
           new == [done EXCEPT !.level = @ + 1]
<1>1. /\ FrameOK("save", u) /\ IsFrame(u) /\ l \in Levels /\ u.time \in Times
      /\ CanSave(Archives[l], 1)
  BY DEF SavePoint, WindowInv, IInv, FramesOK, FrameOK, Updating
<1>2. l # Len(Archives)
  BY DEF SavePoint, Go, WindowInv, IInv, FramesOK, Fetching
<1>3. pc'[w] = "fetchBase" /\ upd'[w] = new
  BY <1>2 DEF SavePoint, Go, WindowInv, IInv, FramesOK
<1>4. new.level - 1 = l /\ new.base = u.base /\ new.time = u.time
  <2>1. new.level = l + 1 /\ new.base = u.base /\ new.time = u.time
    BY <1>1 DEF IsFrame, Fields
  <2> QED
    BY <2>1, <1>1 DEF Levels
<1>5. /\ BasesKept(Archives[l], ring, rings'[l])
      /\ rings'[l][0].timestamp # 0
  BY Stores DEF WindowInv
<1>6. KnownBase(Archives[l], ring, u.base)
  BY DEF SavePoint, WindowInv, IInv, BasesKnown
<1>7. ASSUME u.base # 0 PROVE KnownBase(Archives[l], rings'[l], u.base)
  BY <1>5, <1>6, <1>7 DEF BasesKept
<1>8. ASSUME u.base = 0
      PROVE  OneWriter /\ OnlyPoint(Archives[l], rings'[l], t)
  <2>1. ring[0].timestamp = 0
    BY <1>6, <1>8 DEF KnownBase
  <2>2. OneWriter
    BY <1>1, <2>1 DEF WindowInv, IInv, RingsOK
  <2>3. rings'[l] = [ring EXCEPT ![0] = Point(t, u.value)]
    <3>1. WriteIndex(Archives[l], Point(u.base, 0), t) = 0
      BY <1>8 DEF WriteIndex, Point
    <3> QED
      BY <3>1, <1>1 DEF SavePoint, WindowInv, IInv, RingsOK
  <2>4. /\ DOMAIN ring = Slots(Archives[l])
        /\ \A i \in Slots(Archives[l]) : ring[i].timestamp = 0
    BY <1>1, <2>1 DEF WindowInv, IInv, RingsOK, WholeRing, AlignedRing
  <2>5. 0 \in Slots(Archives[l])
    BY <1>1, ArchiveFacts DEF Slots
  <2>6. rings'[l][0] = Point(t, u.value)
    BY <2>3, <2>4, <2>5
  <2>7. \A i \in Slots(Archives[l]) : i # 0 => rings'[l][i] = ring[i]
    BY <2>3, <2>4
  <2>8. Point(t, u.value).timestamp = t
    BY DEF Point
  <2>9. OnlyPoint(Archives[l], rings'[l], t)
    <3> HIDE DEF t, ring
    <3> QED
      BY <2>4, <2>6, <2>7, <2>8 DEF OnlyPoint
  <2> QED
    BY <2>2, <2>9
<1> HIDE DEF new
<1> QED
  BY <1>1, <1>3, <1>4, <1>5, <1>7, <1>8 DEF BaseOK

LEMMA SavePointWindow ==
    ASSUME LapsDivideWord, NumbersFit, WindowInv,
           NEW w \in Writers, SavePoint(w), [Next]_vars
    PROVE  WindowInv'
<1> DEFINE l == upd[w].level
<1>1. IInv' /\ RingTimesFit'
  BY NextInv, SavePointTimes DEF WindowInv
<1>2. WriterOK(pc[w], upd[w])'
  <2>1. CASE pc'[w] \in Fetching
    BY <2>1, SavePointBase DEF WriterOK
  <2>2. CASE pc'[w] \notin Fetching
    BY <2>2 DEF WriterOK, Fetching
  <2> QED
    BY <2>1, <2>2
<1>3. /\ l \in Levels
      /\ rings'[l][0].timestamp # 0
      /\ BasesKept(Archives[l], rings[l], rings'[l])
      /\ \A j \in Levels : j # l => rings'[j] = rings[j]
  BY Stores DEF WindowInv
<1>4. ASSUME NEW x \in Writers, x # w
      PROVE  WriterOK(pc[x], upd[x])'
  <2> DEFINE v == upd[x]
             k == v.level - 1
  <2>1. pc'[x] = pc[x] /\ upd'[x] = v
    BY <1>4 DEF SavePoint, Go, WindowInv, IInv, FramesOK
  <2>2. WriterOK(pc[x], v)
    BY DEF WindowInv
  <2>3. ~ OneWriter
    BY <1>4 DEF OneWriter
  <2>4. CASE pc[x] \in Fetching
    <3>1. k \in Levels /\ BaseOK(v)
      BY <2>2, <2>4 DEF WriterOK, Fetching, WindowInv, IInv, FramesOK, FrameOK
    <3>2. /\ rings'[k][0].timestamp # 0
          /\ \A c : c # 0 /\ KnownBase(Archives[k], rings[k], c)
                      => KnownBase(Archives[k], rings'[k], c)
      <4>1. CASE k = l
        BY <4>1, <1>3 DEF BasesKept
      <4>2. CASE k # l
        BY <4>2, <1>3, <3>1 DEF BaseOK
      <4> QED
        BY <4>1, <4>2
    <3>3. /\ CanSave(Archives[k], 1) /\ v.base # 0
          /\ KnownBase(Archives[k], rings[k], v.base)
      BY <2>3, <3>1 DEF BaseOK
    <3>4. /\ CanSave(Archives[k], 1) /\ v.base # 0
          /\ KnownBase(Archives[k], rings'[k], v.base)
          /\ rings'[k][0].timestamp # 0
      BY <3>2, <3>3
    <3>5. BaseOK(upd[x])'
      BY <3>4, <2>1 DEF BaseOK
    <3>6. pc[x] = "fetch" => BucketBaseOK(upd[x])'
      BY <3>2, <2>1, <2>2 DEF WriterOK, BucketBaseOK
    <3>7. pc[x] = "aggregate" => InPlace(upd[x])'
      BY <2>1, <2>2 DEF WriterOK, InPlace, PrevArc
    <3> QED
      BY <3>5, <3>6, <3>7, <2>1 DEF WriterOK
  <2>5. CASE pc[x] \notin Fetching
    BY <2>1, <2>5 DEF WriterOK, Fetching
  <2> QED
    BY <2>4, <2>5
<1> QED
  BY <1>1, <1>2, <1>4 DEF WindowInv

LEMMA NextWindow ==
    ASSUME LapsDivideWord, BucketsFit, NumbersFit, WindowInv, [Next]_vars
    PROVE  WindowInv'
<1>1. ASSUME NEW w \in Writers,
             \/ Call(w) \/ NextPoint(w) \/ RefusePoint(w) \/ Return(w) \/ Crash(w)
             \/ LoadBase(w) \/ AggregateValue(w)
      PROVE  WindowInv'
  <2>1. rings' = rings /\ \E p, v : p \notin Fetching /\ Go(w, p, v)
    BY <1>1 DEF Call, NextPoint, RefusePoint, Return, Crash, LoadBase, AggregateValue,
                Finish, Fetching
  <2> QED
    BY <2>1, NotFetching, GoWindow
<1>2. CASE Tick \/ UNCHANGED vars
  <2>1. UNCHANGED <<rings, pc, upd>>
    BY <1>2 DEF Tick, vars
  <2>2. IInv'
    BY NextInv DEF WindowInv
  <2> QED
    BY <2>1, <2>2 DEF WindowInv, RingTimesFit, WriterOK, BaseOK, BucketBaseOK, InPlace, PrevArc
<1> QED
  BY <1>1, <1>2, FetchBaseWindow, FetchWindowKept, SavePointWindow DEF Next, Step

\* Whatever the archives, the writers and the laps: a point that goes into an
\* aggregate is of the bucket, or of the same bucket of another lap.
THEOREM WindowsInPlace ==
    ASSUME SoundStart, NoRaceForBase, LapsDivideWord, BucketsFit, NumbersFit
    PROVE  Spec => []WindowInPlace
<1>1. Init => WindowInv
  BY InitWindow
<1>2. WindowInv /\ [Next]_vars => WindowInv'
  BY NextWindow
<1>3. WindowInv => WindowInPlace
  BY DEF WindowInv, WriterOK, InPlace, WindowInPlace
<1> QED
  BY <1>1, <1>2, <1>3, PTL DEF Spec

-----------------------------------------------------------------------------
(* What a lone writer aggregates, and what it leaves behind.               *)

\* A bucket of the lap that begins with the base, in the lower half of the word.
BucketOfLap(S, C, ring, z, big, f) ==
    /\ z = ring[0].timestamp
    /\ z <= S * f /\ S * f < z + S * C
    /\ z <= Word \div 2 /\ S * f + big < Word \div 2

\* In the current lap the slots of the window are those a fetch of the bucket finds.
LEMMA WindowIsBucket ==
    ASSUME NEW arc, NEW S \in Nat \ {0}, NEW C \in Nat \ {0},
           NEW ring, NEW base, NEW big \in Nat, NEW t, NEW k, NEW f \in Nat, NEW m, NEW o,
           NEW first \in Nat, NEW z,
           WindowAsked(arc, S, C, ring, base, z, big, t, k, f, m, o),
           base # 0, BucketOfLap(S, C, ring, z, big, f), first = S * f
    PROVE  WindowFrom(S, C, ring, z, o, k)
             = FetchTimePoints(arc, ring, first, first + big - 1)
<1>0. /\ z = ring[0].timestamp
      /\ ring[0].timestamp <= S * f /\ S * f < ring[0].timestamp + S * C
      /\ ring[0].timestamp <= Word \div 2 /\ S * f + big < Word \div 2
  BY DEF BucketOfLap
<1>1. /\ arc.spp = S /\ arc.count = C /\ (Word \div S) % C = 0
      /\ KnownBase(arc, ring, base)
      /\ o \in 0 .. C - 1 /\ o = PointIndex(arc, Point(base, 0), S * f)
      /\ k \in 1 .. C /\ big = S * k /\ f \in Nat /\ S * f \in Timestamp
  BY <1>0 DEF WindowAsked, InBucket
<1>2. PICK b \in Nat : ring[0].timestamp = S * b
  <2>1. KnownBase(arc, ring, ring[0].timestamp)
    BY <1>0 DEF WindowAsked
  <2> QED
    BY <2>1, <1>1 DEF KnownBase
<1>3. PICK n \in Nat : base = S * n /\ S * n \in Timestamp /\ (S * b - S * n) % (S * C) = 0
  BY <1>1, <1>2 DEF KnownBase, Retention
<1>4. f - b \in 0 .. C - 1
  <2>1. f >= b
    <3>1. SUFFICES ASSUME f <= b - 1 PROVE FALSE
      BY <1>1
    <3>2. S * (b - f) >= S /\ S * (b - f) = S * b - S * f
      BY <3>1, <1>1
    <3>3. S * b \in Int /\ S * f \in Int
      BY <1>1
    <3> QED
      BY <1>0, <3>2, <3>3, <1>2
  <2>2. f - b <= C - 1
    <3>1. SUFFICES ASSUME f - b >= C PROVE FALSE
      BY <1>1
    <3>2. S * (f - b - C) >= 0 /\ S * (f - b - C) = S * f - S * b - S * C
      BY <3>1, <1>1
    <3>3. S * b \in Int /\ S * f \in Int /\ S * C \in Int
      BY <1>1
    <3> QED
      BY <1>0, <3>2, <3>3, <1>2
  <2> QED
    BY <2>1, <2>2, <1>1
<1>5. o = f - b
  <2>1. o = (f - n) % C
    <3>1. Point(base, 0).timestamp = S * n
      BY <1>3 DEF Point
    <3>2. f \in Int /\ n \in Int
      BY <1>1
    <3> QED
      BY <3>1, <3>2, <1>1, <1>3, PointIndexIsDistance
  <2>2. SamePlaces(C, b, n)
    <3>1. b \in Int /\ n \in Int
      OBVIOUS
    <3> QED
      BY <3>1, <1>3, SameTurn
  <2>3. Ahead(f, b, C) = Ahead(f, n, C)
    BY <2>2, <1>1 DEF SamePlaces
  <2>4. (f - b) % C = f - b
    BY <1>4, ModSmall
  <2> QED
    BY <2>1, <2>3, <2>4 DEF Ahead
<1>6. WindowFrom(S, C, ring, S * b, o, k) = FoundFrom(S, C, ring, b, f, k)
  <2>1. ASSUME NEW i \in 1 .. k
        PROVE  WindowPoint(S, C, ring, S * b, o, i) = Found(S, C, ring, b, f + i - 1)
    <3>0. o \in Int /\ f \in Int /\ i \in Int
      BY <1>1
    <3>1. PICK x \in Int, y \in Int : x = o + i - 1 /\ y = f + i - 1 /\ x = y - b
      <4>1. o + i - 1 \in Int /\ f + i - 1 \in Int /\ o + i - 1 = (f + i - 1) - b
        BY <3>0, <1>5
      <4> QED
        BY <4>1
    <3>2. S * b + S * x = S * y
      <4>1. S * y = S * b + S * (y - b)
        OBVIOUS
      <4> QED
        BY <3>1, <4>1
    <3> QED
      BY <3>1, <3>2 DEF WindowPoint, Found
  <2> QED
    BY <2>1 DEF WindowFrom, FoundFrom
<1>7. PICK from \in Nat, until \in Nat :
         /\ from = S * f /\ until = S * f + S * k - 1
         /\ from <= until /\ until + 1 < Word \div 2
         /\ from \div S = f /\ until \div S = f + k - 1
  <2>1. S * f \in Nat /\ S * k \in Nat /\ S * k >= S
    BY <1>1
  <2>2. (S * f) \div S = f
    BY <1>1, MultipleMod
  <2>3. S * f + S * k - 1 = S * (f + k - 1) + (S - 1)
    <3>1. S * (f + k - 1) = S * f + S * k - S
      BY <1>1
    <3> QED
      BY <3>1, <2>1
  <2>4. f + k - 1 \in Int /\ S - 1 \in 0 .. S - 1
    BY <1>1
  <2>5. (S * (f + k - 1) + (S - 1)) \div S = f + k - 1
    BY <2>4, DivModOf
  <2>6. Word \div 2 \in Nat
    BY WordAssumption
  <2> QED
    BY <2>1, <2>2, <2>3, <2>5, <2>6, <1>0, <1>1
<1>8. Capped(until \div S - from \div S + 1, C) = k
  BY <1>1, <1>7 DEF Capped
<1>9. FetchTimePoints(arc, ring, from, until) = FoundFrom(S, C, ring, b, f, k)
  <2>1. S * b <= Word \div 2
    BY <1>0, <1>2
  <2>2. FetchTimePoints(arc, ring, from, until)
          = FoundFrom(S, C, ring, b, from \div S,
                      Capped(until \div S - from \div S + 1, C))
    <3>1. /\ arc.spp = S /\ arc.count = C
          /\ ring[0].timestamp = S * b /\ from <= until /\ until + 1 < Word \div 2
      BY <1>1, <1>2, <1>7
    <3> QED
      BY <2>1, <3>1, FetchTimeFinds
  <2> QED
    BY <2>2, <1>7, <1>8
<1> QED
  BY <1>0, <1>1, <1>2, <1>6, <1>7, <1>9

\* The base a lone writer labels its window with is still the one in the ring, and
\* the window it has got is the bucket.
ExactOK(p, u) ==
    /\ p = "fetch" => u.bucketBase = rings[u.level - 1][0].timestamp
    /\ p = "aggregate" => (u.base # 0 /\ InCurrentLap(u) => u.window = Bucket(u))

ExactInv == WindowInv /\ \A w \in Writers : ExactOK(pc[w], upd[w])

LEMMA FetchedBucket ==
    ASSUME LapsDivideWord, BucketsFit, NumbersFit, ExactInv,
           NEW w \in Writers, FetchWindow(w)
    PROVE  \E new : Go(w, "aggregate", new) /\ ExactOK("aggregate", new)
<1> DEFINE u == upd[w]
           l == u.level - 1
           o == PrevIndex(u)
           ring == rings[l]
<1>1. /\ FrameOK("fetch", u) /\ IsFrame(u) /\ WriterOK("fetch", u)
      /\ u.bucketBase = ring[0].timestamp
  BY DEF FetchWindow, ExactInv, ExactOK, WindowInv, IInv, FramesOK, FrameOK
<1>2. BaseOK(u) /\ BucketBaseOK(u)
  BY <1>1 DEF WriterOK, Fetching
<1>3. l \in Levels /\ l + 1 = u.level /\ u.level \in Levels /\ u.time \in Times
  BY <1>1 DEF FrameOK, Updating, Levels
<1>spp. PICK S \in Nat \ {0}, C \in Nat \ {0} :
           S = Archives[l].spp /\ C = Archives[l].count
  BY <1>3, ArchiveFacts
<1>bucket. PICK k, f, m : InBucket(S, C, Archives[u.level].spp, u.time, k, f, m)
  BY <1>spp, <1>2, <1>3, BucketFacts DEF BaseOK
<1> DEFINE win == WindowFrom(S, C, ring, ring[0].timestamp, o, k)
           new == [u EXCEPT !.bucketBase = 0, !.window = win]
<1>5. /\ o = PointIndex(PrevArc(u), Point(u.base, 0), S * f)
      /\ o \in 0 .. C - 1
      /\ Go(w, "aggregate", new)
  <2>1. WindowInv
    BY DEF ExactInv
  <2>2. /\ PrevIndex(upd[w]) = PointIndex(PrevArc(upd[w]), Point(upd[w].base, 0), S * f)
        /\ PrevIndex(upd[w]) \in 0 .. C - 1
        /\ Go(w, "aggregate",
              [upd[w] EXCEPT !.bucketBase = 0,
                  !.window = WindowFrom(S, C, rings[upd[w].level - 1],
                                 upd[w].bucketBase, PrevIndex(upd[w]), k)])
    BY <2>1, <1>spp, <1>bucket, FetchedWindow
  <2> QED
    BY <2>2, <1>1
<1>6. new.level = u.level /\ new.time = u.time /\ new.base = u.base /\ new.window = win
  BY <1>1 DEF IsFrame, Fields
<1>7. PICK arc, base, t, big :
         /\ arc = Archives[l] /\ base = u.base /\ t = u.time /\ big = Archives[u.level].spp
  OBVIOUS
<1>8. ring[0].timestamp \in Nat /\ Retention(arc) = S * C
  <2>1. \E n \in Nat : ring[0].timestamp = S * n /\ S * n \in Timestamp
    BY <1>1, <1>2, <1>spp, <1>bucket DEF BucketBaseOK, KnownBase
  <2> QED
    BY <2>1, <1>spp, <1>bucket, <1>7, WordAssumption DEF Timestamp, Retention
<1>9. WindowAsked(arc, S, C, ring, base, ring[0].timestamp, big, t, k, f, m, o)
  <2>1. /\ arc.spp = S /\ arc.count = C /\ (Word \div S) % C = 0
        /\ KnownBase(arc, ring, ring[0].timestamp) /\ ring[0].timestamp # 0
        /\ base # 0 => KnownBase(arc, ring, base)
        /\ base = 0 => OnlyPoint(arc, ring, TimeFloor(t, S))
        /\ o = PointIndex(arc, Point(base, 0), S * f)
        /\ InBucket(S, C, big, t, k, f, m)
    BY <1>1, <1>2, <1>3, <1>spp, <1>bucket, <1>5, <1>7
       DEF LapsDivideWord, BaseOK, BucketBaseOK, PrevArc
  <2> HIDE DEF ring, o
  <2> QED
    BY <2>1, <1>5, <1>8 DEF WindowAsked
<1>10. TimeFloor(t, big) = S * f /\ big = S * k
  BY <1>spp, <1>bucket, <1>7 DEF InBucket
<1>11. ring[0].timestamp <= Word \div 2 /\ S * f + big < Word \div 2
  <2>1. Word \div 2 \in Nat
    BY WordAssumption
  <2>2. PICK d \in Nat \ {0} : d = big
    BY <1>3, <1>7, ArchiveFacts
  <2>3. t \in Nat /\ t + d < Word \div 2
    BY <1>3, <1>7, <2>2, TimesAreNumbers DEF NumbersFit, TimeFits
  <2>4. TimeFloor(t, d) <= t /\ TimeFloor(t, d) \in Nat
    BY <2>3, TimeFloorFacts
  <2>5. ring[0].timestamp + d < Word \div 2
    BY <1>1, <1>2, <1>3, <1>7, <2>2 DEF BucketBaseOK, TimeFits
  <2> QED
    BY <2>1, <2>2, <2>3, <2>4, <2>5, <1>8, <1>10
<1>12. ASSUME base # 0, InCurrentLap(new)
       PROVE  win = Bucket(new)
  <2>1. ring[0].timestamp <= S * f /\ S * f < ring[0].timestamp + S * C
    <3> HIDE DEF new
    <3> QED
      BY <1>12, <1>6, <1>7, <1>8, <1>10 DEF InCurrentLap, PrevArc
  <2>2. Bucket(new) = FetchTimePoints(arc, ring, S * f, S * f + big - 1)
    <3> HIDE DEF new
    <3> QED
      BY <1>6, <1>7, <1>10 DEF Bucket, PrevArc
  <2> HIDE DEF ring, o, new
  <2>3. BucketOfLap(S, C, ring, ring[0].timestamp, big, f)
    BY <2>1, <1>11 DEF BucketOfLap
  <2> DEFINE z == ring[0].timestamp
  <2>4. PICK first \in Nat, d \in Nat, g \in Nat :
           first = S * g /\ d = big /\ g = f
    <3>1. f \in Nat /\ big \in Nat
      BY <1>3, <1>spp, <1>bucket, <1>7, ArchiveFacts DEF InBucket
    <3>2. S * f \in Nat
      BY <3>1
    <3> QED
      BY <3>1, <3>2
  <2>5. /\ WindowAsked(arc, S, C, ring, base, z, d, t, k, g, m, o)
        /\ BucketOfLap(S, C, ring, z, d, g)
    BY <2>3, <2>4, <1>9
  <2>6. WindowFrom(S, C, ring, z, o, k) = FetchTimePoints(arc, ring, first, first + d - 1)
    BY <2>4, <2>5, <1>12, WindowIsBucket
  <2> QED
    BY <2>2, <2>4, <2>6
<1>13. ExactOK("aggregate", new)
  <2> HIDE DEF new, win
  <2> QED
    BY <1>6, <1>7, <1>12 DEF ExactOK
<1> QED
  BY <1>5, <1>13

LEMMA NextExact ==
    ASSUME OneWriter, LapsDivideWord, BucketsFit, NumbersFit, ExactInv, [Next]_vars
    PROVE  ExactInv'
<1>1. WindowInv'
  BY NextWindow DEF ExactInv
<1>2. PICK w \in Writers : Writers = {w}
  BY DEF OneWriter
<1>3. ASSUME NEW p, NEW v, Go(w, p, v), p \notin {"fetch", "aggregate"}
      PROVE  ExactOK(pc[w], upd[w])'
  <2>1. pc'[w] = p
    BY <1>3 DEF Go, ExactInv, WindowInv, IInv, FramesOK
  <2> QED
    BY <2>1, <1>3 DEF ExactOK
<1>4. ASSUME \/ Call(w) \/ NextPoint(w) \/ RefusePoint(w) \/ Return(w) \/ Crash(w)
             \/ LoadBase(w) \/ SavePoint(w) \/ AggregateValue(w)
      PROVE  ExactOK(pc[w], upd[w])'
  <2>1. \E p, v : p \notin {"fetch", "aggregate"} /\ Go(w, p, v)
    BY <1>4 DEF Call, NextPoint, RefusePoint, Return, Crash, LoadBase, SavePoint,
                AggregateValue, Finish
  <2> QED
    BY <2>1, <1>3
<1>5. ASSUME FetchBase(w) PROVE ExactOK(pc[w], upd[w])'
  <2> DEFINE u == upd[w]
             new == [u EXCEPT !.bucketBase = rings[u.level - 1][0].timestamp]
  <2>1. IsFrame(u) /\ pc'[w] = "fetch" /\ upd'[w] = new /\ rings' = rings
    BY <1>5 DEF FetchBase, Go, ExactInv, WindowInv, IInv, FramesOK, FrameOK
  <2>2. new.level = u.level /\ new.bucketBase = rings[u.level - 1][0].timestamp
    BY <2>1 DEF IsFrame, Fields
  <2> HIDE DEF new
  <2> QED
    BY <2>1, <2>2 DEF ExactOK
<1>6. ASSUME FetchWindow(w) PROVE ExactOK(pc[w], upd[w])'
  <2>1. PICK new : Go(w, "aggregate", new) /\ ExactOK("aggregate", new)
    BY <1>6, FetchedBucket
  <2>2. pc'[w] = "aggregate" /\ upd'[w] = new /\ rings' = rings
    BY <1>6, <2>1 DEF FetchWindow, Go, ExactInv, WindowInv, IInv, FramesOK
  <2> QED
    BY <2>1, <2>2 DEF ExactOK, InCurrentLap, Bucket, PrevArc
<1>7. ASSUME Tick \/ UNCHANGED vars PROVE ExactOK(pc[w], upd[w])'
  <2>1. UNCHANGED <<rings, pc, upd>>
    BY <1>7 DEF Tick, vars
  <2>2. ExactOK(pc[w], upd[w])
    BY DEF ExactInv
  <2> QED
    BY <2>1, <2>2 DEF ExactOK, InCurrentLap, Bucket, PrevArc
<1>8. ExactOK(pc[w], upd[w])'
  BY <1>2, <1>4, <1>5, <1>6, <1>7 DEF Next, Step
<1> QED
  BY <1>1, <1>2, <1>8 DEF ExactInv

\* The window a lone writer aggregates is what a reader would fetch for the bucket,
\* although it is put together from two bases, one of them from before the store.
THEOREM WindowsAreExact ==
    ASSUME SoundStart, OneWriter, LapsDivideWord, BucketsFit, NumbersFit
    PROVE  Spec => []WindowExact
<1>1. Init => ExactInv
  <2>1. Init => WindowInv
    BY InitWindow DEF NoRaceForBase
  <2>2. Init => \A w \in Writers : ExactOK(pc[w], upd[w])
    BY DEF Init, ExactOK
  <2> QED
    BY <2>1, <2>2 DEF ExactInv
<1>2. ExactInv /\ [Next]_vars => ExactInv'
  BY NextExact
<1>3. ExactInv => WindowExact
  BY DEF ExactInv, ExactOK, WindowExact
<1> QED
  BY <1>1, <1>2, <1>3, PTL DEF Spec

\* A point that is in its archive is what a fetch of its time returns.
LEMMA FetchesPoint ==
    ASSUME NEW arc, NEW S \in Nat \ {0}, NEW C \in Nat \ {0}, NEW ring,
           NEW b \in Nat, NEW j \in Nat \ {0}, NEW s \in 0 .. C - 1, NEW t \in Nat,
           SoundRing(arc, S, C, ring, b), Holds(ring, S, s, j),
           S * b <= Word \div 2, t + 1 < Word \div 2, j = t \div S
    PROVE  FetchTimePoints(arc, ring, t, t) = <<ring[s]>>
<1>0. /\ arc.spp = S /\ arc.count = C
      /\ ring[0].timestamp = S * b /\ ring[s].timestamp = S * j
  BY DEF SoundRing, Holds
<1>1. j - j + 1 = 1 /\ Capped(1, C) = 1
  BY DEF Capped
<1>2. FetchTimePoints(arc, ring, t, t) = FoundFrom(S, C, ring, b, j, 1)
  <2>1. FetchTimePoints(arc, ring, t, t)
          = FoundFrom(S, C, ring, b, t \div S, Capped(t \div S - t \div S + 1, C))
    BY <1>0, FetchTimeFinds
  <2> QED
    BY <2>1, <1>1
<1>3. (j - b) % C = s
  BY SlotOfPoint
<1>4. j + 1 - 1 = j
  OBVIOUS
<1>5. FoundFrom(S, C, ring, b, j, 1) = [i \in 1 .. 1 |-> ring[s]]
  <2>1. ASSUME NEW i \in 1 .. 1 PROVE Found(S, C, ring, b, j + i - 1) = ring[s]
    <3>1. j + i - 1 = j
      OBVIOUS
    <3> QED
      BY <3>1, <1>0, <1>3 DEF Found
  <2> QED
    BY <2>1 DEF FoundFrom
<1>6. [i \in 1 .. 1 |-> ring[s]] = <<ring[s]>>
  OBVIOUS
<1> QED
  BY <1>2, <1>5, <1>6

\* Archive l has a point for time t.
Has(l, t, i) ==
    /\ i \in Slots(Archives[l])
    /\ rings[l][i].timestamp = TimeFloor(t, Archives[l].spp)

\* The update has stored a point in every archive from its first one to the m-th.
LandedTo(u, m) ==
    /\ u.time \in Times
    /\ u.low \in Levels /\ m \in Levels /\ u.low <= m
    /\ u.wrote = u.low .. m
    /\ \A l \in u.low .. m : \E i : Has(l, u.time, i)

\* In the last of them the point has the value of the update.
LastLanded(u, m) ==
    /\ LandedTo(u, m)
    /\ \E i : Has(m, u.time, i) /\ rings[m][i].value = u.value

LandedOK(p, u) ==
    /\ p = "next" => u.wrote = {} \/ \E m : LastLanded(u, m)
    /\ p \in {"loadBase", "save"} =>
         \/ u.wrote = {} /\ u.low = u.level
         \/ LandedTo(u, u.level - 1)
    /\ p \in Fetching => LastLanded(u, u.level - 1)

LandedInv == WindowInv /\ \A w \in Writers : LandedOK(pc[w], upd[w])

\* What is where it is for the invariant is where a fetch finds it.
LEMMA LandedFetches ==
    ASSUME NumbersFit, WindowInv, NEW l \in Levels, NEW t \in Times, NEW i, Has(l, t, i)
    PROVE  FetchTimePoints(Archives[l], rings[l], t, t) = <<rings[l][i]>>
<1> DEFINE arc == Archives[l]
           ring == rings[l]
<1>1. PICK S \in Nat \ {0}, C \in Nat \ {0} : S = arc.spp /\ C = arc.count
  BY ArchiveFacts
<1>2. /\ i \in 0 .. C - 1 /\ 0 \in Slots(arc) /\ ring[i].timestamp = TimeFloor(t, S)
      /\ AlignedRing(arc, ring)
  BY <1>1 DEF Has, Slots, WindowInv, IInv, RingsOK
<1>3. PICK b \in Nat : ring[0].timestamp = S * b
  BY <1>1, <1>2 DEF WindowInv, IInv, RingsOK, WholeRing
<1>4. PICK j \in Nat \ {0} : j = t \div S /\ TimeFloor(t, S) = S * j
  BY <1>1, FlooredTime
<1>5. t \in Nat /\ t + 1 < Word \div 2 /\ S * b <= Word \div 2
  <2>1. t \in Nat /\ Word \div 2 \in Nat /\ S * b \in Nat
    BY TimesAreNumbers, WordAssumption
  <2>2. t + S < Word \div 2
    BY <1>1 DEF NumbersFit, TimeFits
  <2>3. S * b + S < Word \div 2
    <3>1. TimeFits(ring[0].timestamp)
      BY <1>1, <1>2 DEF WindowInv, RingTimesFit
    <3> QED
      BY <3>1, <1>1, <1>3 DEF TimeFits
  <2> QED
    BY <2>1, <2>2, <2>3
<1>6. SoundRing(arc, S, C, ring, b) /\ Holds(ring, S, i, j)
  BY <1>1, <1>2, <1>3, <1>4 DEF SoundRing, Holds
<1>7. FetchTimePoints(arc, ring, t, t) = <<ring[i]>>
  BY <1>2, <1>4, <1>5, <1>6, FetchesPoint
<1> QED
  BY <1>1, <1>7

\* A step of the writer that leaves the rings alone.
LEMMA GoLanded ==
    ASSUME LandedInv, NEW w \in Writers, NEW p, NEW v,
           Go(w, p, v), rings' = rings, LandedOK(p, v)
    PROVE  LandedOK(pc[w], upd[w])'
<1>1. pc'[w] = p /\ upd'[w] = v
  BY DEF Go, LandedInv, WindowInv, IInv, FramesOK
<1> QED
  BY <1>1 DEF LandedOK, LandedTo, LastLanded, Has, Fetching

\* Steps between the stores.
LEMMA BetweenLanded ==
    ASSUME LandedInv, NEW w \in Writers,
           \/ Call(w) \/ RefusePoint(w) \/ Return(w) \/ Crash(w)
           \/ NextPoint(w) \/ LoadBase(w) \/ FetchBase(w)
           \/ FetchWindow(w) \/ AggregateValue(w)
    PROVE  LandedOK(pc[w], upd[w])'
<1> DEFINE u == upd[w]
<1>1. FrameOK(pc[w], u) /\ IsFrame(u) /\ LandedOK(pc[w], u)
  BY DEF LandedInv, WindowInv, IInv, FramesOK, FrameOK
<1>2. ASSUME Call(w) PROVE LandedOK(pc[w], upd[w])'
  <2>1. PICK batch : Go(w, "next", [Idle("running") EXCEPT !.clock = now, !.todo = batch])
    BY <1>2 DEF Call
  <2> DEFINE v == [Idle("running") EXCEPT !.clock = now, !.todo = batch]
  <2>2. v.wrote = {}
    BY DEF Idle
  <2>3. LandedOK("next", v)
    <3> HIDE DEF v
    <3> QED
      BY <2>2 DEF LandedOK, Fetching
  <2> HIDE DEF v
  <2> QED
    BY <1>2, <2>1, <2>3, GoLanded DEF Call, v
<1>3. ASSUME RefusePoint(w) \/ Return(w) \/ Crash(w) PROVE LandedOK(pc[w], upd[w])'
  <2>1. rings' = rings /\ \E v : Go(w, "idle", v)
    BY <1>3 DEF RefusePoint, Return, Crash, Finish
  <2>2. \A v : LandedOK("idle", v)
    BY DEF LandedOK, Fetching
  <2> QED
    BY <2>1, <2>2, GoLanded
<1>4. ASSUME NextPoint(w) PROVE LandedOK(pc[w], upd[w])'
  <2> DEFINE p == Head(u.todo)
             low == Min(Reaching(u.clock - p.timestamp))
             v == [u EXCEPT !.todo = Tail(@), !.time = p.timestamp, !.value = p.value,
                            !.low = low, !.level = low, !.wrote = {}]
  <2>1. Go(w, "loadBase", v) /\ rings' = rings
    BY <1>4 DEF NextPoint
  <2>2. v.wrote = {} /\ v.low = v.level
    BY <1>1 DEF IsFrame, Fields
  <2> HIDE DEF v
  <2>3. LandedOK("loadBase", v)
    BY <2>2 DEF LandedOK, Fetching
  <2> QED
    BY <2>1, <2>3, GoLanded
<1>5. ASSUME NEW v, v.time = u.time, v.low = u.low, v.level = u.level, v.wrote = u.wrote
      PROVE  /\ \A m : LandedTo(u, m) => LandedTo(v, m)
             /\ v.value = u.value => \A m : LastLanded(u, m) => LastLanded(v, m)
  BY <1>5 DEF LandedTo, LastLanded
<1>6. ASSUME LoadBase(w) PROVE LandedOK(pc[w], upd[w])'
  <2>1. CASE CanSave(Archives[u.level], 1)
    <3> DEFINE v == [u EXCEPT !.base = rings[u.level][0].timestamp]
    <3>1. Go(w, "save", v) /\ rings' = rings /\ pc[w] = "loadBase"
      BY <1>6, <2>1 DEF LoadBase
    <3>2. v.time = u.time /\ v.low = u.low /\ v.level = u.level /\ v.wrote = u.wrote
      BY <1>1 DEF IsFrame, Fields
    <3> HIDE DEF v
    <3>3. LandedOK("save", v)
      BY <1>1, <1>5, <3>1, <3>2 DEF LandedOK, Fetching
    <3> QED
      BY <3>1, <3>3, GoLanded
  <2>2. CASE ~ CanSave(Archives[u.level], 1)
    <3>1. rings' = rings /\ \E v : Go(w, "idle", v)
      BY <1>6, <2>2 DEF LoadBase
    <3>2. \A v : LandedOK("idle", v)
      BY DEF LandedOK, Fetching
    <3> QED
      BY <3>1, <3>2, GoLanded
  <2> QED
    BY <2>1, <2>2
<1>7. ASSUME FetchBase(w) PROVE LandedOK(pc[w], upd[w])'
  <2> DEFINE v == [u EXCEPT !.bucketBase = rings[u.level - 1][0].timestamp]
  <2>1. Go(w, "fetch", v) /\ rings' = rings /\ pc[w] = "fetchBase"
    BY <1>7 DEF FetchBase
  <2>2. /\ v.time = u.time /\ v.low = u.low /\ v.level = u.level /\ v.wrote = u.wrote
        /\ v.value = u.value
    BY <1>1 DEF IsFrame, Fields
  <2> HIDE DEF v
  <2>3. LandedOK("fetch", v)
    BY <1>1, <1>5, <2>1, <2>2 DEF LandedOK, Fetching
  <2> QED
    BY <2>1, <2>3, GoLanded
<1>8. ASSUME FetchWindow(w) PROVE LandedOK(pc[w], upd[w])'
  <2>1. PICK win : Go(w, "aggregate", [u EXCEPT !.bucketBase = 0, !.window = win])
    BY <1>8 DEF FetchWindow
  <2> DEFINE v == [u EXCEPT !.bucketBase = 0, !.window = win]
  <2>2. rings' = rings /\ pc[w] = "fetch"
    BY <1>8 DEF FetchWindow
  <2>3. /\ v.time = u.time /\ v.low = u.low /\ v.level = u.level /\ v.wrote = u.wrote
        /\ v.value = u.value
    BY <1>1 DEF IsFrame, Fields
  <2>4. Go(w, "aggregate", v)
    BY <2>1
  <2> HIDE DEF v
  <2>5. LandedOK("aggregate", v)
    BY <1>1, <1>5, <2>2, <2>3 DEF LandedOK, Fetching
  <2> QED
    BY <2>2, <2>4, <2>5, GoLanded
<1>9. ASSUME AggregateValue(w) PROVE LandedOK(pc[w], upd[w])'
  <2> DEFINE a == Aggregate(u.window)
             skipped == [u EXCEPT !.base = 0, !.window = <<>>]
             v == [u EXCEPT !.base = 0, !.window = <<>>, !.value = a.value]
  <2>1. rings' = rings /\ pc[w] = "aggregate" /\ LastLanded(u, u.level - 1)
    BY <1>1, <1>9 DEF AggregateValue, LandedOK, Fetching
  <2>2. CASE a.skip
    <3>1. Go(w, "next", skipped)
      BY <1>9, <2>2 DEF AggregateValue
    <3>2. /\ skipped.time = u.time /\ skipped.low = u.low /\ skipped.level = u.level
          /\ skipped.wrote = u.wrote /\ skipped.value = u.value
      BY <1>1 DEF IsFrame, Fields
    <3> HIDE DEF skipped
    <3>3. LandedOK("next", skipped)
      BY <1>5, <2>1, <3>2 DEF LandedOK, Fetching
    <3> QED
      BY <2>1, <3>1, <3>3, GoLanded
  <2>3. CASE ~ a.skip
    <3>1. Go(w, "loadBase", v)
      BY <1>9, <2>3 DEF AggregateValue
    <3>2. v.time = u.time /\ v.low = u.low /\ v.level = u.level /\ v.wrote = u.wrote
      BY <1>1 DEF IsFrame, Fields
    <3>3. LandedTo(u, u.level - 1)
      BY <2>1 DEF LastLanded
    <3> HIDE DEF v
    <3>4. LandedOK("loadBase", v)
      BY <1>5, <3>2, <3>3 DEF LandedOK, Fetching
    <3> QED
      BY <2>1, <3>1, <3>4, GoLanded
  <2> QED
    BY <2>2, <2>3
<1> QED
  BY <1>2, <1>3, <1>4, <1>6, <1>7, <1>8, <1>9

\* The store: the point is in the archive now, and the archives before have kept theirs.
LEMMA SavePointLanded ==
    ASSUME LapsDivideWord, LandedInv, NEW w \in Writers, SavePoint(w)
    PROVE  LandedOK(pc[w], upd[w])'
<1> DEFINE u == upd[w]
           l == u.level
           t == TimeFloor(u.time, Archives[l].spp)
           slot == WriteIndex(Archives[l], Point(u.base, 0), t)
           done == [u EXCEPT !.wrote = @ \cup {u.level}]
           last == [done EXCEPT !.base = 0]
           new == [done EXCEPT !.level = @ + 1]
<1>1. /\ IsFrame(u) /\ l \in Levels /\ u.time \in Times /\ pc[w] = "save"
      /\ KnownBase(Archives[l], rings[l], u.base)
      /\ LandedOK("save", u)
  BY DEF SavePoint, LandedInv, WindowInv, IInv, BasesKnown, FramesOK, FrameOK, Updating
<1>2. /\ rings'[l] = [rings[l] EXCEPT ![slot] = Point(t, u.value)]
      /\ \A j \in Levels : j # l => rings'[j] = rings[j]
      /\ DOMAIN rings[l] = Slots(Archives[l])
  BY <1>1 DEF SavePoint, LandedInv, WindowInv, IInv, RingsOK, WholeRing
<1>3. slot \in Slots(Archives[l])
  <2>1. PICK arc, ring, b : arc = Archives[l] /\ ring = rings[l] /\ b = u.base
    OBVIOUS
  <2>2. PICK m \in Nat \ {0} : t = arc.spp * m /\ arc.spp * m \in Timestamp
    BY <1>1, <2>1, FlooredTime
  <2>3. /\ arc.spp \in Nat \ {0} /\ arc.count \in Nat \ {0}
        /\ (Word \div arc.spp) % arc.count = 0
        /\ KnownBase(arc, ring, b)
    BY <1>1, <2>1, ArchiveFacts DEF LapsDivideWord
  <2>4. WriteIndex(arc, Point(b, 0), arc.spp * m) \in Slots(arc)
    BY <2>2, <2>3, SlotOfKnownBase
  <2> QED
    BY <2>1, <2>2, <2>4
<1>4. rings'[l][slot].timestamp = t /\ rings'[l][slot].value = u.value
  <2>1. rings'[l][slot] = Point(t, u.value)
    BY <1>2, <1>3
  <2> QED
    BY <2>1 DEF Point
<1>5. u.low \in Levels /\ u.low <= l /\ u.wrote \cup {l} = u.low .. l
      /\ \A j \in u.low .. l : j # l => j \in Levels /\ \E i : Has(j, u.time, i)
  <2>1. CASE u.wrote = {} /\ u.low = u.level
    BY <1>1, <2>1 DEF Levels
  <2>2. CASE LandedTo(u, u.level - 1)
    <3>1. /\ u.low \in Levels /\ l - 1 \in Levels /\ u.low <= l - 1
          /\ u.wrote = u.low .. l - 1
          /\ \A j \in u.low .. l - 1 : \E i : Has(j, u.time, i)
      BY <2>2 DEF LandedTo
    <3>2. /\ (u.low .. l - 1) \cup {l} = u.low .. l
          /\ \A j \in u.low .. l : j # l => j \in Levels /\ j \in u.low .. l - 1
      BY <1>1, <3>1, ArchiveFacts DEF Levels
    <3>3. u.low <= l
      BY <1>1, <3>1 DEF Levels
    <3> QED
      BY <3>1, <3>2, <3>3
  <2> QED
    BY <1>1, <2>1, <2>2 DEF LandedOK
<1>9. PICK n : n = l
  OBVIOUS
<1>6. ASSUME NEW v, upd'[w] = v,
             v.time = u.time, v.low = u.low, v.value = u.value,
             v.wrote = u.wrote \cup {l}
      PROVE  LastLanded(upd[w], n)'
  <2>1. \A j \in u.low .. l : \E i : /\ i \in Slots(Archives[j])
                                     /\ rings'[j][i].timestamp
                                          = TimeFloor(u.time, Archives[j].spp)
    <3>1. ASSUME NEW j \in u.low .. l, j # l
          PROVE  \E i : /\ i \in Slots(Archives[j])
                        /\ rings'[j][i].timestamp = TimeFloor(u.time, Archives[j].spp)
      <4>1. PICK i : Has(j, u.time, i)
        BY <1>5, <3>1
      <4>2. rings'[j] = rings[j]
        BY <1>2, <1>5, <3>1
      <4> QED
        BY <4>1, <4>2 DEF Has
    <3> QED
      BY <1>3, <1>4, <3>1
  <2> HIDE DEF t, slot
  <2>2. \E i : /\ i \in Slots(Archives[l])
               /\ rings'[l][i].timestamp = t /\ rings'[l][i].value = u.value
    BY <1>3, <1>4
  <2>3. upd'[w].time = u.time /\ upd'[w].low = u.low /\ upd'[w].value = u.value
        /\ upd'[w].wrote = u.low .. l
    BY <1>5, <1>6
  <2> QED
    BY <1>1, <1>5, <1>9, <2>1, <2>2, <2>3 DEF LastLanded, LandedTo, Has, t
<1>7. CASE l = Len(Archives)
  <2>1. pc'[w] = "next" /\ upd'[w] = last
    BY <1>7 DEF SavePoint, Go, LandedInv, WindowInv, IInv, FramesOK
  <2>2. /\ last.time = u.time /\ last.low = u.low /\ last.value = u.value
        /\ last.wrote = u.wrote \cup {l}
    BY <1>1 DEF IsFrame, Fields
  <2> HIDE DEF last
  <2>3. LastLanded(upd[w], n)'
    BY <1>6, <2>1, <2>2
  <2> QED
    BY <2>1, <2>3 DEF LandedOK, Fetching
<1>8. CASE l # Len(Archives)
  <2>1. pc'[w] = "fetchBase" /\ upd'[w] = new
    BY <1>8 DEF SavePoint, Go, LandedInv, WindowInv, IInv, FramesOK
  <2>2. /\ new.time = u.time /\ new.low = u.low /\ new.value = u.value
        /\ new.wrote = u.wrote \cup {l} /\ new.level - 1 = l
    <3>1. /\ new.time = u.time /\ new.low = u.low /\ new.value = u.value
          /\ new.wrote = u.wrote \cup {l} /\ new.level = l + 1
      BY <1>1 DEF IsFrame, Fields
    <3> QED
      BY <3>1, <1>1 DEF Levels
  <2> HIDE DEF new
  <2>3. LastLanded(upd[w], n)'
    BY <1>6, <2>1, <2>2
  <2> QED
    BY <1>9, <2>1, <2>2, <2>3 DEF LandedOK, Fetching
<1> QED
  BY <1>7, <1>8

LEMMA NextLanded ==
    ASSUME OneWriter, LapsDivideWord, BucketsFit, NumbersFit, LandedInv, [Next]_vars
    PROVE  LandedInv'
<1>1. WindowInv'
  BY NextWindow DEF LandedInv
<1>2. PICK w \in Writers : Writers = {w}
  BY DEF OneWriter
<1>3. ASSUME Tick \/ UNCHANGED vars PROVE LandedOK(pc[w], upd[w])'
  <2>0. PICK p, v : p = pc[w] /\ v = upd[w]
    OBVIOUS
  <2>1. rings' = rings /\ pc'[w] = p /\ upd'[w] = v
    BY <1>3, <2>0 DEF Tick, vars
  <2>2. LandedOK(p, v)
    BY <2>0 DEF LandedInv
  <2> QED
    BY <2>1, <2>2 DEF LandedOK, LandedTo, LastLanded, Has, Fetching
<1>4. LandedOK(pc[w], upd[w])'
  BY <1>2, <1>3, BetweenLanded, SavePointLanded DEF Next, Step
<1> QED
  BY <1>1, <1>2, <1>4 DEF LandedInv

\* When a lone writer's update is over, each archive from the first one on that took
\* it up to the last gives a point for its time back, and the last one the value
\* computed for it: in a database that starts aligned, of a layout whose laps divide
\* the word, as updates may be late, whose buckets fit the finer archive and whose
\* numbers fit the word.
THEOREM UpdatesLand ==
    ASSUME SoundStart, OneWriter, LapsDivideWord, BucketsFit, NumbersFit
    PROVE  Spec => []Landed
<1>1. Init => LandedInv
  <2>1. Init => WindowInv
    BY InitWindow DEF NoRaceForBase
  <2>2. Init => \A w \in Writers : LandedOK(pc[w], upd[w])
    BY DEF Init, LandedOK, Fetching
  <2> QED
    BY <2>1, <2>2 DEF LandedInv
<1>2. LandedInv /\ [Next]_vars => LandedInv'
  BY NextLanded
<1>3. LandedInv => Landed
  <2> SUFFICES ASSUME LandedInv, NEW w \in Writers,
                      pc[w] = "next", upd[w].wrote # {}
               PROVE  /\ upd[w].wrote = upd[w].low .. Max(upd[w].wrote)
                      /\ \A l \in upd[w].wrote :
                           LET got == FetchTimePoints(Archives[l], rings[l],
                                                      upd[w].time, upd[w].time)
                           IN  /\ \E i \in Slots(Archives[l]) : got = <<rings[l][i]>>
                               /\ l = Max(upd[w].wrote) => got[1].value = upd[w].value
    BY DEF Landed
  <2> DEFINE u == upd[w]
             Got(l) == FetchTimePoints(Archives[l], rings[l], u.time, u.time)
  <2>1. PICK m : LastLanded(u, m)
    BY DEF LandedInv, LandedOK
  <2>2. /\ u.time \in Times /\ u.low \in Levels /\ m \in Levels /\ u.low <= m
        /\ u.wrote = u.low .. m /\ WindowInv
    BY <2>1 DEF LastLanded, LandedTo, LandedInv
  <2>3. Max(u.wrote) = m
    <3>1. m \in u.low .. m /\ \A y \in u.low .. m : m >= y
      BY <2>2 DEF Levels
    <3>2. \A x \in u.low .. m : (\A y \in u.low .. m : x >= y) => x = m
      BY <3>1, <2>2 DEF Levels
    <3> QED
      BY <3>1, <3>2, <2>2 DEF Max
  <2>4. ASSUME NEW l \in u.wrote
        PROVE  \E i \in Slots(Archives[l]) : Got(l) = <<rings[l][i]>>
    <3>1. l \in Levels
      BY <2>2 DEF Levels
    <3>2. PICK i : Has(l, u.time, i)
      BY <2>1, <2>2 DEF LastLanded, LandedTo
    <3>3. Got(l) = <<rings[l][i]>>
      BY <2>2, <3>1, <3>2, LandedFetches
    <3> QED
      BY <3>2, <3>3 DEF Has
  <2>5. Got(m)[1].value = u.value
    <3>1. PICK i : Has(m, u.time, i) /\ rings[m][i].value = u.value
      BY <2>1 DEF LastLanded
    <3>2. Got(m) = <<rings[m][i]>>
      BY <2>2, <3>1, LandedFetches
    <3> QED
      BY <3>1, <3>2
  <2> QED
    BY <2>2, <2>3, <2>4, <2>5
<1> QED
  BY <1>1, <1>2, <1>3, PTL DEF Spec
-----------------------------------------------------------------------------
(* What rings and frames can hold.                                         *)

Cell == [timestamp : Timestamp, value : Stored \cup {0}]

\* A point as a fetch returns it.
Got == [timestamp : Timestamp, value : Stored \cup {0, NaN}]

\* Stored has room for what aggregation makes of its values.
AggregatesStored ==
    \A n \in Nat \ {0} : \A points \in [1 .. n -> Got] :
        ~ Aggregate(points).skip => Aggregate(points).value \in Stored \cup {0}

\* Slot numbers can be added as ints.
CountsFit == \A l \in Levels : 2 * Archives[l].count <= Word \div 2

TypedRing(arc, ring) ==
    /\ ring \in [Slots(arc) -> Cell]
    /\ \A i \in Slots(arc) : ring[i].timestamp % arc.spp = 0

\* What the database, the callers, the stack and the clock hold is of its type.
TypedStart ==
    /\ InitialRings = [l \in Levels |-> InitialRings[l]]
    /\ \A l \in Levels : TypedRing(Archives[l], InitialRings[l])
    /\ \A p \in Inputs : p.value \in Stored \cup {0}
    /\ Junk \subseteq Stored \cup {0, NaN}
    /\ MinNow \in Int /\ MaxNow \in Int /\ MinNow <= MaxNow

FrameTyped(p, u) ==
    /\ u.status \in Statuses
    /\ u.status = "running" <=> p # "idle"
    /\ u.value \in Stored \cup {0}
    /\ u.wrote \subseteq Levels
    /\ p \in {"save", "fetchBase", "fetch"} => u.base \in Timestamp
    /\ p = "fetch" => u.bucketBase \in Timestamp
    /\ p = "aggregate" => \E n \in Nat \ {0} : u.window \in [1 .. n -> Got]

TypedInv ==
    /\ FramesOK
    /\ rings = [l \in Levels |-> rings[l]]
    /\ \A l \in Levels : TypedRing(Archives[l], rings[l])
    /\ now \in MinNow .. MaxNow
    /\ \A w \in Writers : FrameTyped(pc[w], upd[w])

\* Of values at some of n places one is the largest.
LEMMA Largest ==
    ASSUME NEW n \in Nat, NEW T \in SUBSET (1 .. n), T # {},
           NEW v, \A i \in T : v[i] \in Int
    PROVE  \E i \in T : \A j \in T : v[i] >= v[j]
<1> DEFINE To(m) == {i \in T : i <= m}
           Bad == {m \in Nat : To(m) # {} /\ ~ \E i \in To(m) : \A j \in To(m) : v[i] >= v[j]}
<1>0. \A i \in T : i \in Nat /\ 1 <= i /\ i <= n
  OBVIOUS
<1>1. ASSUME Bad # {} PROVE FALSE
  <2>1. PICK m \in Bad : \A y \in Bad : ~ (<<y, m>> \in OpToRel(<, Nat))
    <3>1. Bad \subseteq Nat
      OBVIOUS
    <3> HIDE DEF Bad
    <3> QED
      BY <1>1, <3>1, NatLessThanWellFounded, WFMin
  <2>2. m \in Nat \ {0}
    <3>1. m \in Nat /\ \E i \in T : i <= m
      BY <2>1
    <3> QED
      BY <3>1, <1>0
  <2>3. m - 1 \notin Bad /\ m - 1 \in Nat
    <3>1. m - 1 \in Nat /\ m - 1 < m /\ m \in Nat
      BY <2>2
    <3> HIDE DEF Bad
    <3>2. <<m - 1, m>> \in OpToRel(<, Nat)
      BY <3>1 DEF OpToRel
    <3> QED
      BY <2>1, <3>1, <3>2
  <2>4. m \in T /\ \A i \in To(m) : i = m \/ i \in To(m - 1)
    <3>1. \A i \in To(m) : i = m \/ i \in To(m - 1)
      BY <2>2
    <3>2. ASSUME m \notin T PROVE FALSE
      <4>1. \A i \in To(m) : i \in To(m - 1)
        BY <3>1, <3>2
      <4>2. \A i \in To(m - 1) : i \in To(m)
        BY <1>0, <2>2
      <4>3. To(m) = To(m - 1)
        BY <4>1, <4>2
      <4> QED
        BY <2>1, <2>3, <4>3
    <3> QED
      BY <3>1, <3>2
  <2>5. ASSUME To(m - 1) = {} PROVE FALSE
    <3>1. \A j \in To(m) : j = m
      BY <2>4, <2>5
    <3>2. m \in To(m) /\ v[m] >= v[m]
      BY <2>2, <2>4
    <3> QED
      BY <2>1, <3>1, <3>2
  <2>6. ASSUME To(m - 1) # {} PROVE FALSE
    <3>1. PICK e \in To(m - 1) : \A j \in To(m - 1) : v[e] >= v[j]
      BY <2>3, <2>6
    <3>2. e \in To(m) /\ m \in To(m) /\ v[e] \in Int /\ v[m] \in Int
      BY <2>2, <2>4
    <3>3. CASE v[e] >= v[m]
      <4>1. \A j \in To(m) : v[e] >= v[j]
        BY <2>4, <3>1, <3>3
      <4> QED
        BY <2>1, <3>2, <4>1
    <3>4. CASE v[e] < v[m]
      <4>1. \A j \in To(m) : v[m] >= v[j]
        <5>1. \A j \in To(m - 1) : v[j] \in Int
          OBVIOUS
        <5> QED
          BY <2>4, <3>1, <3>2, <3>4, <5>1
      <4> QED
        BY <2>1, <3>2, <4>1
    <3> QED
      BY <3>2, <3>3, <3>4
  <2> QED
    BY <2>5, <2>6
<1>2. To(n) = T
  BY <1>0
<1>3. n \notin Bad
  BY <1>1
<1> QED
  BY <1>2, <1>3

\* max and min return a value they were given, as long as x_files_factor asks for any.
LEMMA ExtremesStored ==
    ASSUME Method \in {"max", "min"}, Xff.num # 0, Stored \subseteq Int
    PROVE  AggregatesStored
<1> SUFFICES ASSUME NEW n \in Nat \ {0}, NEW points \in [1 .. n -> Got],
                    ~ Aggregate(points).skip
             PROVE  Aggregate(points).value \in Stored \cup {0}
  BY DEF AggregatesStored
<1> DEFINE known == {points[i].value : i \in Valid(points)}
<1>1. points \in Seq(Got) /\ Len(points) = n /\ points # <<>> /\ DOMAIN points = 1 .. n
  <2>1. points \in Seq(Got) /\ DOMAIN points = 1 .. n /\ n \in Nat
    BY SequenceOf
  <2>2. Len(points) = n
    BY <2>1, LenProperties
  <2> QED
    BY <2>1, <2>2
<1>2. ~ TooSparse(points)
  BY <1>1 DEF Aggregate
<1>3. Valid(points) \in SUBSET (1 .. n)
  BY <1>1 DEF Valid
<1>4. Valid(points) # {}
  <2>1. ASSUME Valid(points) = {} PROVE TooSparse(points)
    <3>1. Cardinality(Valid(points)) = 0
      BY <2>1, FS_EmptySet
    <3>2. PICK x \in Nat \ {0}, d \in Nat : x = Xff.num /\ d = Xff.den
      BY XffAssumption
    <3>3. 0 * d = 0 /\ 0 < x * n
      OBVIOUS
    <3> QED
      BY <3>1, <3>2, <3>3, <1>1 DEF TooSparse
  <2> QED
    BY <2>1, <1>2
<1>5. \A i \in Valid(points) : points[i].value \in Stored \cup {0} /\ points[i].value \in Int
  <2> SUFFICES ASSUME NEW i \in Valid(points)
               PROVE  points[i].value \in Stored \cup {0} /\ points[i].value \in Int
    OBVIOUS
  <2>1. points[i].value # NaN
    BY DEF Valid
  <2>2. points[i] \in Got
    BY <1>3
  <2>3. points[i].value \in Stored \cup {0, NaN}
    BY <2>2 DEF Got
  <2>4. PICK y : y = points[i].value
    OBVIOUS
  <2>5. y \in Stored \cup {0}
    BY <2>1, <2>3, <2>4
  <2>6. y \in Int
    BY <2>5
  <2> QED
    BY <2>4, <2>5, <2>6
<1>6. known # {} /\ known \subseteq Stored \cup {0} /\ known \subseteq Int
  BY <1>4, <1>5
<1>7. Aggregate(points).value = IF Method = "max" THEN Max(known) ELSE Min(known)
  BY <1>1, <1>2, <1>6 DEF Aggregate, Combine
<1>8. \E x \in known : \A y \in known : x >= y
  <2> DEFINE v == [i \in 1 .. n |-> points[i].value]
  <2>1. \A i \in Valid(points) : v[i] = points[i].value /\ v[i] \in Int
    BY <1>3, <1>5
  <2>2. PICK i \in Valid(points) : \A j \in Valid(points) : v[i] >= v[j]
    <3> HIDE DEF v
    <3> QED
      BY <1>3, <1>4, <2>1, Largest
  <2> QED
    BY <2>1, <2>2
<1>9. \E x \in known : \A y \in known : x <= y
  <2> DEFINE v == [i \in 1 .. n |-> 0 - points[i].value]
  <2>1. \A i \in Valid(points) :
            v[i] = 0 - points[i].value /\ v[i] \in Int /\ points[i].value \in Int
    BY <1>3, <1>5
  <2>2. PICK i \in Valid(points) : \A j \in Valid(points) : v[i] >= v[j]
    <3>1. \A j \in Valid(points) : v[j] \in Int
      BY <2>1
    <3> HIDE DEF v
    <3> QED
      BY <1>3, <1>4, <3>1, Largest
  <2>3. \A j \in Valid(points) : points[i].value <= points[j].value
    <3> HIDE DEF v
    <3> QED
      BY <2>1, <2>2
  <2> QED
    BY <2>3
<1> HIDE DEF known
<1>10. Max(known) \in known /\ Min(known) \in known
  BY <1>8, <1>9 DEF Max, Min
<1> QED
  BY <1>6, <1>7, <1>10

\* last returns what it finds, which may be no measurement.
LEMMA LastStored ==
    ASSUME Method = "last", NaN \in Stored
    PROVE  AggregatesStored
<1> SUFFICES ASSUME NEW n \in Nat \ {0}, NEW points \in [1 .. n -> Got]
             PROVE  Aggregate(points).value \in Stored \cup {0}
  BY DEF AggregatesStored
<1>1. points \in Seq(Got) /\ DOMAIN points = 1 .. n /\ n \in 1 .. n
  BY SequenceOf
<1>2. Len(points) = n /\ points # <<>>
  BY <1>1, LenProperties
<1>3. Aggregate(points).value = points[n].value
  BY <1>2 DEF Aggregate
<1> QED
  BY <1>1, <1>3 DEF Got

\* A fetch that does not leave the ints returns points of the ring, or of no value.
LEMMA FetchedGot ==
    ASSUME NEW arc, NEW S \in Nat \ {0}, NEW C \in Nat \ {0},
           NEW ring, NEW b \in Nat, NEW o \in 0 .. C - 1, NEW k \in Nat \ {0},
           arc.spp = S, arc.count = C, 2 * C <= Word \div 2,
           ring \in [0 .. C - 1 -> Cell]
    PROVE  \E n \in Nat : FetchPointsFrom(arc, Point(b, 0), ring, o, k) \in [1 .. n -> Got]
<1>1. Word \div 2 \in Nat /\ Word \in Nat \ {0} /\ Word = 2 * (Word \div 2)
  BY WordAssumption
<1>2. PICK n \in 1 .. C : n = Capped(k, C)
  BY DEF Capped
<1>3. Signed(Wrap(o + n)) = o + n
  <2>1. PICK x \in Int : x = o + n
    OBVIOUS
  <2>2. -(Word \div 2) <= x /\ x < Word \div 2
    BY <2>1, <1>1
  <2> QED
    BY <2>1, <2>2, SignedDistance
<1>4. o % C = o
  BY ModSmall
<1>5. PICK u : u = (o + n) % C
  OBVIOUS
<1>6. FetchReadPoints(arc, ring, o, u, n) = Turned(C, ring, o, n)
  BY <1>5, ReadTurns
<1>7. FetchPointsFrom(arc, Point(b, 0), ring, o, k)
        = FilterPoints(Point(b, 0), arc, o, Turned(C, ring, o, n))
  BY <1>2, <1>3, <1>4, <1>5, <1>6 DEF FetchPointsFrom, PointMod
<1> DEFINE counter(i) == Wrap(b + S * (o + i - 1))
           turned == Turned(C, ring, o, n)
           got == [i \in 1 .. n |-> IF turned[i].timestamp = counter(i) THEN turned[i]
                                    ELSE Point(counter(i), NaN)]
<1>8. FilterPoints(Point(b, 0), arc, o, turned) = got
  BY DEF FilterPoints, Turned, Point
<1>9. ASSUME NEW i \in 1 .. n PROVE got[i] \in Got
  <2>1. turned[i] \in Cell
    <3>1. (o + i - 1) % C \in 0 .. C - 1
      <4>1. PICK x \in Int : x = o + i - 1
        OBVIOUS
      <4> QED
        BY <4>1, DivMod
    <3> QED
      BY <3>1 DEF Turned
  <2>2. counter(i) \in Timestamp
    <3>1. PICK x \in Int : x = b + S * (o + i - 1)
      OBVIOUS
    <3>2. x % Word \in 0 .. Word - 1
      BY <1>1, DivMod
    <3> QED
      BY <3>1, <3>2 DEF Wrap, Timestamp
  <2>3. PICK t \in Timestamp, p \in Cell : t = counter(i) /\ p = turned[i]
    BY <2>1, <2>2
  <2>4. p \in Got /\ Point(t, NaN) \in Got
    BY DEF Cell, Got, Point
  <2> QED
    BY <2>3, <2>4
<1>10. got \in [1 .. n -> Got]
  <2> HIDE DEF counter, turned
  <2> QED
    BY <1>9
<1>11. FetchPointsFrom(arc, Point(b, 0), ring, o, k) = got /\ n \in Nat
  BY <1>7, <1>8
<1> HIDE DEF got
<1> QED
  BY <1>10, <1>11

LEMMA InitTyped == TypedStart /\ Init => TypedInv
<1> SUFFICES ASSUME TypedStart, Init PROVE TypedInv
  OBVIOUS
<1>1. FrameTyped("idle", Idle("OK"))
  BY DEF FrameTyped, Idle, Statuses
<1>2. \A w \in Writers : FrameTyped(pc[w], upd[w])
  BY <1>1 DEF Init
<1>3. now \in MinNow .. MaxNow
  BY DEF Init, TypedStart
<1> QED
  BY <1>2, <1>3, InitFrames DEF Init, TypedStart, TypedInv

\* A writer has gone where its frame is of its type.
Goes(w) == \E p, u : Go(w, p, u) /\ FrameTyped(p, u)

LEMMA GoTyped ==
    ASSUME TypedInv, NEW w \in Writers, Goes(w)
    PROVE  \A x \in Writers : FrameTyped(pc'[x], upd'[x])
<1>1. PICK p, u : Go(w, p, u) /\ FrameTyped(p, u)
  BY DEF Goes
<1>2. ASSUME NEW x \in Writers PROVE FrameTyped(pc'[x], upd'[x])
  <2>1. CASE x = w
    <3>1. pc'[x] = p /\ upd'[x] = u
      BY <1>1, <2>1 DEF Go, TypedInv, FramesOK
    <3> QED
      BY <1>1, <3>1
  <2>2. CASE x # w
    <3>1. pc'[x] = pc[x] /\ upd'[x] = upd[x]
      BY <1>1, <2>2 DEF Go, TypedInv, FramesOK
    <3> QED
      BY <3>1 DEF TypedInv
  <2> QED
    BY <2>1, <2>2
<1> QED
  BY <1>2

LEMMA IdleTyped ==
    ASSUME NEW status \in Statuses, status # "running"
    PROVE  FrameTyped("idle", Idle(status))
BY DEF FrameTyped, Idle

\* Calls begin with nothing stored and end with a status.
LEMMA CallsTyped ==
    ASSUME TypedInv, NEW w \in Writers,
           Call(w) \/ RefusePoint(w) \/ Return(w) \/ Crash(w)
    PROVE  Goes(w)
<1>1. ASSUME Call(w) PROVE Goes(w)
  <2>1. PICK batch :
           Go(w, "next", [Idle("running") EXCEPT !.clock = now, !.todo = batch])
    BY <1>1 DEF Call
  <2> DEFINE new == [Idle("running") EXCEPT !.clock = now, !.todo = batch]
  <2>2. new.status = "running" /\ new.value = 0 /\ new.wrote = {}
    BY DEF Idle
  <2>3. FrameTyped("next", new)
    <3> HIDE DEF new
    <3> QED
      BY <2>2 DEF FrameTyped, Statuses
  <2> QED
    BY <2>1, <2>3 DEF Goes
<1>2. ASSUME RefusePoint(w) PROVE Goes(w)
  <2>1. PICK clock, t : /\ Refusal(clock, t) # "none"
                        /\ Go(w, "idle", Idle(Refusal(clock, t)))
    BY <1>2 DEF RefusePoint, Finish
  <2>2. Refusal(clock, t) \in Statuses /\ Refusal(clock, t) # "running"
    BY <2>1 DEF Refusal, Statuses
  <2> QED
    BY <2>1, <2>2, IdleTyped DEF Goes
<1>3. ASSUME Return(w) \/ Crash(w) PROVE Goes(w)
  <2>1. PICK status \in {"OK", "crashed"} : Go(w, "idle", Idle(status))
    BY <1>3 DEF Return, Crash, Finish
  <2>2. status \in Statuses /\ status # "running"
    BY DEF Statuses
  <2> QED
    BY <2>1, <2>2, IdleTyped DEF Goes
<1> QED
  BY <1>1, <1>2, <1>3

LEMMA NextPointTyped ==
    ASSUME TypedStart, TypedInv, NEW w \in Writers, NextPoint(w)
    PROVE  Goes(w)
<1>1. PICK u : u = upd[w]
  OBVIOUS
<1>2. PICK p, low : /\ p = Head(u.todo)
                    /\ Go(w, "loadBase",
                          [u EXCEPT !.todo = Tail(@), !.time = p.timestamp,
                                    !.value = p.value, !.low = low, !.level = low,
                                    !.wrote = {}])
  BY <1>1 DEF NextPoint
<1>3. IsFrame(u) /\ u.todo \in Seq(Inputs) /\ u.todo # <<>> /\ u.status = "running"
  BY <1>1 DEF NextPoint, TypedInv, FramesOK, FrameOK
<1>4. p.value \in Stored \cup {0}
  <2>1. p \in Inputs
    BY <1>2, <1>3, HeadTailProperties
  <2> QED
    BY <2>1 DEF TypedStart
<1> DEFINE new == [u EXCEPT !.todo = Tail(@), !.time = p.timestamp,
                            !.value = p.value, !.low = low, !.level = low,
                            !.wrote = {}]
<1>5. new.status = u.status /\ new.value = p.value /\ new.wrote = {}
  BY <1>3 DEF IsFrame, Fields
<1>6. FrameTyped("loadBase", new)
  <2> HIDE DEF new
  <2> QED
    BY <1>3, <1>4, <1>5 DEF FrameTyped, Statuses
<1> QED
  BY <1>2, <1>6 DEF Goes

\* A base loaded from an archive is a timestamp.
LEMMA BaseTyped ==
    ASSUME TypedInv, NEW l \in Levels
    PROVE  rings[l][0].timestamp \in Timestamp
<1>1. 0 \in Slots(Archives[l])
  BY ArchiveFacts DEF Slots
<1>2. rings[l][0] \in Cell
  BY <1>1 DEF TypedInv, TypedRing
<1> QED
  BY <1>2 DEF Cell

LEMMA LoadBaseTyped ==
    ASSUME TypedInv, NEW w \in Writers, LoadBase(w)
    PROVE  Goes(w)
<1>1. PICK u : u = upd[w]
  OBVIOUS
<1>2. PICK b \in Timestamp : b = rings[u.level][0].timestamp
  <2>1. u.level \in Levels
    BY <1>1 DEF LoadBase, TypedInv, FramesOK, FrameOK, Updating
  <2> QED
    BY <2>1, BaseTyped
<1>3. IsFrame(u) /\ FrameTyped("loadBase", u)
  BY <1>1 DEF LoadBase, TypedInv, FramesOK, FrameOK
<1> DEFINE new == [u EXCEPT !.base = b]
           failed == [Idle("POINT_OOB") EXCEPT !.wrote = u.wrote]
<1>4. Go(w, "save", new) \/ Go(w, "idle", failed)
  BY <1>1, <1>2 DEF LoadBase
<1>5. FrameTyped("save", new)
  <2>1. new.status = u.status /\ new.value = u.value /\ new.wrote = u.wrote /\ new.base = b
    BY <1>3 DEF IsFrame, Fields
  <2> HIDE DEF new
  <2> QED
    BY <2>1, <1>3 DEF FrameTyped
<1>6. FrameTyped("idle", failed)
  <2>1. failed.status = "POINT_OOB" /\ failed.value = 0 /\ failed.wrote = u.wrote
    BY DEF Idle
  <2> HIDE DEF failed
  <2> QED
    BY <2>1, <1>3 DEF FrameTyped, Statuses
<1> QED
  BY <1>4, <1>5, <1>6 DEF Goes

LEMMA SavePointTyped ==
    ASSUME TypedInv, NEW w \in Writers, SavePoint(w)
    PROVE  Goes(w)
<1>1. PICK u : u = upd[w]
  OBVIOUS
<1>2. IsFrame(u) /\ FrameTyped("save", u) /\ u.level \in Levels
  BY <1>1 DEF SavePoint, TypedInv, FramesOK, FrameOK, Updating
<1> DEFINE done == [u EXCEPT !.wrote = @ \cup {u.level}]
           last == [done EXCEPT !.base = 0]
           next == [done EXCEPT !.level = @ + 1]
<1>3. Go(w, "next", last) \/ Go(w, "fetchBase", next)
  BY <1>1 DEF SavePoint
<1>4. FrameTyped("next", last)
  <2>1. /\ last.status = u.status /\ last.value = u.value
        /\ last.wrote = u.wrote \cup {u.level}
    BY <1>2 DEF IsFrame, Fields
  <2> HIDE DEF last
  <2> QED
    BY <2>1, <1>2 DEF FrameTyped
<1>5. FrameTyped("fetchBase", next)
  <2>1. /\ next.status = u.status /\ next.value = u.value /\ next.base = u.base
        /\ next.wrote = u.wrote \cup {u.level}
    BY <1>2 DEF IsFrame, Fields
  <2> HIDE DEF next
  <2> QED
    BY <2>1, <1>2 DEF FrameTyped
<1> QED
  BY <1>3, <1>4, <1>5 DEF Goes

LEMMA FetchBaseTyped ==
    ASSUME TypedInv, NEW w \in Writers, FetchBase(w)
    PROVE  Goes(w)
<1>1. PICK u : u = upd[w]
  OBVIOUS
<1>2. IsFrame(u) /\ FrameTyped("fetchBase", u) /\ u.level - 1 \in Levels
  BY <1>1 DEF FetchBase, TypedInv, FramesOK, FrameOK
<1>3. PICK b \in Timestamp : b = rings[u.level - 1][0].timestamp
  BY <1>2, BaseTyped
<1> DEFINE new == [u EXCEPT !.bucketBase = b]
<1>4. Go(w, "fetch", new)
  BY <1>1, <1>3 DEF FetchBase
<1>5. FrameTyped("fetch", new)
  <2>1. /\ new.status = u.status /\ new.value = u.value /\ new.wrote = u.wrote
        /\ new.base = u.base /\ new.bucketBase = b
    BY <1>2 DEF IsFrame, Fields
  <2> HIDE DEF new
  <2> QED
    BY <2>1, <1>2 DEF FrameTyped
<1> QED
  BY <1>4, <1>5 DEF Goes

\* The slot a timestamp is computed to be in is one.
LEMMA PrevSlot ==
    ASSUME NEW S \in Nat \ {0}, NEW C \in Nat \ {0}, NEW b \in Int, NEW f \in Int
    PROVE  (Wrap(f - b) \div S) % C \in 0 .. C - 1
<1>1. PICK x \in Int : x = f - b
  OBVIOUS
<1>2. x % Word \in 0 .. Word - 1
  BY WordAssumption, DivMod
<1>3. PICK y \in Int : y = Wrap(f - b)
  BY <1>1, <1>2, WordAssumption DEF Wrap
<1>4. PICK z \in Int : z = y \div S
  BY DivMod
<1>5. z % C \in 0 .. C - 1
  BY DivMod
<1> QED
  BY <1>3, <1>4, <1>5

LEMMA FetchWindowTyped ==
    ASSUME TypedStart, CountsFit, TypedInv, NEW w \in Writers, FetchWindow(w)
    PROVE  Goes(w)
<1>1. PICK u : u = upd[w]
  OBVIOUS
<1>2. /\ IsFrame(u) /\ FrameTyped("fetch", u)
      /\ u.level - 1 \in Levels /\ u.level \in Levels /\ u.time \in Times
  BY <1>1 DEF FetchWindow, TypedInv, FramesOK, FrameOK, Updating
<1>3. PICK arc, ring : arc = Archives[u.level - 1] /\ ring = rings[u.level - 1]
  OBVIOUS
<1>4. PICK S \in Nat \ {0}, C \in Nat \ {0}, B \in Nat \ {0} :
         /\ S = arc.spp /\ C = arc.count /\ B = Archives[u.level].spp
         /\ 2 * C <= Word \div 2
         /\ ring \in [0 .. C - 1 -> Cell]
  <2>1. /\ arc.spp \in Nat \ {0} /\ arc.count \in Nat \ {0}
        /\ Archives[u.level].spp \in Nat \ {0}
    BY <1>2, <1>3, ArchiveFacts
  <2>2. 2 * arc.count <= Word \div 2
    BY <1>2, <1>3 DEF CountsFit
  <2>3. ring \in [0 .. arc.count - 1 -> Cell]
    BY <1>2, <1>3 DEF TypedInv, TypedRing, Slots
  <2> QED
    BY <2>1, <2>2, <2>3
<1>5. PICK k \in Nat \ {0} : k = PrevCount(u)
  <2>1. u.level \in 2 .. Len(Archives)
    BY <1>2, ArchiveFacts DEF Levels
  <2>2. B > S
    BY <2>1, <1>3, <1>4, UpdateAssumption DEF ArchivesAssumption
  <2>3. B = S * (B \div S) + (B % S) /\ B \div S \in Int /\ B % S \in 0 .. S - 1
    BY DivMod
  <2>4. PICK q \in Int, r \in 0 .. S - 1 : q = B \div S /\ B = S * q + r
    BY <2>3
  <2>5. q >= 1
    <3>1. ASSUME q <= 0 PROVE FALSE
      <4>1. S * q <= 0
        BY <3>1
      <4>2. S * q \in Int
        OBVIOUS
      <4> QED
        BY <2>2, <2>4, <4>1, <4>2
    <3> QED
      BY <3>1
  <2>6. PrevCount(u) = q
    BY <1>3, <1>4, <2>4 DEF PrevCount, PrevArc
  <2> QED
    BY <2>5, <2>6
<1>6. PICK o \in 0 .. C - 1 : o = PrevIndex(u)
  <2>1. PICK f \in Int : f = TimeFloor(u.time, B)
    BY <1>2, <1>4, FlooredTime DEF Timestamp
  <2>2. PICK b \in Int : b = u.base
    BY <1>2 DEF FrameTyped, Timestamp
  <2>3. PrevIndex(u) = (Wrap(f - b) \div S) % C
    BY <1>3, <1>4, <2>1, <2>2 DEF PrevIndex, PrevArc, PointIndex, Point
  <2>4. (Wrap(f - b) \div S) % C \in 0 .. C - 1
    BY PrevSlot
  <2> QED
    BY <2>3, <2>4
<1>7. PICK b \in Nat : b = u.bucketBase
  BY <1>2, WordAssumption DEF FrameTyped, Timestamp
<1>8. PICK fetched : fetched = FetchPointsFrom(arc, Point(b, 0), ring, o, k)
  OBVIOUS
<1>9. PICK n \in Nat : fetched \in [1 .. n -> Got]
  BY <1>4, <1>8, FetchedGot
<1>10. Len(fetched) = n
  <2>1. fetched \in Seq(Got) /\ DOMAIN fetched = 1 .. n
    BY <1>9, SequenceOf
  <2> QED
    BY <2>1, LenProperties
<1>11. PICK junk \in [n + 1 .. k -> Junk] :
          Go(w, "aggregate",
             [u EXCEPT !.bucketBase = 0,
                       !.window = [i \in 1 .. k |-> IF i <= n THEN fetched[i]
                                                    ELSE Point(0, junk[i])]])
  <2>1. fetched = FetchPointsFrom(PrevArc(u), Point(u.bucketBase, 0),
                                  rings[u.level - 1], PrevIndex(u), PrevCount(u))
    BY <1>3, <1>5, <1>6, <1>7, <1>8 DEF PrevArc
  <2> QED
    BY <2>1, <1>1, <1>5, <1>10 DEF FetchWindow
<1> DEFINE window == [i \in 1 .. k |-> IF i <= n THEN fetched[i] ELSE Point(0, junk[i])]
           new == [u EXCEPT !.bucketBase = 0, !.window = window]
<1>12. window \in [1 .. k -> Got]
  <2>1. ASSUME NEW i \in 1 .. k PROVE window[i] \in Got
    <3>1. CASE i <= n
      BY <3>1, <1>9
    <3>2. CASE i > n
      <4>1. PICK j \in Stored \cup {0, NaN} : j = junk[i]
        BY <3>2 DEF TypedStart
      <4>2. Point(0, j) \in Got
        BY WordAssumption DEF Point, Got, Timestamp
      <4> QED
        BY <3>2, <4>1, <4>2
    <3> QED
      BY <3>1, <3>2
  <2> HIDE DEF window
  <2>2. window = [i \in 1 .. k |-> window[i]]
    BY DEF window
  <2> QED
    BY <2>1, <2>2
<1>13. FrameTyped("aggregate", new)
  <2> HIDE DEF window
  <2>1. /\ new.status = u.status /\ new.value = u.value /\ new.wrote = u.wrote
        /\ new.window = window
    BY <1>2 DEF IsFrame, Fields
  <2> HIDE DEF new
  <2> QED
    BY <2>1, <1>2, <1>12 DEF FrameTyped
<1> QED
  BY <1>11, <1>13 DEF Goes

LEMMA AggregateValueTyped ==
    ASSUME AggregatesStored, TypedInv, NEW w \in Writers, AggregateValue(w)
    PROVE  Goes(w)
<1>1. PICK u : u = upd[w]
  OBVIOUS
<1>2. IsFrame(u) /\ FrameTyped("aggregate", u)
  BY <1>1 DEF AggregateValue, TypedInv, FramesOK, FrameOK
<1>3. PICK a : a = Aggregate(u.window)
  OBVIOUS
<1>4. ~ a.skip => a.value \in Stored \cup {0}
  BY <1>2, <1>3 DEF FrameTyped, AggregatesStored
<1> DEFINE skipped == [u EXCEPT !.base = 0, !.window = <<>>]
           new == [u EXCEPT !.base = 0, !.window = <<>>, !.value = a.value]
<1>5. Go(w, "next", skipped) \/ (~ a.skip /\ Go(w, "loadBase", new))
  BY <1>1, <1>3 DEF AggregateValue
<1>6. FrameTyped("next", skipped)
  <2>1. skipped.status = u.status /\ skipped.value = u.value /\ skipped.wrote = u.wrote
    BY <1>2 DEF IsFrame, Fields
  <2> HIDE DEF skipped
  <2> QED
    BY <2>1, <1>2 DEF FrameTyped
<1>7. ~ a.skip => FrameTyped("loadBase", new)
  <2>1. new.status = u.status /\ new.value = a.value /\ new.wrote = u.wrote
    BY <1>2 DEF IsFrame, Fields
  <2> HIDE DEF new
  <2> QED
    BY <2>1, <1>2, <1>4 DEF FrameTyped
<1> QED
  BY <1>5, <1>6, <1>7 DEF Goes

\* A store puts a point of the archive's interval into its ring.
LEMMA StoreTyped ==
    ASSUME TypedInv, NEW w \in Writers, SavePoint(w)
    PROVE  /\ rings' = [l \in Levels |-> rings'[l]]
           /\ \A l \in Levels : TypedRing(Archives[l], rings'[l])
<1>1. PICK u : u = upd[w]
  OBVIOUS
<1>2. PICK k \in Levels : k = u.level
  BY <1>1 DEF SavePoint, TypedInv, FramesOK, FrameOK, Updating
<1>3. u.time \in Times /\ u.value \in Stored \cup {0}
  BY <1>1 DEF SavePoint, TypedInv, FramesOK, FrameOK, Updating, FrameTyped
<1>4. PICK m \in Nat \ {0} :
         /\ TimeFloor(u.time, Archives[k].spp) = Archives[k].spp * m
         /\ Archives[k].spp * m \in Timestamp
  BY <1>3, FlooredTime
<1>5. PICK t \in Timestamp :
         t = TimeFloor(u.time, Archives[k].spp) /\ t % Archives[k].spp = 0
  <2>1. PICK S \in Nat \ {0} : S = Archives[k].spp
    BY ArchiveFacts
  <2>2. (S * m) % S = 0
    BY MultipleMod
  <2> QED
    BY <2>1, <2>2, <1>4
<1>6. PICK p, slot : /\ p = Point(t, u.value)
                     /\ rings' = [rings EXCEPT ![k][slot] = p]
  BY <1>1, <1>2, <1>5 DEF SavePoint
<1>7. p \in Cell /\ p.timestamp = t
  BY <1>3, <1>6 DEF Cell, Point
<1>8. /\ rings' = [l \in Levels |-> rings'[l]]
      /\ rings'[k] = [rings[k] EXCEPT ![slot] = p]
      /\ \A l \in Levels : l # k => rings'[l] = rings[l]
  BY <1>6 DEF TypedInv
<1>9. TypedRing(Archives[k], rings'[k])
  <2>1. /\ rings[k] \in [Slots(Archives[k]) -> Cell]
        /\ \A i \in Slots(Archives[k]) : rings[k][i].timestamp % Archives[k].spp = 0
    BY DEF TypedInv, TypedRing
  <2>2. rings'[k] \in [Slots(Archives[k]) -> Cell]
    BY <2>1, <1>7, <1>8
  <2>3. \A i \in Slots(Archives[k]) : rings'[k][i] = rings[k][i] \/ rings'[k][i] = p
    BY <2>1, <1>8
  <2>4. \A i \in Slots(Archives[k]) : rings'[k][i].timestamp % Archives[k].spp = 0
    BY <2>1, <2>3, <1>5, <1>7
  <2> QED
    BY <2>2, <2>4 DEF TypedRing
<1> QED
  BY <1>8, <1>9 DEF TypedInv

LEMMA NextTyped ==
    ASSUME TypedStart, CountsFit, AggregatesStored, TypedInv, [Next]_vars
    PROVE  TypedInv'
<1>1. FramesOK'
  BY NextFrames DEF TypedInv
<1>2. ASSUME NEW w \in Writers, Call(w) \/ Step(w) \/ Crash(w)
      PROVE  \A x \in Writers : FrameTyped(pc'[x], upd'[x])
  <2>1. Goes(w)
    BY <1>2, CallsTyped, NextPointTyped, LoadBaseTyped, SavePointTyped, FetchBaseTyped,
       FetchWindowTyped, AggregateValueTyped DEF Step
  <2> QED
    BY <2>1, GoTyped
<1>3. ASSUME NEW w \in Writers, Call(w) \/ Step(w) \/ Crash(w)
      PROVE  SavePoint(w) \/ rings' = rings
  BY <1>3 DEF Call, Step, NextPoint, RefusePoint, Return, LoadBase, FetchBase,
              FetchWindow, AggregateValue, Crash
<1>4. ASSUME NEW w \in Writers, Call(w) \/ Step(w) \/ Crash(w)
      PROVE  now' = now
  BY <1>4 DEF Call, Step, NextPoint, RefusePoint, Return, LoadBase, SavePoint, FetchBase,
              FetchWindow, AggregateValue, Crash
<1>5. CASE \E w \in Writers : Call(w) \/ Step(w) \/ Crash(w)
  <2>1. PICK w \in Writers : Call(w) \/ Step(w) \/ Crash(w)
    BY <1>5
  <2>2. /\ rings' = [l \in Levels |-> rings'[l]]
        /\ \A l \in Levels : TypedRing(Archives[l], rings'[l])
    <3>1. CASE SavePoint(w)
      BY <3>1, StoreTyped
    <3>2. CASE rings' = rings
      BY <3>2 DEF TypedInv
    <3> QED
      BY <2>1, <1>3, <3>1, <3>2
  <2>3. now' = now /\ \A x \in Writers : FrameTyped(pc'[x], upd'[x])
    BY <2>1, <1>2, <1>4
  <2> QED
    BY <1>1, <2>2, <2>3 DEF TypedInv
<1>6. CASE Tick
  <2>1. now' \in MinNow .. MaxNow
    BY <1>6 DEF Tick, TypedInv, TypedStart
  <2>2. rings' = rings /\ pc' = pc /\ upd' = upd
    BY <1>6 DEF Tick
  <2> QED
    BY <1>1, <2>1, <2>2 DEF TypedInv
<1>7. CASE UNCHANGED vars
  BY <1>1, <1>7 DEF vars, TypedInv
<1> QED
  BY <1>5, <1>6, <1>7 DEF Next

\* What goes around in an update, from a ring through a window and an aggregate into
\* the next ring, stays of the type of points, with whatever is on the stack, and each
\* ring holds whole intervals of its own archive.
THEOREM UpdatesTypeCorrect ==
    ASSUME TypedStart, CountsFit, AggregatesStored
    PROVE  Spec => []TypeOK
<1>1. Init => TypedInv
  BY InitTyped
<1>2. TypedInv /\ [Next]_vars => TypedInv'
  BY NextTyped
<1>3. TypedInv => TypeOK
  <2> SUFFICES ASSUME TypedInv PROVE TypeOK
    OBVIOUS
  <2>1. ASSUME NEW l \in Levels
        PROVE  /\ DOMAIN rings[l] = Slots(Archives[l])
               /\ \A i \in Slots(Archives[l]) :
                    /\ rings[l][i].timestamp % Archives[l].spp = 0
                    /\ rings[l][i].value \in Stored \cup {0}
    <3>1. /\ rings[l] \in [Slots(Archives[l]) -> Cell]
          /\ \A i \in Slots(Archives[l]) : rings[l][i].timestamp % Archives[l].spp = 0
      BY DEF TypedInv, TypedRing
    <3>2. ASSUME NEW i \in Slots(Archives[l]) PROVE rings[l][i].value \in Stored \cup {0}
      <4>1. rings[l][i] \in Cell
        BY <3>1
      <4> QED
        BY <4>1 DEF Cell
    <3> QED
      BY <3>1, <3>2
  <2>2. pc \in [Writers -> Labels]
    BY DEF TypedInv, FramesOK, FrameOK
  <2>3. ASSUME NEW w \in Writers
        PROVE  /\ upd[w].status \in Statuses
               /\ upd[w].status = "running" <=> pc[w] # "idle"
               /\ upd[w].value \in Stored \cup {0}
               /\ upd[w].wrote \subseteq Levels
    BY DEF TypedInv, FrameTyped
  <2> QED
    BY <2>1, <2>2, <2>3 DEF TypeOK, TypedInv
<1> QED
  BY <1>1, <1>2, <1>3, PTL DEF Spec
=============================================================================
