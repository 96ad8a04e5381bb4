-------------------------- MODULE WspReaderProofs --------------------------
(***************************************************************************)
(* Theorems about WspReader: what a fetch is made of while a writer stores *)
(* by halves and dies anywhere, for any archives, readers and requests.    *)
(***************************************************************************)
EXTENDS WspReader, WspWindowProofs

-----------------------------------------------------------------------------
(* The times in the rings, which is all that slots and labels depend on.   *)

\* The ring with its values taken away: a half stored point is whole in it.
Stamps(arc, ring) == [i \in Slots(arc) |-> Point(ring[i].timestamp, 0)]

IsPoint(p) == p = Point(p.timestamp, p.value)

StampsOK ==
    /\ rings = [l \in Levels |-> rings[l]]
    /\ \A l \in Levels :
         /\ rings[l] = [i \in Slots(Archives[l]) |-> rings[l][i]]
         /\ \A i \in Slots(Archives[l]) : IsPoint(rings[l][i])
         /\ WholeRing(Archives[l], Stamps(Archives[l], rings[l]))
         /\ AlignedRing(Archives[l], Stamps(Archives[l], rings[l]))

\* The base the writer stores by: good, or the archive was empty and the first half
\* of the store has put the point's own time there.
SaveOK(p, u, halfway) ==
    p = "save" =>
        \/ KnownBase(Archives[u.level], rings[u.level], u.base)
        \/ /\ u.base = 0 /\ halfway
           /\ rings[u.level][0].timestamp = TimeFloor(u.time, Archives[u.level].spp)

RingsInv ==
    /\ FramesOK
    /\ StampsOK
    /\ half = [w \in Writers |-> half[w]]
    /\ \A w \in Writers : SaveOK(pc[w], upd[w], half[w])

\* The database was sound before.
PointsStart ==
    /\ SoundStart
    /\ \A l \in Levels : \A i \in Slots(Archives[l]) : IsPoint(InitialRings[l][i])

LEMMA StampOf ==
    ASSUME NEW arc, NEW ring, NEW i \in Slots(arc)
    PROVE  Stamps(arc, ring)[i] = Point(ring[i].timestamp, 0)
           /\ Stamps(arc, ring)[i].timestamp = ring[i].timestamp
BY DEF Stamps, Point

\* A sound ring is sound without its values.
LEMMA StampsSound ==
    ASSUME NEW arc, NEW ring, WholeRing(arc, ring), AlignedRing(arc, ring),
           0 \in Slots(arc)
    PROVE  WholeRing(arc, Stamps(arc, ring)) /\ AlignedRing(arc, Stamps(arc, ring))
<1> DEFINE new == Stamps(arc, ring)
<1>1. new = [i \in Slots(arc) |-> new[i]]
  BY DEF Stamps
<1>2. \A i \in Slots(arc) : new[i] = Point(ring[i].timestamp, 0)
                            /\ new[i].timestamp = ring[i].timestamp
  BY StampOf
<1> HIDE DEF new
<1>3. WholeRing(arc, new)
  <2>1. \A i \in Slots(arc) : new[i].timestamp = 0 => new[i] = Blank
    BY <1>2 DEF Blank
  <2>2. \A i \in Slots(arc) : \E n \in Nat :
          new[i].timestamp = arc.spp * n /\ arc.spp * n \in Timestamp
    BY <1>2 DEF WholeRing
  <2> QED
    BY <1>1, <2>1, <2>2 DEF WholeRing
<1>4. AlignedRing(arc, new)
  BY <1>2 DEF AlignedRing
<1> QED
  BY <1>3, <1>4 DEF new

LEMMA InitRings == PointsStart /\ ReaderInit => RingsInv
<1> SUFFICES ASSUME PointsStart, ReaderInit PROVE RingsInv
  OBVIOUS
<1>1. FramesOK
  BY InitFrames DEF ReaderInit
<1>2. ASSUME NEW l \in Levels
      PROVE  /\ rings[l] = [i \in Slots(Archives[l]) |-> rings[l][i]]
             /\ \A i \in Slots(Archives[l]) : IsPoint(rings[l][i])
             /\ WholeRing(Archives[l], Stamps(Archives[l], rings[l]))
             /\ AlignedRing(Archives[l], Stamps(Archives[l], rings[l]))
  <2>1. WholeRing(Archives[l], rings[l]) /\ AlignedRing(Archives[l], rings[l])
    BY DEF ReaderInit, Init, PointsStart, SoundStart
  <2>2. 0 \in Slots(Archives[l])
    BY ArchiveFacts DEF Slots
  <2>3. WholeRing(Archives[l], Stamps(Archives[l], rings[l]))
        /\ AlignedRing(Archives[l], Stamps(Archives[l], rings[l]))
    BY <2>1, <2>2, StampsSound
  <2> QED
    BY <2>1, <2>3 DEF ReaderInit, Init, PointsStart, WholeRing
<1>3. StampsOK
  BY <1>2 DEF StampsOK, ReaderInit, Init, PointsStart, SoundStart
<1> QED
  BY <1>1, <1>3 DEF RingsInv, ReaderInit, Init, SaveOK

LEMMA TheWriter ==
    ASSUME NEW w \in Writers
    PROVE  \A x \in Writers : x = w
BY OneWriterAssumption

\* The base a store goes by, and what the times of the ring are after it.
StoreBase(arc, stamps, b, t) ==
    \/ KnownBase(arc, stamps, b)
    \/ b = 0 /\ stamps[0] = Point(t, 0)

\* A store of the m-th time by base b into a sound ring.
StoreFits(arc, stamps, b, m) ==
    /\ arc.spp \in Nat \ {0} /\ arc.count \in Nat \ {0}
    /\ (Word \div arc.spp) % arc.count = 0
    /\ WholeRing(arc, stamps) /\ AlignedRing(arc, stamps)
    /\ arc.spp * m \in Timestamp
    /\ StoreBase(arc, stamps, b, arc.spp * m)

LEMMA StampStore ==
    ASSUME NEW arc, NEW stamps, NEW b, NEW m \in Nat \ {0}, NEW new,
           StoreFits(arc, stamps, b, m),
           new = [stamps EXCEPT ![WriteIndex(arc, Point(b, 0), arc.spp * m)] =
                      Point(arc.spp * m, 0)]
    PROVE  /\ WriteIndex(arc, Point(b, 0), arc.spp * m) \in Slots(arc)
           /\ WholeRing(arc, new) /\ AlignedRing(arc, new)
           /\ BasesKept(arc, stamps, new)
<1> USE DEF StoreFits
<1>1. CASE KnownBase(arc, stamps, b)
  <2>1. WriteIndex(arc, Point(b, 0), arc.spp * m) \in Slots(arc)
    BY <1>1, SlotOfKnownBase
  <2>2. WholeRing(arc, new) /\ AlignedRing(arc, new) /\ BasesKept(arc, stamps, new)
    BY <1>1, StoreKeepsAligned
  <2> QED
    BY <2>1, <2>2
<1>2. CASE b = 0 /\ stamps[0] = Point(arc.spp * m, 0)
  <2>1. WriteIndex(arc, Point(b, 0), arc.spp * m) = 0
    BY <1>2 DEF WriteIndex, Point
  <2>2. 0 \in Slots(arc)
    BY DEF Slots
  <2>3. stamps = [i \in Slots(arc) |-> stamps[i]]
    BY DEF WholeRing
  <2>4. new = stamps
    BY <1>2, <2>1, <2>2, <2>3
  <2> QED
    BY <2>1, <2>2, <2>4 DEF BasesKept
<1> QED
  BY <1>1, <1>2 DEF StoreBase

\* A base is as good for a ring as it is for its times.
LEMMA StampBase ==
    ASSUME NEW arc, NEW ring, NEW b, 0 \in Slots(arc)
    PROVE  KnownBase(arc, Stamps(arc, ring), b) <=> KnownBase(arc, ring, b)
<1>1. Stamps(arc, ring)[0].timestamp = ring[0].timestamp
  BY StampOf
<1> QED
  BY <1>1 DEF KnownBase

\* Point p is now in slot i of archive l.
StoredAt(l, i, p) == rings' = [rings EXCEPT ![l][i] = p]

\* That, and nothing else, has changed.
ChangesSlot(l, i, p) ==
    /\ rings' = [k \in Levels |-> rings'[k]]
    /\ \A k \in Levels : k # l => rings'[k] = rings[k]
    /\ rings'[l] = [j \in Slots(Archives[l]) |-> rings'[l][j]]
    /\ rings'[l][i] = p
    /\ \A j \in Slots(Archives[l]) : j # i => rings'[l][j] = rings[l][j]

LEMMA StoredFacts ==
    ASSUME NEW l \in Levels, NEW i \in Slots(Archives[l]), NEW p,
           StampsOK, StoredAt(l, i, p)
    PROVE  ChangesSlot(l, i, p)
<1>1. /\ rings = [k \in Levels |-> rings[k]]
      /\ rings[l] = [j \in Slots(Archives[l]) |-> rings[l][j]]
  BY DEF StampsOK
<1>2. rings'[l] = [rings[l] EXCEPT ![i] = p]
  BY <1>1 DEF StoredAt
<1>3. /\ rings' = [k \in Levels |-> rings'[k]]
      /\ \A k \in Levels : k # l => rings'[k] = rings[k]
  BY <1>1 DEF StoredAt
<1>4. /\ rings'[l] = [j \in Slots(Archives[l]) |-> rings'[l][j]]
      /\ rings'[l][i] = p
      /\ \A j \in Slots(Archives[l]) : j # i => rings'[l][j] = rings[l][j]
  BY <1>1, <1>2
<1> QED
  BY <1>3, <1>4 DEF ChangesSlot

\* The slot a writer stores to, and the time.
Slot(u)     == WriteIndex(Archives[u.level], Point(u.base, 0),
                          TimeFloor(u.time, Archives[u.level].spp))
Floored(u)  == TimeFloor(u.time, Archives[u.level].spp)

LEMMA SavingFacts ==
    ASSUME RingsInv, NEW w \in Writers, pc[w] = "save"
    PROVE  /\ IsFrame(upd[w]) /\ upd[w].level \in Levels /\ upd[w].time \in Times
           /\ 0 \in Slots(Archives[upd[w].level])
           /\ Target(w) = <<upd[w].level, Slot(upd[w])>>
           /\ StoreBase(Archives[upd[w].level],
                        Stamps(Archives[upd[w].level], rings[upd[w].level]),
                        upd[w].base, Floored(upd[w]))
           /\ upd[w].base = 0 => Slot(upd[w]) = 0
<1> DEFINE u == upd[w]
           arc == Archives[u.level]
<1>1. IsFrame(u) /\ u.level \in Levels /\ u.time \in Times
  BY DEF RingsInv, FramesOK, FrameOK, Updating
<1>2. 0 \in Slots(arc)
  BY <1>1, ArchiveFacts DEF Slots
<1>3. Target(w) = <<u.level, Slot(u)>>
  BY DEF Target, Slot
<1>4. SaveOK(pc[w], u, half[w])
  BY DEF RingsInv
<1>5. StoreBase(arc, Stamps(arc, rings[u.level]), u.base, Floored(u))
  <2>1. CASE KnownBase(arc, rings[u.level], u.base)
    BY <2>1, <1>2, StampBase DEF StoreBase
  <2>2. CASE u.base = 0 /\ rings[u.level][0].timestamp = Floored(u)
    <3>1. Stamps(arc, rings[u.level])[0] = Point(Floored(u), 0)
      BY <1>2, <2>2, StampOf
    <3> QED
      BY <2>2, <3>1 DEF StoreBase
  <2> QED
    BY <1>4, <2>1, <2>2 DEF SaveOK, Floored
<1>6. u.base = 0 => Slot(u) = 0
  BY DEF Slot, WriteIndex, Point
<1> QED
  BY <1>1, <1>2, <1>3, <1>5, <1>6

LEMMA SlotInRing ==
    ASSUME NEW w \in Writers, RingsInv, LapsDivideWord, pc[w] = "save"
    PROVE  Slot(upd[w]) \in Slots(Archives[upd[w].level])
<1> DEFINE u == upd[w]
           l == u.level
           arc == Archives[l]
           old == Stamps(arc, rings[l])
<1>1. /\ l \in Levels /\ u.time \in Times /\ 0 \in Slots(arc)
      /\ StoreBase(arc, old, u.base, Floored(u))
  BY SavingFacts
<1>2. PICK m \in Nat \ {0} : Floored(u) = arc.spp * m /\ arc.spp * m \in Timestamp
  BY <1>1, FlooredTime DEF Floored
<1>3. /\ arc.spp \in Nat \ {0} /\ arc.count \in Nat \ {0}
      /\ (Word \div arc.spp) % arc.count = 0
  BY <1>1, ArchiveFacts DEF LapsDivideWord
<1>4. WholeRing(arc, old) /\ AlignedRing(arc, old)
  BY <1>1 DEF RingsInv, StampsOK
<1>5. Slot(u) = WriteIndex(arc, Point(u.base, 0), arc.spp * m)
  BY <1>2 DEF Slot, Floored
<1>6. WriteIndex(arc, Point(u.base, 0), arc.spp * m) \in Slots(arc)
  <2> DEFINE b == u.base
  <2>1. StoreBase(arc, old, b, arc.spp * m)
    BY <1>1, <1>2
  <2>2. \A next : next = [old EXCEPT ![WriteIndex(arc, Point(b, 0), arc.spp * m)] =
                            Point(arc.spp * m, 0)] =>
          WriteIndex(arc, Point(b, 0), arc.spp * m) \in Slots(arc)
    <3>1. StoreFits(arc, old, b, m)
      BY <2>1, <1>2, <1>3, <1>4 DEF StoreFits
    <3> HIDE DEF arc, old, b
    <3> QED
      BY <3>1, StampStore
  <2> QED
    BY <2>2
<1> QED
  BY <1>5, <1>6

\* A store of the time, by itself or with the value, or of the value alone: the
\* times stay sound, and bases that were good before are good.
LEMMA StoreStamps ==
    ASSUME RingsInv, LapsDivideWord, NEW w \in Writers, pc[w] = "save",
           NEW p, IsPoint(p),
           StoredAt(upd[w].level, Slot(upd[w]), p),
           p.timestamp \in {Floored(upd[w]),
                            rings[upd[w].level][Slot(upd[w])].timestamp}
    PROVE  /\ Slot(upd[w]) \in Slots(Archives[upd[w].level])
           /\ StampsOK'
           /\ BasesKept(Archives[upd[w].level], rings[upd[w].level], rings'[upd[w].level])
<1> DEFINE u == upd[w]
           l == u.level
           arc == Archives[l]
           i == Slot(u)
           old == Stamps(arc, rings[l])
           new == Stamps(arc, rings'[l])
<1>1. /\ l \in Levels /\ u.time \in Times /\ 0 \in Slots(arc)
      /\ StoreBase(arc, old, u.base, Floored(u))
  BY SavingFacts
<1>2. PICK m \in Nat \ {0} : Floored(u) = arc.spp * m /\ arc.spp * m \in Timestamp
  BY <1>1, FlooredTime DEF Floored
<1>3. /\ arc.spp \in Nat \ {0} /\ arc.count \in Nat \ {0}
      /\ (Word \div arc.spp) % arc.count = 0
  BY <1>1, ArchiveFacts DEF LapsDivideWord
<1>4. WholeRing(arc, old) /\ AlignedRing(arc, old)
  BY <1>1 DEF RingsInv, StampsOK
<1>5. i = WriteIndex(arc, Point(u.base, 0), arc.spp * m)
  BY <1>2 DEF Slot, Floored
<1>6. /\ i \in Slots(arc)
      /\ \A next : next = [old EXCEPT ![i] = Point(arc.spp * m, 0)] =>
           WholeRing(arc, next) /\ AlignedRing(arc, next) /\ BasesKept(arc, old, next)
  <2> DEFINE b == u.base
  <2>1. StoreBase(arc, old, b, arc.spp * m) /\ i = WriteIndex(arc, Point(b, 0), arc.spp * m)
    BY <1>1, <1>2, <1>5
  <2> HIDE DEF u, l, arc, old, new, b, i
  <2>2. SUFFICES ASSUME NEW next, next = [old EXCEPT ![i] = Point(arc.spp * m, 0)]
                 PROVE  /\ i \in Slots(arc)
                        /\ WholeRing(arc, next) /\ AlignedRing(arc, next)
                        /\ BasesKept(arc, old, next)
    OBVIOUS
  <2>3. next = [old EXCEPT ![WriteIndex(arc, Point(b, 0), arc.spp * m)] =
                    Point(arc.spp * m, 0)]
    BY <2>1, <2>2
  <2>4. arc.spp * m \in Timestamp
    BY <1>2
  <2>5. StoreFits(arc, old, b, m)
    BY <2>1, <2>4, <1>3, <1>4 DEF StoreFits
  <2>6. /\ WriteIndex(arc, Point(b, 0), arc.spp * m) \in Slots(arc)
        /\ WholeRing(arc, next) /\ AlignedRing(arc, next)
        /\ BasesKept(arc, old, next)
    BY <2>3, <2>5, StampStore
  <2> QED
    BY <2>1, <2>6
<1>7. /\ rings' = [k \in Levels |-> rings'[k]]
      /\ \A k \in Levels : k # l => rings'[k] = rings[k]
      /\ rings'[l] = [j \in Slots(arc) |-> rings'[l][j]]
      /\ rings'[l][i] = p
      /\ \A j \in Slots(arc) : j # i => rings'[l][j] = rings[l][j]
  <2>1. StampsOK /\ l \in Levels /\ i \in Slots(Archives[l]) /\ StoredAt(l, i, p)
    BY <1>1, <1>6 DEF RingsInv
  <2>2. ChangesSlot(l, i, p)
    BY <2>1, StoredFacts
  <2> QED
    BY <2>2 DEF ChangesSlot
<1>8. WholeRing(arc, new) /\ AlignedRing(arc, new) /\ BasesKept(arc, old, new)
  <2>1. CASE p.timestamp = Floored(u)
    <3>1. new = [old EXCEPT ![i] = Point(arc.spp * m, 0)]
      BY <2>1, <1>2, <1>6, <1>7 DEF Stamps
    <3> QED
      BY <3>1, <1>6
  <2>2. CASE p.timestamp = rings[l][i].timestamp
    <3>1. new = old
      BY <2>2, <1>6, <1>7 DEF Stamps
    <3> QED
      BY <3>1, <1>4 DEF BasesKept
  <2> QED
    BY <2>1, <2>2
<1>9. ASSUME NEW k \in Levels
      PROVE  /\ rings'[k] = [j \in Slots(Archives[k]) |-> rings'[k][j]]
             /\ \A j \in Slots(Archives[k]) : IsPoint(rings'[k][j])
             /\ WholeRing(Archives[k], Stamps(Archives[k], rings'[k]))
             /\ AlignedRing(Archives[k], Stamps(Archives[k], rings'[k]))
  <2>1. CASE k = l
    <3>1. \A j \in Slots(arc) : IsPoint(rings[l][j])
      BY <1>1 DEF RingsInv, StampsOK
    <3> QED
      BY <2>1, <3>1, <1>7, <1>8
  <2>2. CASE k # l
    <3>1. rings'[k] = rings[k]
      BY <2>2, <1>7
    <3> QED
      BY <3>1 DEF RingsInv, StampsOK
  <2> QED
    BY <2>1, <2>2
<1>10. StampsOK'
  BY <1>7, <1>9 DEF StampsOK
<1>11. BasesKept(arc, rings[l], rings'[l])
  BY <1>1, <1>8, StampBase DEF BasesKept
<1> QED
  BY <1>6, <1>10, <1>11

\* A half store leaves the new time with the old value or the other way around, a
\* whole one the point.
LEMMA SaveHalfStores ==
    ASSUME NEW w \in Writers, RingsInv, LapsDivideWord, SaveHalf(w)
    PROVE  LET u   == upd[w]
               old == rings[u.level][Slot(u)]
           IN  \/ StoredAt(u.level, Slot(u), Point(Floored(u), old.value))
               \/ StoredAt(u.level, Slot(u), Point(old.timestamp, u.value))
<1> DEFINE u == upd[w]
           l == u.level
           i == Slot(u)
           old == rings[l][i]
<1>1. Target(w) = <<l, i>> /\ l \in Levels
  BY SavingFacts DEF SaveHalf
<1>2. \/ rings' = [rings EXCEPT ![l][i].timestamp = Floored(u)]
      \/ rings' = [rings EXCEPT ![l][i].value = u.value]
  BY <1>1 DEF SaveHalf, Floored
<1>3. i \in Slots(Archives[l])
  BY <1>1, SlotInRing DEF SaveHalf
<1>4. old = Point(old.timestamp, old.value)
  BY <1>1, <1>3 DEF RingsInv, StampsOK, IsPoint
<1>5. \A t, v : /\ [old EXCEPT !.timestamp = t] = Point(t, old.value)
                /\ [old EXCEPT !.value = v] = Point(old.timestamp, v)
  BY <1>4 DEF Point
<1>6. CASE rings' = [rings EXCEPT ![l][i].timestamp = Floored(u)]
  <2>1. rings' = [rings EXCEPT ![l][i] = [old EXCEPT !.timestamp = Floored(u)]]
    BY <1>6
  <2> QED
    BY <2>1, <1>5 DEF StoredAt
<1>7. CASE rings' = [rings EXCEPT ![l][i].value = u.value]
  <2>1. rings' = [rings EXCEPT ![l][i] = [old EXCEPT !.value = u.value]]
    BY <1>7
  <2> QED
    BY <2>1, <1>5 DEF StoredAt
<1> QED
  BY <1>2, <1>6, <1>7

LEMMA SavePointStores ==
    ASSUME NEW w \in Writers, SavePoint(w)
    PROVE  /\ pc[w] = "save"
           /\ StoredAt(upd[w].level, Slot(upd[w]), Point(Floored(upd[w]), upd[w].value))
BY DEF SavePoint, StoredAt, Slot, Floored

LEMMA PointIsPoint ==
    ASSUME NEW t, NEW v
    PROVE  IsPoint(Point(t, v)) /\ Point(t, v).timestamp = t /\ Point(t, v).value = v
BY DEF IsPoint, Point

LEMMA SaveHalfRings ==
    ASSUME NEW w \in Writers, RingsInv, LapsDivideWord, SaveHalf(w)
    PROVE  RingsInv'
<1> DEFINE u == upd[w]
           l == u.level
           i == Slot(u)
           old == rings[l][i]
<1>1. pc[w] = "save" /\ pc' = pc /\ upd' = upd /\ half' = [half EXCEPT ![w] = TRUE]
  BY DEF SaveHalf
<1>2. PICK p : /\ IsPoint(p) /\ StoredAt(l, i, p)
               /\ p.timestamp \in {Floored(u), old.timestamp}
  BY SaveHalfStores, PointIsPoint
<1>3. i \in Slots(Archives[l]) /\ StampsOK' /\ BasesKept(Archives[l], rings[l], rings'[l])
  BY <1>1, <1>2, StoreStamps
<1>4. /\ l \in Levels
      /\ u.base = 0 => i = 0
  BY <1>1, SavingFacts
<1>5. rings'[l][i] = p
  <2>1. StampsOK /\ l \in Levels /\ i \in Slots(Archives[l]) /\ StoredAt(l, i, p)
    BY <1>2, <1>3, <1>4 DEF RingsInv
  <2>2. ChangesSlot(l, i, p)
    BY <2>1, StoredFacts
  <2> QED
    BY <2>2 DEF ChangesSlot
<1>6. FramesOK'
  BY <1>1 DEF RingsInv, FramesOK
<1>7. half' = [x \in Writers |-> half'[x]] /\ half'[w] = TRUE
  BY <1>1 DEF RingsInv
<1>8. SaveOK(pc[w], upd[w], half[w])'
  <2>1. CASE u.base # 0
    <3>1. KnownBase(Archives[l], rings[l], u.base)
      BY <2>1, <1>1 DEF RingsInv, SaveOK
    <3>2. KnownBase(Archives[l], rings'[l], u.base)
      BY <3>1, <2>1, <1>3 DEF BasesKept
    <3> QED
      BY <3>2, <1>1 DEF SaveOK
  <2>2. CASE u.base = 0 /\ p.timestamp = Floored(u)
    BY <2>2, <1>1, <1>4, <1>5, <1>7 DEF SaveOK, Floored
  <2>3. CASE u.base = 0 /\ p.timestamp = old.timestamp
    <3>1. rings'[l][0].timestamp = rings[l][0].timestamp
      BY <2>3, <1>4, <1>5
    <3>2. SaveOK(pc[w], u, half[w])
      BY DEF RingsInv
    <3> QED
      BY <3>1, <3>2, <2>3, <1>1, <1>7 DEF SaveOK, KnownBase
  <2> QED
    BY <2>1, <2>2, <2>3, <1>2
<1> QED
  BY <1>3, <1>6, <1>7, <1>8, TheWriter DEF RingsInv

LEMMA SaveRestRings ==
    ASSUME NEW w \in Writers, RingsInv, LapsDivideWord, SaveRest(w)
    PROVE  RingsInv'
<1>1. SavePoint(w) /\ half' = [half EXCEPT ![w] = FALSE]
  BY DEF SaveRest
<1>2. FramesOK'
  <2>1. [Next]_vars
    BY <1>1 DEF Next, Step
  <2> QED
    BY <2>1, NextFrames DEF RingsInv
<1>3. StampsOK'
  BY <1>1, SavePointStores, PointIsPoint, StoreStamps
<1>4. pc'[w] # "save" /\ half' = [x \in Writers |-> half'[x]]
  BY <1>1 DEF SavePoint, Go, RingsInv, FramesOK
<1> QED
  BY <1>2, <1>3, <1>4, TheWriter DEF RingsInv, SaveOK

\* Whole intervals.
WholeTime(arc, t) == \E n \in Nat : t = arc.spp * n /\ arc.spp * n \in Timestamp

\* The base of a sound ring is good for it, and there is one if there are points.
LEMMA OwnBase ==
    ASSUME NEW l \in Levels, StampsOK
    PROVE  /\ WholeTime(Archives[l], rings[l][0].timestamp)
           /\ KnownBase(Archives[l], rings[l], rings[l][0].timestamp)
           /\ rings[l][0].timestamp = 0 =>
                \A s \in Slots(Archives[l]) : rings[l][s].timestamp = 0
<1> DEFINE arc == Archives[l]
<1>1. 0 \in Slots(arc) /\ Retention(arc) \in Nat \ {0}
  BY ArchiveFacts, RetentionFacts DEF Slots
<1>2. WholeRing(arc, Stamps(arc, rings[l])) /\ AlignedRing(arc, Stamps(arc, rings[l]))
  BY DEF StampsOK
<1>3. \A s \in Slots(arc) : Stamps(arc, rings[l])[s].timestamp = rings[l][s].timestamp
  BY StampOf
<1>4. WholeTime(arc, rings[l][0].timestamp)
  BY <1>1, <1>2, <1>3 DEF WholeRing, WholeTime
<1>5. rings[l][0].timestamp - rings[l][0].timestamp = 0
  BY <1>4 DEF WholeTime, Timestamp
<1>6. 0 % Retention(arc) = 0
  BY <1>1, ModSmall
<1>7. KnownBase(arc, rings[l], rings[l][0].timestamp)
  BY <1>4, <1>5, <1>6 DEF KnownBase, WholeTime
<1>8. rings[l][0].timestamp = 0 => \A s \in Slots(arc) : rings[l][s].timestamp = 0
  BY <1>1, <1>2, <1>3 DEF AlignedRing
<1> QED
  BY <1>4, <1>7, <1>8

\* Steps of the writer that store nothing.
LEMMA OtherWriteRings ==
    ASSUME NEW w \in Writers, RingsInv,
           \/ Crash(w) /\ half' = [half EXCEPT ![w] = FALSE]
           \/ (\/ Call(w) \/ NextPoint(w) \/ RefusePoint(w) \/ Return(w) \/ LoadBase(w)
               \/ FetchBase(w) \/ FetchWindow(w) \/ AggregateValue(w)) /\ half' = half
    PROVE  RingsInv' /\ rings' = rings
<1>1. FramesOK'
  <2>1. [Next]_vars
    BY DEF Next, Step
  <2> QED
    BY <2>1, NextFrames DEF RingsInv
<1>2. rings' = rings /\ StampsOK' /\ half' = [x \in Writers |-> half'[x]]
  BY DEF RingsInv, StampsOK, Crash, Call, NextPoint, RefusePoint, Return, LoadBase,
         FetchBase, FetchWindow, AggregateValue
<1>3. SaveOK(pc[w], upd[w], half[w])'
  <2>1. CASE ~ LoadBase(w)
    <3>1. \E p, u : p # "save" /\ Go(w, p, u)
      BY <2>1 DEF Crash, Call, NextPoint, RefusePoint, Return, FetchBase, FetchWindow,
                  AggregateValue, Finish
    <3>2. pc'[w] # "save"
      BY <3>1 DEF Go, RingsInv, FramesOK
    <3> QED
      BY <3>2 DEF SaveOK
  <2>2. CASE LoadBase(w)
    <3> DEFINE u == upd[w]
               l == u.level
               arc == Archives[l]
    <3>1. IsFrame(u) /\ l \in Levels
      BY <2>2 DEF LoadBase, RingsInv, FramesOK, FrameOK, Updating
    <3>2. SUFFICES ASSUME pc'[w] = "save" PROVE SaveOK(pc[w], upd[w], half[w])'
      BY DEF SaveOK
    <3>3. upd'[w] = [u EXCEPT !.base = rings[l][0].timestamp]
      BY <3>2, <2>2 DEF LoadBase, Go, RingsInv, FramesOK
    <3>4. upd'[w].level = l /\ upd'[w].base = rings[l][0].timestamp
      BY <3>1, <3>3 DEF IsFrame, Fields
    <3>5. KnownBase(arc, rings[l], rings[l][0].timestamp)
      BY <3>1, OwnBase DEF RingsInv
    <3> QED
      BY <3>4, <3>5, <1>2 DEF SaveOK
  <2> QED
    BY <2>1, <2>2
<1> QED
  BY <1>1, <1>2, <1>3, TheWriter DEF RingsInv

LEMMA NextRings ==
    ASSUME RingsInv, LapsDivideWord, [ReaderNext]_readerVars
    PROVE  RingsInv'
<1>1. ASSUME NEW w \in Writers, Write(w) PROVE RingsInv'
  <2>1. CASE SaveHalf(w) \/ SaveRest(w)
    BY <2>1, SaveHalfRings, SaveRestRings
  <2>2. CASE ~ (SaveHalf(w) \/ SaveRest(w))
    <3>1. \/ Crash(w) /\ half' = [half EXCEPT ![w] = FALSE]
          \/ (\/ Call(w) \/ NextPoint(w) \/ RefusePoint(w) \/ Return(w) \/ LoadBase(w)
              \/ FetchBase(w) \/ FetchWindow(w) \/ AggregateValue(w)) /\ half' = half
      BY <1>1, <2>2 DEF Write, Die
    <3> QED
      BY <3>1, OtherWriteRings
  <2> QED
    BY <2>1, <2>2
<1>2. ASSUME \/ \E r \in Readers : Read(r)
             \/ Tick /\ UNCHANGED <<half, torn, fetches>>
             \/ UNCHANGED readerVars
      PROVE  RingsInv'
  <2>1. rings' = rings /\ pc' = pc /\ upd' = upd /\ half' = half
    BY <1>2 DEF Read, FetchTime, FetchBase2, LoadHalf, LoadRest, Done, Tick, readerVars
  <2> QED
    BY <2>1 DEF RingsInv, FramesOK, StampsOK, SaveOK
<1> QED
  BY <1>1, <1>2 DEF ReaderNext

\* What RingsAligned promises holds at every moment also when stores are no single
\* steps: with the time in its place and the value still to come, or the other way
\* around, or a writer dead in between, each point is where fetches look for it.
THEOREM ReaderRingsAligned ==
    ASSUME PointsStart, LapsDivideWord
    PROVE  ReaderSpec => []RingsAligned
<1>1. ReaderInit => RingsInv
  BY InitRings
<1>2. RingsInv /\ [ReaderNext]_readerVars => RingsInv'
  BY NextRings
<1>3. RingsInv => RingsAligned
  <2> SUFFICES ASSUME RingsInv, NEW l \in Levels, NEW i \in Slots(Archives[l]),
                      rings[l][i].timestamp # 0
               PROVE  /\ rings[l][0].timestamp # 0
                      /\ (rings[l][i].timestamp - rings[l][0].timestamp
                             - i * Archives[l].spp) % Retention(Archives[l]) = 0
    BY DEF RingsAligned
  <2>1. AlignedRing(Archives[l], Stamps(Archives[l], rings[l]))
    BY DEF RingsInv, StampsOK
  <2>2. 0 \in Slots(Archives[l])
    BY ArchiveFacts DEF Slots
  <2>3. /\ Stamps(Archives[l], rings[l])[i].timestamp = rings[l][i].timestamp
        /\ Stamps(Archives[l], rings[l])[0].timestamp = rings[l][0].timestamp
    BY <2>2, StampOf
  <2> QED
    BY <2>1, <2>3 DEF AlignedRing
<1> QED
  BY <1>1, <1>2, <1>3, PTL DEF ReaderSpec

-----------------------------------------------------------------------------
(* The fetches.                                                            *)

FetchFields == {"at", "level", "from", "until", "base", "base2",
                "points", "dirty", "kept"}

IsFetch(f) == DOMAIN f = FetchFields /\ f = [x \in FetchFields |-> f[x]]

\* The slot of the i-th point of a fetch.
SlotAt(f, i) == (Interval(f).offset + i - 1) % Archives[f.level].count

\* What is asked for stays, and no more than that is loaded.
FetchShape(f) ==
    /\ IsFetch(f)
    /\ f.at \in {"base", "points", "rest"}
    /\ f.level \in Levels
    /\ f.from \in Timestamp /\ f.until \in Timestamp /\ f.from <= f.until
    /\ \E q \in Requests : q.level = f.level /\ q.from = f.from
    /\ f.kept \subseteq Slots(Archives[f.level])
    /\ \E T : f.points \in Seq(T)
    /\ f.at = "base" => f.points = <<>>
    /\ f.at = "rest" => Len(f.points) # 0
    /\ Len(f.points) <= Interval(f).count
    /\ f.dirty \subseteq 1 .. Len(f.points)

\* The bases a fetch has loaded are whole laps from the one there is now.
FetchBases(f, ring) ==
    LET arc == Archives[f.level]
    IN  /\ WholeTime(arc, f.base)
        /\ f.base # 0 => KnownBase(arc, ring, f.base)
        /\ f.at # "base" =>
             /\ WholeTime(arc, f.base2)
             /\ f.base # 0 => (f.base2 - f.base) % Retention(arc) = 0

\* Slots nobody has stored to are as they were when they were loaded, and empty
\* if the archive was.
FetchKept(f, ring) ==
    \A s \in f.kept :
        /\ f.base = 0 => ring[s].timestamp = 0
        /\ \A i \in 1 .. Len(f.points) : SlotAt(f, i) = s => f.points[i] = ring[s]

\* Between the loads of its two fields a point is as it was, unless it is known not
\* to be.
FetchHalf(f, ring) ==
    f.at = "rest" /\ Len(f.points) \notin f.dirty =>
        f.points[Len(f.points)] = ring[SlotAt(f, Len(f.points))]

FetchOK(f, ring) ==
    FetchShape(f) /\ FetchBases(f, ring) /\ FetchKept(f, ring) /\ FetchHalf(f, ring)

FetchesOK ==
    /\ fetches = [r \in Readers |-> fetches[r]]
    /\ \A r \in Readers : fetches[r] # NULL => FetchOK(fetches[r], rings[fetches[r].level])

FetchInv == RingsInv /\ FetchesOK

\* A wsp_time_t of Signed(Wrap(x)) is x, give or take whole words.
LEMMA WordsOff ==
    ASSUME NEW x \in Int
    PROVE  \E q \in Int : Signed(Wrap(x)) = x + Word * q
<1>1. Word \in Nat \ {0} /\ Word \div 2 \in Nat
  BY WordAssumption
<1>2. x = Word * (x \div Word) + (x % Word) /\ x \div Word \in Int /\ x % Word \in 0 .. Word - 1
  BY <1>1, DivMod
<1>3. PICK k \in Int, y \in Int : k = x \div Word /\ y = x % Word
  BY <1>2
<1>4. x = Word * k + y
  BY <1>2, <1>3
<1>5. Wrap(x) = y
  BY <1>3 DEF Wrap
<1>6. Word * (-k) = -(Word * k) /\ Word * (-k - 1) = -(Word * k) - Word /\ Word * k \in Int
  BY <1>1
<1>7. CASE y < Word \div 2
  <2>1. Signed(y) = x + Word * (-k)
    BY <1>1, <1>4, <1>6, <1>7 DEF Signed
  <2> QED
    BY <2>1, <1>5
<1>8. CASE ~ (y < Word \div 2)
  <2>1. Signed(y) = x + Word * (-k - 1)
    BY <1>1, <1>4, <1>6, <1>8 DEF Signed
  <2> QED
    BY <2>1, <1>5
<1> QED
  BY <1>7, <1>8

\* The request in whole intervals, and what wsp_fetch_time_points makes of it.
Asked(f, S, C, F, U) ==
    /\ Archives[f.level].spp = S /\ Archives[f.level].count = C
    /\ TimeFloor(f.from, S) = S * F /\ S * F <= f.from
    /\ TimeFloor(f.until, S) = S * U /\ S * U <= f.until /\ f.until < S * U + S
    /\ F <= U
    /\ S * U \in Timestamp /\ f.until \in Nat

Derived(f, S, C, F, U, n, q) ==
    /\ f.base = S * n /\ S * n \in Timestamp
    /\ Interval(f).offset = F - n + Word * q
    /\ Interval(f).count = Capped(Wrap(U - F + 1), C)
    /\ Interval(f).count \in Nat
    /\ Interval(f).count <= C
    /\ Interval(f).count <= U - F + 1

LEMMA IntervalFacts ==
    ASSUME NEW f, f.level \in Levels,
           f.from \in Timestamp, f.until \in Timestamp, f.from <= f.until,
           WholeTime(Archives[f.level], f.base)
    PROVE  \E S \in Nat \ {0}, C \in Nat \ {0}, F \in Nat, U \in Nat, n \in Nat, q \in Int :
             Asked(f, S, C, F, U) /\ Derived(f, S, C, F, U, n, q)
<1>1. PICK S \in Nat \ {0}, C \in Nat \ {0} :
         S = Archives[f.level].spp /\ C = Archives[f.level].count
  BY ArchiveFacts
<1>2. Word \in Nat \ {0}
  BY WordAssumption
<1>3. PICK a \in Nat, b \in Nat : a = f.from /\ b = f.until /\ a <= b /\ b < Word
  BY <1>2 DEF Timestamp
<1>4. PICK F \in Nat : TimeFloor(a, S) = S * F /\ TimeFloor(a, S) \div S = F
                       /\ S * F <= a /\ a < S * F + S
  <2>1. /\ a \div S \in Nat /\ TimeFloor(a, S) = S * (a \div S)
        /\ TimeFloor(a, S) \div S = a \div S
        /\ TimeFloor(a, S) <= a /\ a < TimeFloor(a, S) + S
    BY TimeFloorFacts
  <2> QED
    BY <2>1
<1>5. PICK U \in Nat : TimeFloor(b, S) = S * U /\ TimeFloor(b, S) \div S = U
                       /\ S * U <= b /\ b < S * U + S
  <2>1. /\ b \div S \in Nat /\ TimeFloor(b, S) = S * (b \div S)
        /\ TimeFloor(b, S) \div S = b \div S
        /\ TimeFloor(b, S) <= b /\ b < TimeFloor(b, S) + S
    BY TimeFloorFacts
  <2> QED
    BY <2>1
<1>6. F <= U
  <2>1. SUFFICES ASSUME F >= U + 1 PROVE FALSE
    OBVIOUS
  <2>2. S * F >= S * (U + 1) /\ S * (U + 1) = S * U + S
    BY <2>1
  <2>3. S * F \in Int /\ S * U \in Int
    OBVIOUS
  <2> QED
    BY <2>2, <2>3, <1>3, <1>4, <1>5
<1>7. S * U \in Timestamp
  <2>1. S * U \in Nat
    OBVIOUS
  <2> QED
    BY <2>1, <1>2, <1>3, <1>5 DEF Timestamp
<1>8. Asked(f, S, C, F, U)
  BY <1>1, <1>3, <1>4, <1>5, <1>6, <1>7 DEF Asked
<1>9. PICK n \in Nat : f.base = S * n /\ S * n \in Timestamp
  BY <1>1 DEF WholeTime
<1>10. f.base \div S = n
  BY <1>9, MultipleMod
<1>11. PICK q \in Int : Signed(Wrap(F - n)) = F - n + Word * q
  <2>1. PICK x \in Int : x = F - n
    OBVIOUS
  <2>2. \E q \in Int : Signed(Wrap(x)) = x + Word * q
    BY WordsOff
  <2> QED
    BY <2>1, <2>2
<1>12. /\ Interval(f).offset = Signed(Wrap(F - n))
       /\ Interval(f).count = Capped(Wrap(U - F + 1), C)
  BY <1>1, <1>3, <1>4, <1>5, <1>10 DEF Interval
<1>13. Wrap(U - F + 1) \in Nat /\ Wrap(U - F + 1) <= U - F + 1
  <2>1. PICK y \in Nat : y = U - F + 1
    BY <1>6
  <2>2. y % Word \in Nat /\ y % Word <= y
    <3>1. y = Word * (y \div Word) + (y % Word) /\ y \div Word \in Int /\ y % Word \in 0 .. Word - 1
      BY <1>2, DivMod
    <3>2. PICK k \in Int, z \in Int : k = y \div Word /\ z = y % Word
      BY <3>1
    <3>3. k >= 0
      <4>1. SUFFICES ASSUME k <= -1 PROVE FALSE
        OBVIOUS
      <4>2. Word * k <= Word * (-1)
        BY <4>1, <1>2
      <4>3. Word * (-1) = -Word /\ Word * k \in Int
        BY <1>2
      <4> QED
        BY <4>2, <4>3, <3>1, <3>2, <1>2
    <3>4. Word * k >= 0 /\ Word * k \in Int
      BY <3>3, <1>2
    <3> QED
      BY <3>1, <3>2, <3>4
  <2> QED
    BY <2>1, <2>2 DEF Wrap
<1>14. Derived(f, S, C, F, U, n, q)
  BY <1>9, <1>11, <1>12, <1>13 DEF Derived, Capped
<1> QED
  BY <1>8, <1>14

\* A reader's step that leaves it with a good fetch, or with none.
LEMMA GoFetch ==
    ASSUME NEW r \in Readers, NEW new, FetchesOK, rings' = rings,
           fetches' = [fetches EXCEPT ![r] = new],
           new # NULL => FetchOK(new, rings[new.level])
    PROVE  FetchesOK'
<1>1. /\ fetches' = [x \in Readers |-> fetches'[x]]
      /\ fetches'[r] = new
      /\ \A x \in Readers : x # r => fetches'[x] = fetches[x]
  BY DEF FetchesOK
<1>2. ASSUME NEW x \in Readers, fetches'[x] # NULL
      PROVE  FetchOK(fetches'[x], rings'[fetches'[x].level])
  <2>1. CASE x = r
    BY <2>1, <1>1, <1>2
  <2>2. CASE x # r
    BY <2>2, <1>1, <1>2 DEF FetchesOK
  <2> QED
    BY <2>1, <2>2
<1> QED
  BY <1>1, <1>2 DEF FetchesOK

LEMMA FetchTimeOK ==
    ASSUME NEW r \in Readers, RingsInv, FetchesOK, FetchTime(r)
    PROVE  FetchesOK'
<1>1. PICK q \in Requests :
         fetches' = [fetches EXCEPT ![r] =
             [at |-> "base", level |-> q.level, from |-> q.from, until |-> q.until,
              base |-> rings[q.level][0].timestamp, base2 |-> 0,
              points |-> <<>>, dirty |-> {}, kept |-> Slots(Archives[q.level])]]
  BY DEF FetchTime
<1> DEFINE l == q.level
           new == [at |-> "base", level |-> l, from |-> q.from, until |-> q.until,
                   base |-> rings[l][0].timestamp, base2 |-> 0,
                   points |-> <<>>, dirty |-> {}, kept |-> Slots(Archives[l])]
<1>2. /\ l \in Levels /\ q.from \in Timestamp /\ q.until \in Timestamp
      /\ q.from <= q.until /\ q \in Requests
  BY RequestsAssumption
<1>3. /\ WholeTime(Archives[l], rings[l][0].timestamp)
      /\ KnownBase(Archives[l], rings[l], rings[l][0].timestamp)
      /\ rings[l][0].timestamp = 0 =>
           \A s \in Slots(Archives[l]) : rings[l][s].timestamp = 0
  BY <1>2, OwnBase DEF RingsInv
<1>4. /\ IsFetch(new) /\ new.at = "base" /\ new.level = l
      /\ new.from = q.from /\ new.until = q.until
      /\ new.base = rings[l][0].timestamp
      /\ new.points = <<>> /\ new.dirty = {} /\ new.kept = Slots(Archives[l])
  BY DEF IsFetch, FetchFields
<1>5. fetches' = [fetches EXCEPT ![r] = new]
  BY <1>1
<1> HIDE DEF new
<1>6. FetchShape(new)
  <2>1. Interval(new).count \in Nat
    BY <1>2, <1>3, <1>4, IntervalFacts DEF Derived
  <2>2. new.points \in Seq({}) /\ Len(new.points) = 0
    BY <1>4
  <2> QED
    BY <2>1, <2>2, <1>2, <1>4 DEF FetchShape
<1>7. FetchBases(new, rings[l])
  BY <1>3, <1>4 DEF FetchBases
<1>8. FetchKept(new, rings[l])
  <2>1. Len(new.points) = 0
    BY <1>4
  <2> QED
    BY <2>1, <1>3, <1>4 DEF FetchKept
<1>9. FetchOK(new, rings[new.level])
  BY <1>4, <1>6, <1>7, <1>8 DEF FetchOK, FetchHalf
<1> QED
  BY <1>5, <1>9, GoFetch DEF FetchTime

\* What Interval returns depends on what was asked for and on the first base.
LEMMA SameInterval ==
    ASSUME NEW f, NEW g, g.level = f.level, g.from = f.from, g.until = f.until,
           g.base = f.base
    PROVE  Interval(g) = Interval(f) /\ \A i : SlotAt(g, i) = SlotAt(f, i)
<1>1. Interval(g) = Interval(f)
  BY DEF Interval
<1> QED
  BY <1>1 DEF SlotAt

LEMMA FetchBase2OK ==
    ASSUME NEW r \in Readers, RingsInv, FetchesOK, FetchBase2(r)
    PROVE  FetchesOK'
<1> DEFINE f == fetches[r]
           l == f.level
           base2 == rings[l][0].timestamp
           new == [f EXCEPT !.at = "points", !.base2 = base2]
<1>1. /\ f # NULL /\ f.at = "base" /\ rings' = rings
      /\ fetches' = [fetches EXCEPT ![r].at = "points", ![r].base2 = base2]
  BY DEF FetchBase2
<1>2. FetchShape(f) /\ FetchBases(f, rings[l]) /\ FetchKept(f, rings[l])
  BY <1>1 DEF FetchesOK, FetchOK
<1>3. fetches' = [fetches EXCEPT ![r] = new]
  BY <1>1
<1>4. IsFetch(f) /\ l \in Levels
  BY <1>2 DEF FetchShape
<1>5. /\ IsFetch(new) /\ new.at = "points" /\ new.level = l
      /\ new.from = f.from /\ new.until = f.until /\ new.base = f.base
      /\ new.base2 = base2 /\ new.points = f.points /\ new.dirty = f.dirty
      /\ new.kept = f.kept
  BY <1>4 DEF IsFetch, FetchFields
<1>6. WholeTime(Archives[l], base2)
  BY <1>4, OwnBase DEF RingsInv
<1> HIDE DEF new
<1>7. Interval(new) = Interval(f) /\ \A i : SlotAt(new, i) = SlotAt(f, i)
  BY <1>5, SameInterval
<1>8. FetchShape(new)
  BY <1>2, <1>5, <1>7 DEF FetchShape
<1>9. FetchBases(new, rings[l])
  BY <1>2, <1>5, <1>6 DEF FetchBases, KnownBase
<1>10. FetchKept(new, rings[l])
  BY <1>2, <1>5, <1>7 DEF FetchKept
<1>11. FetchOK(new, rings[new.level])
  BY <1>5, <1>8, <1>9, <1>10 DEF FetchOK, FetchHalf
<1> QED
  BY <1>1, <1>3, <1>11, GoFetch

LEMMA AppendFacts ==
    ASSUME NEW f, NEW p, FetchShape(f)
    PROVE  /\ Len(f.points) \in Nat
           /\ Len(Append(f.points, p)) = Len(f.points) + 1
           /\ \A i \in 1 .. Len(f.points) : Append(f.points, p)[i] = f.points[i]
           /\ Append(f.points, p)[Len(f.points) + 1] = p
<1>1. PICK T : f.points \in Seq(T)
  BY DEF FetchShape
<1>2. f.points \in Seq(T \cup {p})
  BY <1>1
<1> QED
  BY <1>2, AppendProperties, LenProperties

LEMMA LoadHalfOK ==
    ASSUME NEW r \in Readers, RingsInv, FetchesOK, LoadHalf(r)
    PROVE  FetchesOK'
<1> DEFINE f == fetches[r]
           l == f.level
           n == Len(f.points)
           slot == SlotOf(f, n + 1)
           p == rings[l][slot]
           d == IF <<l, slot>> \in torn THEN f.dirty \cup {n + 1} ELSE f.dirty
           new == [f EXCEPT !.at = "rest", !.points = Append(@, p), !.dirty = d]
<1>1. /\ f # NULL /\ f.at = "points" /\ rings' = rings
      /\ n + 1 <= Interval(f).count
      /\ fetches' = [fetches EXCEPT ![r] = new]
  BY DEF LoadHalf
<1>2. FetchShape(f) /\ FetchBases(f, rings[l]) /\ FetchKept(f, rings[l])
  BY <1>1 DEF FetchesOK, FetchOK
<1>4. IsFetch(f) /\ l \in Levels /\ WholeTime(Archives[l], f.base)
  BY <1>2 DEF FetchShape, FetchBases
<1>5. /\ IsFetch(new) /\ new.at = "rest" /\ new.level = l
      /\ new.from = f.from /\ new.until = f.until /\ new.base = f.base
      /\ new.base2 = f.base2 /\ new.points = Append(f.points, p) /\ new.dirty = d
      /\ new.kept = f.kept
  BY <1>4 DEF IsFetch, FetchFields
<1>6. PICK T : f.points \in Seq(T)
  BY <1>2 DEF FetchShape
<1>7. f.points \in Seq(T \cup {p})
  BY <1>6
<1>8. /\ Append(f.points, p) \in Seq(T \cup {p})
      /\ n \in Nat
      /\ Len(Append(f.points, p)) = n + 1
      /\ \A i \in 1 .. n : Append(f.points, p)[i] = f.points[i]
      /\ Append(f.points, p)[n + 1] = p
  <2>1. Append(f.points, p) \in Seq(T \cup {p})
    BY <1>7, AppendProperties
  <2> HIDE DEF f, p
  <2> QED
    BY <2>1, <1>2, AppendFacts DEF n
<1>9. d \subseteq 1 .. n + 1
  <2>1. f.dirty \subseteq 1 .. n
    BY <1>2 DEF FetchShape
  <2>2. PICK k \in Nat : k = n
    BY <1>8
  <2>3. 1 .. k \subseteq 1 .. k + 1 /\ k + 1 \in 1 .. k + 1
    OBVIOUS
  <2>4. 1 .. n \subseteq 1 .. n + 1 /\ n + 1 \in 1 .. n + 1
    BY <2>2, <2>3
  <2> QED
    BY <2>1, <2>4
<1>10. SlotAt(f, n + 1) = slot
  BY DEF SlotAt, SlotOf, PointMod
<1> HIDE DEF new, d, slot
<1>11. Interval(new) = Interval(f) /\ \A i : SlotAt(new, i) = SlotAt(f, i)
  BY <1>5, SameInterval
<1>12. Interval(f).count \in Nat
  BY <1>2, <1>4, IntervalFacts DEF FetchShape, Derived
<1>13. FetchShape(new)
  <2>1. Len(new.points) = n + 1 /\ n + 1 <= Interval(f).count
    BY <1>1, <1>5, <1>8, <1>12
  <2>2. new.dirty \subseteq 1 .. Len(new.points)
    BY <2>1, <1>5, <1>9
  <2>3. new.points \in Seq(T \cup {p})
    BY <1>5, <1>8
  <2> QED
    BY <2>1, <2>2, <2>3, <1>1, <1>2, <1>5, <1>11 DEF FetchShape
<1>14. FetchBases(new, rings[l])
  BY <1>1, <1>2, <1>5 DEF FetchBases
<1>15. FetchKept(new, rings[l])
  <2>1. ASSUME NEW s \in f.kept, NEW i \in 1 .. n + 1, SlotAt(f, i) = s
        PROVE  new.points[i] = rings[l][s]
    <3>1. CASE i = n + 1
      BY <3>1, <2>1, <1>5, <1>8, <1>10
    <3>2. CASE i # n + 1
      <4>1. i \in 1 .. n
        BY <3>2, <1>8
      <4> QED
        BY <4>1, <2>1, <1>2, <1>5, <1>8 DEF FetchKept
    <3> QED
      BY <3>1, <3>2
  <2>2. Len(new.points) = n + 1
    BY <1>5, <1>8
  <2> QED
    BY <2>1, <2>2, <1>2, <1>5, <1>11 DEF FetchKept
<1>16. FetchHalf(new, rings[l])
  BY <1>5, <1>8, <1>10, <1>11 DEF FetchHalf
<1>17. FetchOK(new, rings[new.level])
  BY <1>5, <1>13, <1>14, <1>15, <1>16 DEF FetchOK
<1> QED
  BY <1>1, <1>17, GoFetch

\* The slots of a fetch are slots.
LEMMA SlotAtInRing ==
    ASSUME NEW f, NEW ring, FetchOK(f, ring), NEW i \in Nat
    PROVE  SlotAt(f, i) \in Slots(Archives[f.level])
<1>1. FetchShape(f) /\ WholeTime(Archives[f.level], f.base)
  BY DEF FetchOK, FetchBases
<1>2. PICK S \in Nat \ {0}, C \in Nat \ {0}, F \in Nat, U \in Nat, b \in Nat, q \in Int :
         Asked(f, S, C, F, U) /\ Derived(f, S, C, F, U, b, q)
  BY <1>1, IntervalFacts DEF FetchShape
<1>3. PICK x \in Int : x = Interval(f).offset + i - 1
  <2>1. Word * q \in Int
    BY WordAssumption
  <2>2. Interval(f).offset \in Int
    BY <1>2, <2>1 DEF Derived
  <2> QED
    BY <2>2
<1>4. x % C \in 0 .. C - 1
  BY DivMod
<1> QED
  BY <1>2, <1>3, <1>4 DEF SlotAt, Slots, Asked

\* The second load of a field: of a point that was left alone meanwhile it gives
\* what is there already.
LEMMA LoadRestFacts ==
    ASSUME NEW r \in Readers, RingsInv, FetchesOK, LoadRest(r)
    PROVE  LET f == fetches[r]
               n == Len(f.points)
           IN  /\ f # NULL /\ f.at = "rest" /\ FetchOK(f, rings[f.level]) /\ rings' = rings
               /\ n \in Nat \ {0}
               /\ \E p, new :
                    /\ fetches' = [fetches EXCEPT ![r] = new]
                    /\ IsFetch(new) /\ new.at = "points" /\ new.level = f.level
                    /\ new.from = f.from /\ new.until = f.until /\ new.base = f.base
                    /\ new.base2 = f.base2 /\ new.dirty = f.dirty /\ new.kept = f.kept
                    /\ \E T : new.points \in Seq(T)
                    /\ Len(new.points) = n
                    /\ new.points[n] = p
                    /\ \A i \in 1 .. n : i # n => new.points[i] = f.points[i]
                    /\ f.points[n] = rings[f.level][SlotAt(f, n)] => p = f.points[n]
<1> DEFINE f == fetches[r]
           n == Len(f.points)
           q == rings[f.level][SlotAt(f, n)]
<1>1. /\ f # NULL /\ f.at = "rest" /\ rings' = rings
      /\ \E p \in {[f.points[n] EXCEPT !.value = q.value],
                   [f.points[n] EXCEPT !.timestamp = q.timestamp]} :
           fetches' = [fetches EXCEPT ![r] =
               [f EXCEPT !.at = "points", !.points = [@ EXCEPT ![n] = p]]]
  BY DEF LoadRest, SlotOf, SlotAt, PointMod
<1>2. PICK p \in {[f.points[n] EXCEPT !.value = q.value],
                 [f.points[n] EXCEPT !.timestamp = q.timestamp]} :
         fetches' = [fetches EXCEPT ![r] =
             [f EXCEPT !.at = "points", !.points = [@ EXCEPT ![n] = p]]]
  BY <1>1
<1>3. FetchOK(f, rings[f.level]) /\ FetchShape(f)
  BY <1>1 DEF FetchesOK, FetchOK
<1>4. PICK T : f.points \in Seq(T)
  BY <1>3 DEF FetchShape
<1>5. n \in Nat \ {0}
  BY <1>1, <1>3, <1>4, LenProperties DEF FetchShape
<1>6. ASSUME f.points[n] = q PROVE p = f.points[n]
  <2>1. SlotAt(f, n) \in Slots(Archives[f.level]) /\ f.level \in Levels
    BY <1>3, <1>5, SlotAtInRing DEF FetchShape
  <2>2. IsPoint(q)
    BY <2>1 DEF RingsInv, StampsOK
  <2> HIDE DEF f, n, q
  <2>3. /\ [q EXCEPT !.value = q.value] = q
        /\ [q EXCEPT !.timestamp = q.timestamp] = q
    BY <2>2 DEF IsPoint, Point
  <2> QED
    BY <1>2, <1>6, <2>3
<1> DEFINE points == [f.points EXCEPT ![n] = p]
           new == [f EXCEPT !.at = "points", !.points = points]
<1>7. /\ points \in Seq(T \cup {p}) /\ Len(points) = n /\ points[n] = p
      /\ \A i \in 1 .. n : i # n => points[i] = f.points[i]
  <2>1. f.points \in Seq(T \cup {p}) /\ n \in 1 .. Len(f.points)
    BY <1>4, <1>5
  <2> HIDE DEF f
  <2> QED
    BY <2>1, ExceptSeq
<1>8. fetches' = [fetches EXCEPT ![r] = new]
  BY <1>2
<1>9. IsFetch(f)
  BY <1>3 DEF FetchShape
<1>10. /\ IsFetch(new) /\ new.at = "points" /\ new.level = f.level
       /\ new.from = f.from /\ new.until = f.until /\ new.base = f.base
       /\ new.base2 = f.base2 /\ new.dirty = f.dirty /\ new.kept = f.kept
       /\ new.points = points
  BY <1>9 DEF IsFetch, FetchFields
<1> HIDE DEF new, points
<1> QED
  BY <1>1, <1>3, <1>5, <1>6, <1>7, <1>8, <1>10

LEMMA LoadRestOK ==
    ASSUME NEW r \in Readers, RingsInv, FetchesOK, LoadRest(r)
    PROVE  FetchesOK'
<1> DEFINE f == fetches[r]
           l == f.level
           n == Len(f.points)
<1>1. /\ f.at = "rest" /\ rings' = rings /\ n \in Nat \ {0}
      /\ FetchShape(f) /\ FetchBases(f, rings[l]) /\ FetchKept(f, rings[l])
  BY LoadRestFacts DEF FetchOK
<1>2. PICK p, new :
         /\ fetches' = [fetches EXCEPT ![r] = new]
         /\ IsFetch(new) /\ new.at = "points" /\ new.level = l
         /\ new.from = f.from /\ new.until = f.until /\ new.base = f.base
         /\ new.base2 = f.base2 /\ new.dirty = f.dirty /\ new.kept = f.kept
         /\ \E T : new.points \in Seq(T)
         /\ Len(new.points) = n
         /\ new.points[n] = p
         /\ \A i \in 1 .. n : i # n => new.points[i] = f.points[i]
         /\ f.points[n] = rings[l][SlotAt(f, n)] => p = f.points[n]
  BY LoadRestFacts
<1>3. Interval(new) = Interval(f) /\ \A i : SlotAt(new, i) = SlotAt(f, i)
  BY <1>2, SameInterval
<1>4. FetchShape(new)
  BY <1>1, <1>2, <1>3 DEF FetchShape
<1>5. FetchBases(new, rings[l])
  BY <1>1, <1>2 DEF FetchBases
<1>6. FetchKept(new, rings[l])
  <2>1. ASSUME NEW s \in f.kept, NEW i \in 1 .. n, SlotAt(f, i) = s
        PROVE  new.points[i] = rings[l][s]
    <3>1. f.points[i] = rings[l][s]
      BY <2>1, <1>1 DEF FetchKept
    <3> QED
      BY <2>1, <3>1, <1>2
  <2> QED
    BY <2>1, <1>1, <1>2, <1>3 DEF FetchKept
<1>7. FetchOK(new, rings[new.level])
  BY <1>2, <1>4, <1>5, <1>6 DEF FetchOK, FetchHalf
<1> QED
  BY <1>1, <1>2, <1>7, GoFetch

\* What a store, half or whole, does to ring and fetches.
LEMMA StoreTouches ==
    ASSUME NEW w \in Writers, RingsInv, LapsDivideWord, SaveHalf(w) \/ SaveRest(w)
    PROVE  /\ pc[w] = "save" /\ upd[w].level \in Levels
           /\ Slot(upd[w]) \in Slots(Archives[upd[w].level])
           /\ Target(w) = <<upd[w].level, Slot(upd[w])>>
           /\ \E p : ChangesSlot(upd[w].level, Slot(upd[w]), p)
           /\ BasesKept(Archives[upd[w].level], rings[upd[w].level], rings'[upd[w].level])
           /\ Touch(upd[w].level, Slot(upd[w]))
<1> DEFINE u == upd[w]
           l == u.level
           i == Slot(u)
<1>1. pc[w] = "save"
  BY DEF SaveHalf, SaveRest, SavePoint
<1>2. /\ l \in Levels /\ Target(w) = <<l, i>>
      /\ i \in Slots(Archives[l])
  BY <1>1, SavingFacts, SlotInRing
<1>3. PICK p : /\ IsPoint(p) /\ StoredAt(l, i, p)
               /\ p.timestamp \in {Floored(u), rings[l][i].timestamp}
  <2>1. CASE SaveHalf(w)
    BY <2>1, SaveHalfStores, PointIsPoint
  <2>2. CASE SaveRest(w)
    <3>1. StoredAt(l, i, Point(Floored(u), u.value))
      BY <2>2, SavePointStores DEF SaveRest
    <3> QED
      BY <3>1, PointIsPoint
  <2> QED
    BY <2>1, <2>2
<1>4. BasesKept(Archives[l], rings[l], rings'[l])
  BY <1>1, <1>3, StoreStamps
<1>5. Touch(l, i)
  BY <1>2 DEF SaveHalf, SaveRest
<1>6. ChangesSlot(l, i, p)
  <2>1. StampsOK /\ l \in Levels /\ i \in Slots(Archives[l]) /\ StoredAt(l, i, p)
    BY <1>2, <1>3 DEF RingsInv
  <2> HIDE DEF l, i
  <2> QED
    BY <2>1, StoredFacts
<1> QED
  BY <1>1, <1>2, <1>4, <1>5, <1>6

\* What a fetch knows after a store to slot i.
Touched(f, i) ==
    [f EXCEPT !.kept  = @ \ {i},
              !.dirty = IF Between(f, i) THEN @ \cup {Len(f.points)} ELSE @]

LEMMA TouchedFields ==
    ASSUME NEW f, NEW i, IsFetch(f)
    PROVE  LET new == Touched(f, i)
           IN  /\ IsFetch(new) /\ new.at = f.at /\ new.level = f.level
               /\ new.from = f.from /\ new.until = f.until /\ new.base = f.base
               /\ new.base2 = f.base2 /\ new.points = f.points
               /\ new.dirty = IF Between(f, i) THEN f.dirty \cup {Len(f.points)}
                              ELSE f.dirty
               /\ new.kept = f.kept \ {i}
BY DEF Touched, IsFetch, FetchFields

LEMMA StoreFetches ==
    ASSUME NEW w \in Writers, RingsInv, LapsDivideWord, FetchesOK,
           SaveHalf(w) \/ SaveRest(w)
    PROVE  FetchesOK'
<1>1. PICK l \in Levels : \E i, p :
         /\ i \in Slots(Archives[l]) /\ ChangesSlot(l, i, p)
         /\ BasesKept(Archives[l], rings[l], rings'[l])
         /\ Touch(l, i)
  BY StoreTouches
<1>place. PICK i, p :
         /\ i \in Slots(Archives[l]) /\ ChangesSlot(l, i, p)
         /\ BasesKept(Archives[l], rings[l], rings'[l])
         /\ Touch(l, i)
  BY <1>1
<1>2. /\ \A k \in Levels : k # l => rings'[k] = rings[k]
      /\ \A j \in Slots(Archives[l]) : j # i => rings'[l][j] = rings[l][j]
  BY <1>place DEF ChangesSlot
<1>3. fetches' = [r \in Readers |->
        IF fetches[r] # NULL /\ fetches[r].level = l
        THEN Touched(fetches[r], i)
        ELSE fetches[r]]
  BY <1>place DEF Touch, Touched
<1>4. ASSUME NEW r \in Readers, fetches'[r] # NULL
      PROVE  FetchOK(fetches'[r], rings'[fetches'[r].level])
  <2> DEFINE f == fetches[r]
  <2>1. CASE f # NULL /\ f.level = l
    <3> DEFINE new == Touched(f, i)
    <3>1. fetches'[r] = new
      BY <2>1, <1>3
    <3>2. /\ FetchShape(f) /\ FetchBases(f, rings[l]) /\ FetchKept(f, rings[l])
          /\ FetchHalf(f, rings[l]) /\ FetchOK(f, rings[l])
      BY <2>1 DEF FetchesOK, FetchOK
    <3>3. IsFetch(f)
      BY <3>2 DEF FetchShape
    <3>4. /\ IsFetch(new) /\ new.at = f.at /\ new.level = f.level
          /\ new.from = f.from /\ new.until = f.until /\ new.base = f.base
          /\ new.base2 = f.base2 /\ new.points = f.points
          /\ new.dirty = IF Between(f, i) THEN f.dirty \cup {Len(f.points)} ELSE f.dirty
          /\ new.kept = f.kept \ {i}
      BY <3>3, TouchedFields
    <3>between. Len(f.points) \in Nat /\ (Between(f, i) => Len(f.points) \in 1 .. Len(f.points))
      <4>1. Len(f.points) \in Nat
        BY <3>2, LenProperties DEF FetchShape
      <4>2. Between(f, i) => Len(f.points) # 0
        BY <3>2 DEF FetchShape, Between
      <4> QED
        BY <4>1, <4>2
    <3> HIDE DEF new
    <3>5. Interval(new) = Interval(f) /\ \A j : SlotAt(new, j) = SlotAt(f, j)
      BY <3>4, SameInterval
    <3>6. FetchShape(new)
      <4>1. new.dirty \subseteq 1 .. Len(new.points)
        BY <3>2, <3>4, <3>between DEF FetchShape
      <4> QED
        BY <4>1, <3>2, <3>4, <3>5 DEF FetchShape
    <3>7. FetchBases(new, rings'[l])
      BY <3>2, <3>4, <2>1, <1>place DEF FetchBases, BasesKept
    <3>8. FetchKept(new, rings'[l])
      <4>1. \A s \in new.kept : s \in f.kept /\ rings'[l][s] = rings[l][s]
        BY <3>2, <3>4, <2>1, <1>2 DEF FetchShape
      <4> QED
        BY <4>1, <3>2, <3>4, <3>5 DEF FetchKept
    <3>half. FetchHalf(new, rings'[l])
      <4> DEFINE n == Len(f.points)
      <4>1. SUFFICES ASSUME f.at = "rest", n \notin new.dirty
                     PROVE  f.points[n] = rings'[l][SlotAt(f, n)]
        BY <3>4, <3>5 DEF FetchHalf
      <4>2. n \notin f.dirty /\ ~ Between(f, i)
        BY <4>1, <3>4
      <4>3. SlotAt(f, n) # i
        BY <4>1, <4>2 DEF Between, SlotOf, SlotAt, PointMod
      <4>4. SlotAt(f, n) \in Slots(Archives[l])
        BY <3>2, <3>between, <2>1, SlotAtInRing
      <4>5. f.points[n] = rings[l][SlotAt(f, n)]
        BY <3>2, <4>1, <4>2 DEF FetchHalf
      <4> QED
        BY <4>3, <4>4, <4>5, <1>2
    <3>9. FetchOK(new, rings'[new.level])
      BY <3>4, <3>6, <3>7, <3>8, <3>half, <2>1 DEF FetchOK
    <3> QED
      BY <3>1, <3>9
  <2>2. CASE ~ (f # NULL /\ f.level = l)
    <3>1. fetches'[r] = f /\ f # NULL
      BY <2>2, <1>3, <1>4
    <3>2. FetchOK(f, rings[f.level]) /\ f.level \in Levels
      BY <3>1 DEF FetchesOK, FetchOK, FetchShape
    <3>3. rings'[f.level] = rings[f.level]
      BY <3>1, <3>2, <2>2, <1>2
    <3> QED
      BY <3>1, <3>2, <3>3
  <2> QED
    BY <2>1, <2>2
<1>5. fetches' = [r \in Readers |-> fetches'[r]]
  BY <1>3
<1> QED
  BY <1>4, <1>5 DEF FetchesOK

LEMMA InitFetch == PointsStart /\ ReaderInit => FetchInv
BY InitRings DEF FetchInv, FetchesOK, ReaderInit

LEMMA NextFetch ==
    ASSUME FetchInv, LapsDivideWord, [ReaderNext]_readerVars
    PROVE  FetchInv'
<1>1. RingsInv'
  BY NextRings DEF FetchInv
<1>2. ASSUME NEW w \in Writers, Write(w) PROVE FetchesOK'
  <2>1. CASE SaveHalf(w) \/ SaveRest(w)
    BY <2>1, StoreFetches DEF FetchInv
  <2>2. CASE ~ (SaveHalf(w) \/ SaveRest(w))
    <3>1. rings' = rings /\ fetches' = fetches
      BY <1>2, <2>2 DEF Write, Die, Crash, Call, NextPoint, RefusePoint, Return, LoadBase,
                        FetchBase, FetchWindow, AggregateValue
    <3> QED
      BY <3>1 DEF FetchInv, FetchesOK
  <2> QED
    BY <2>1, <2>2
<1>3. ASSUME NEW r \in Readers, Read(r) PROVE FetchesOK'
  <2>1. CASE Done(r)
    BY <2>1, GoFetch DEF Done, FetchInv
  <2> QED
    BY <2>1, <1>3, FetchTimeOK, FetchBase2OK, LoadHalfOK, LoadRestOK DEF Read, FetchInv
<1>4. ASSUME (Tick /\ UNCHANGED <<half, torn, fetches>>) \/ UNCHANGED readerVars
      PROVE  FetchesOK'
  BY <1>4 DEF Tick, readerVars, FetchInv, FetchesOK
<1> QED
  BY <1>1, <1>2, <1>3, <1>4 DEF ReaderNext, FetchInv

-----------------------------------------------------------------------------
(* The labels.                                                             *)

\* A lap of each archive is a whole part of the word.
LapsFitWord == \A l \in Levels : Word % Retention(Archives[l]) = 0

LEMMA LapsFit ==
    ASSUME NEW l \in Levels, LapsFitWord
    PROVE  /\ \E k \in Int : Word = Retention(Archives[l]) * k
           /\ (Word \div Archives[l].spp) % Archives[l].count = 0
<1>1. PICK S \in Nat \ {0}, C \in Nat \ {0} : S = Archives[l].spp /\ C = Archives[l].count
  BY ArchiveFacts
<1>2. PICK W \in Nat \ {0}, R \in Nat \ {0} : W = Word /\ R = S * C /\ R = Retention(Archives[l])
  <2>1. S * C \in Nat \ {0}
    OBVIOUS
  <2>2. Retention(Archives[l]) = S * C
    BY <1>1 DEF Retention
  <2>3. PICK R \in Nat \ {0} : R = S * C
    BY <2>1
  <2> QED
    BY <2>2, <2>3, WordAssumption
<1>3. PICK k \in Int : W = R * k
  <2>1. W = R * (W \div R) + (W % R) /\ W \div R \in Int
    BY DivMod
  <2>2. W % R = 0
    BY <1>2 DEF LapsFitWord
  <2> QED
    BY <2>1, <2>2
<1>4. W = S * (C * k) /\ C * k \in Int
  BY <1>2, <1>3
<1>5. PICK y \in Int : y = C * k
  BY <1>4
<1>6. W \div S = y
  BY <1>4, <1>5, MultipleMod
<1>7. y % C = 0
  BY <1>5, MultipleMod
<1> QED
  BY <1>1, <1>2, <1>3, <1>6, <1>7

LEMMA LapsFitDivide == LapsFitWord => LapsDivideWord
BY LapsFit DEF LapsDivideWord

\* The time wsp_fetch_points labels the i-th point with.
LabelOf(f, i) == Wrap(f.base2 + Archives[f.level].spp * (Interval(f).offset + i - 1))

LEMMA Labelled ==
    ASSUME NEW f, NEW i \in DOMAIN f.points
    PROVE  /\ Result(f)[i].timestamp = LabelOf(f, i)
           /\ f.points[i].timestamp = LabelOf(f, i) => Result(f)[i] = f.points[i]
           /\ Result(f)[i].value # NaN => Result(f)[i] = f.points[i]
<1>1. Result(f)[i] = IF f.points[i].timestamp = LabelOf(f, i)
                     THEN f.points[i] ELSE Point(LabelOf(f, i), NaN)
  BY DEF Result, FilterPoints, LabelOf, Point
<1>2. /\ Point(LabelOf(f, i), NaN).timestamp = LabelOf(f, i)
      /\ Point(LabelOf(f, i), NaN).value = NaN
  BY DEF Point
<1> QED
  BY <1>1, <1>2

\* The i-th point was asked for.
InRequest(f, i) == i \in Nat \ {0} /\ i <= Interval(f).count

LEMMA WantedTime ==
    ASSUME NEW f, NEW S \in Nat \ {0}, NEW C \in Nat \ {0}, NEW F \in Nat, NEW U \in Nat,
           NEW n \in Nat, NEW q \in Int, NEW i \in Nat \ {0},
           Asked(f, S, C, F, U), Derived(f, S, C, F, U, n, q), InRequest(f, i)
    PROVE  Wanted(f, i) = S * (F + i - 1) /\ S * (F + i - 1) \in Timestamp
<1>1. Wanted(f, i) = S * F + (i - 1) * S
  BY DEF Wanted, Asked
<1>2. S * F + (i - 1) * S = S * (F + i - 1)
  OBVIOUS
<1>3. F + i - 1 <= U
  BY DEF InRequest, Derived
<1>4. PICK d \in Nat : d = F + i - 1
  OBVIOUS
<1>5. S * d <= S * U
  BY <1>3, <1>4
<1>6. S * d \in Nat /\ S * U \in Nat
  OBVIOUS
<1>7. S * d \in Timestamp
  BY <1>5, <1>6, WordAssumption DEF Asked, Timestamp
<1> QED
  BY <1>1, <1>2, <1>4, <1>7

\* Both loads of the base have found the same, ...
SameBases(f) == f.base = f.base2

\* ... or another one.
SecondBase(f, S, m) == f.base2 = S * m

\* A lap is the k-th part of the word.
WordOfLaps(S, C, k) == Word = (S * C) * k

\* With the second base equal to the first, labels are the times asked for.
LEMMA LabelWanted ==
    ASSUME NEW f, NEW S \in Nat \ {0}, NEW C \in Nat \ {0}, NEW F \in Nat, NEW U \in Nat,
           NEW n \in Nat, NEW q \in Int, NEW i \in Nat \ {0},
           Asked(f, S, C, F, U), Derived(f, S, C, F, U, n, q), InRequest(f, i),
           SameBases(f)
    PROVE  LabelOf(f, i) = S * (F + i - 1)
<1>1. PICK W \in Nat \ {0} : W = Word
  BY WordAssumption
<1>2. PICK a \in 0 .. W - 1 : a = S * (F + i - 1)
  BY <1>1, WantedTime DEF Timestamp
<1>3. LabelOf(f, i) = Wrap(S * n + S * (F - n + W * q + i - 1))
  BY <1>1 DEF LabelOf, Asked, Derived, SameBases
<1>4. S * n + S * (F - n + W * q + i - 1) = W * (S * q) + S * (F + i - 1)
  OBVIOUS
<1>5. S * q \in Int
  OBVIOUS
<1>6. (W * (S * q) + a) % W = a
  BY <1>5, DivModOf
<1> QED
  BY <1>1, <1>2, <1>3, <1>4, <1>6 DEF Wrap

\* The second base is whole laps from the first.
LapsBetween(f, S, C) == (f.base2 - f.base) % (S * C) = 0

\* How far a label is from what was asked for.
Off(f, i) == LabelOf(f, i) - Wanted(f, i)

LEMMA LabelLapsOff ==
    ASSUME NEW f, NEW S \in Nat \ {0}, NEW C \in Nat \ {0}, NEW F \in Nat, NEW U \in Nat,
           NEW n \in Nat, NEW q \in Int, NEW i \in Nat \ {0}, NEW m \in Nat, NEW k \in Int,
           Asked(f, S, C, F, U), Derived(f, S, C, F, U, n, q), InRequest(f, i),
           SecondBase(f, S, m), LapsBetween(f, S, C), WordOfLaps(S, C, k)
    PROVE  Off(f, i) % (S * C) = 0
<1>1. PICK W \in Nat \ {0}, R \in Nat \ {0} : W = Word /\ R = S * C
  <2>1. S * C \in Nat \ {0}
    OBVIOUS
  <2> QED
    BY <2>1, WordAssumption
<1>2. PICK g \in Int : S * m - S * n = R * g
  <2>1. PICK x \in Int : x = S * m - S * n
    OBVIOUS
  <2>2. x % R = 0
    BY <2>1, <1>1 DEF LapsBetween, Derived, SecondBase
  <2>3. x = R * (x \div R) + (x % R) /\ x \div R \in Int
    BY DivMod
  <2>4. PICK g \in Int : g = x \div R
    BY <2>3
  <2>5. x = R * g
    BY <2>2, <2>3, <2>4
  <2> QED
    BY <2>1, <2>5
<1>3. Wanted(f, i) = S * (F + i - 1)
  BY WantedTime
<1>4. PICK x \in Int : x = S * m + S * (F - n + W * q + i - 1)
  OBVIOUS
<1>5. LabelOf(f, i) = Wrap(x)
  BY <1>1, <1>4 DEF LabelOf, Asked, Derived, SecondBase
<1>6. PICK h \in Int, y \in Int : x = W * h + y /\ y = x % W
  <2>1. x = W * (x \div W) + (x % W) /\ x \div W \in Int /\ x % W \in 0 .. W - 1
    BY DivMod
  <2>2. PICK h \in Int, y \in Int : h = x \div W /\ y = x % W
    BY <2>1
  <2>3. x = W * h + y
    BY <2>1, <2>2
  <2> QED
    BY <2>2, <2>3
<1>7. LabelOf(f, i) = y
  BY <1>1, <1>5, <1>6 DEF Wrap
<1>8. S * (F - n + W * q + i - 1) = S * (F + i - 1) - S * n + W * (S * q)
  OBVIOUS
<1>9. PICK A \in Int, N \in Int, M \in Int, Q \in Int, H \in Int, G \in Int :
         /\ A = S * (F + i - 1) /\ N = S * n /\ M = S * m
         /\ Q = W * (S * q) /\ H = W * h /\ G = R * g
  <2>1. /\ S * (F + i - 1) \in Int /\ S * n \in Int /\ S * m \in Int
        /\ W * (S * q) \in Int /\ W * h \in Int /\ R * g \in Int
    OBVIOUS
  <2> QED
    BY <2>1
<1>10. y - A = G + Q - H
  <2>1. x = M + (A - N + Q)
    BY <1>4, <1>8, <1>9
  <2>2. M - N = G /\ x = H + y
    BY <1>2, <1>6, <1>9
  <2> QED
    BY <2>1, <2>2
<1>11. G + Q - H = R * (g + k * (S * q - h))
  <2>1. W = R * k
    BY <1>1 DEF WordOfLaps
  <2>2. R * (g + k * (S * q - h)) = R * g + (R * k) * (S * q) - (R * k) * h
    OBVIOUS
  <2> QED
    BY <2>1, <2>2, <1>9
<1>12. (R * (g + k * (S * q - h))) % R = 0
  <2>1. g + k * (S * q - h) \in Int
    OBVIOUS
  <2> QED
    BY <2>1, MultipleMod
<1>13. Off(f, i) = R * (g + k * (S * q - h))
  BY <1>3, <1>7, <1>9, <1>10, <1>11 DEF Off
<1> QED
  BY <1>1, <1>12, <1>13

\* A fetch that returns, in whole intervals.
LEMMA ReturnedFetch ==
    ASSUME NEW r \in Readers, FetchesOK, Returning(r)
    PROVE  LET f == fetches[r]
           IN  /\ FetchOK(f, rings[f.level]) /\ f.level \in Levels
               /\ Len(f.points) = Interval(f).count
               /\ DOMAIN f.points = 1 .. Interval(f).count
               /\ f.at = "points"
               /\ \E S \in Nat \ {0}, C \in Nat \ {0}, F \in Nat, U \in Nat, n \in Nat, q \in Int :
                    Asked(f, S, C, F, U) /\ Derived(f, S, C, F, U, n, q)
<1> DEFINE f == fetches[r]
<1>1. /\ FetchOK(f, rings[f.level]) /\ f.at = "points"
      /\ Len(f.points) = Interval(f).count
  BY DEF Returning, FetchesOK
<1>2. FetchShape(f) /\ WholeTime(Archives[f.level], f.base)
  BY <1>1 DEF FetchOK, FetchBases
<1>3. DOMAIN f.points = 1 .. Len(f.points)
  BY <1>2, LenProperties DEF FetchShape
<1>4. \E S \in Nat \ {0}, C \in Nat \ {0}, F \in Nat, U \in Nat, n \in Nat, q \in Int :
         Asked(f, S, C, F, U) /\ Derived(f, S, C, F, U, n, q)
  BY <1>2, IntervalFacts DEF FetchShape
<1> QED
  BY <1>1, <1>2, <1>3, <1>4 DEF FetchShape

LEMMA FetchLabels ==
    ASSUME NEW r \in Readers, FetchesOK, Returning(r), NEW i \in DOMAIN fetches[r].points
    PROVE  LET f == fetches[r]
               t == Result(f)[i].timestamp
           IN  /\ f.base = f.base2 => t = Wanted(f, i)
               /\ LapsFitWord /\ f.base # 0 =>
                    (t - Wanted(f, i)) % Retention(Archives[f.level]) = 0
<1> DEFINE f == fetches[r]
<1>1. /\ FetchOK(f, rings[f.level]) /\ f.level \in Levels /\ f.at = "points"
      /\ DOMAIN f.points = 1 .. Interval(f).count
  BY ReturnedFetch
<1>2. PICK S \in Nat \ {0}, C \in Nat \ {0}, F \in Nat, U \in Nat, n \in Nat, q \in Int :
         Asked(f, S, C, F, U) /\ Derived(f, S, C, F, U, n, q)
  BY ReturnedFetch
<1>3. i \in Nat \ {0} /\ InRequest(f, i)
  BY <1>1, <1>2 DEF InRequest, Derived
<1>4. Result(f)[i].timestamp = LabelOf(f, i)
  BY Labelled
<1>5. ASSUME SameBases(f) PROVE LabelOf(f, i) = Wanted(f, i)
  <2> HIDE DEF f
  <2>1. LabelOf(f, i) = S * (F + i - 1)
    BY <1>2, <1>3, <1>5, LabelWanted
  <2>2. Wanted(f, i) = S * (F + i - 1)
    BY <1>2, <1>3, WantedTime
  <2> QED
    BY <2>1, <2>2
<1>6. ASSUME LapsFitWord, f.base # 0
      PROVE  Off(f, i) % Retention(Archives[f.level]) = 0
  <2>1. PICK k \in Int : Word = Retention(Archives[f.level]) * k
    BY <1>1, <1>6, LapsFit
  <2>2. Archives[f.level].spp = S /\ Archives[f.level].count = C
    BY <1>2 DEF Asked
  <2>3. Retention(Archives[f.level]) = S * C
    BY <2>2 DEF Retention
  <2>4. PICK m \in Nat : f.base2 = S * m
    BY <1>1, <2>2 DEF FetchOK, FetchBases, WholeTime
  <2>5. LapsBetween(f, S, C)
    BY <1>1, <1>6, <2>3 DEF FetchOK, FetchBases, LapsBetween
  <2>6. Off(f, i) % (S * C) = 0
    <3>1. WordOfLaps(S, C, k) /\ SecondBase(f, S, m)
      BY <2>1, <2>3, <2>4 DEF WordOfLaps, SecondBase
    <3> HIDE DEF f
    <3> QED
      BY <3>1, <1>2, <1>3, <2>5, LabelLapsOff
  <2> QED
    BY <2>3, <2>6
<1> QED
  BY <1>4, <1>5, <1>6 DEF Off, SameBases

\* A fetch labels its points with the times it was asked for, or with times whole
\* laps away if the base was replaced between its two loads, however many stores the
\* writer has done, or left half done, meanwhile.
THEOREM LabelsStayInPlace ==
    ASSUME PointsStart, LapsFitWord
    PROVE  ReaderSpec => []LabelsInPlace
<1>1. LapsDivideWord
  BY LapsFitDivide
<1>2. ReaderInit => FetchInv
  BY InitFetch
<1>3. FetchInv /\ [ReaderNext]_readerVars => FetchInv'
  BY <1>1, NextFetch
<1>4. FetchInv => LabelsInPlace
  BY FetchLabels DEF FetchInv, LabelsInPlace
<1> QED
  BY <1>2, <1>3, <1>4, PTL DEF ReaderSpec

-----------------------------------------------------------------------------
(* Nothing is missed.                                                      *)

\* Nobody asks for the times before the first interval, that of empty slots.
RequestsAfterFirst == \A q \in Requests : q.from >= Archives[q.level].spp

\* Slot s holds the point of an interval asked for.
InSlot(f, ring, S, C, F, U, s, j) ==
    /\ s \in f.kept
    /\ ring[s].timestamp = S * j
    /\ F <= j /\ j <= U /\ j < F + C

\* Where the point of the j-th interval is.
LEMMA KeptSlot ==
    ASSUME NEW f, NEW S \in Nat \ {0}, NEW C \in Nat \ {0}, NEW F \in Nat, NEW U \in Nat,
           NEW n \in Nat, NEW q \in Int, NEW k \in Int, NEW b \in Nat,
           NEW j \in Nat \ {0}, NEW s \in 0 .. C - 1, NEW ring,
           Asked(f, S, C, F, U), Derived(f, S, C, F, U, n, q),
           SoundRing(Archives[f.level], S, C, ring, b), Holds(ring, S, s, j),
           SamePlaces(C, b, n), WordOfLaps(S, C, k)
    PROVE  SlotAt(f, j - F + 1) = s
<1>1. Interval(f).offset = F - n + Word * q /\ Archives[f.level].count = C
  BY DEF Asked, Derived
<1>2. SlotAt(f, j - F + 1) = (F - n + Word * q + (j - F + 1) - 1) % C
  BY <1>1 DEF SlotAt
<1>3. (j - b) % C = s
  BY SlotOfPoint
<1>4. (j - n) % C = s
  BY <1>3 DEF SamePlaces, Ahead
<1>5. F - n + Word * q + (j - F + 1) - 1 = C * (S * k * q) + (j - n)
  <2>0. Word = (S * C) * k
    BY DEF WordOfLaps
  <2>1. ((S * C) * k) * q = C * (S * k * q)
    OBVIOUS
  <2>2. PICK Q \in Int : Q = ((S * C) * k) * q
    OBVIOUS
  <2>3. F - n + Q + (j - F + 1) - 1 = Q + (j - n)
    OBVIOUS
  <2> QED
    BY <2>0, <2>1, <2>2, <2>3
<1>6. (C * (S * k * q) + (j - n)) % C = (j - n) % C
  <2>1. PICK x \in Int, y \in Int : x = j - n /\ y = S * k * q
    OBVIOUS
  <2>2. (C * y + x) % C = x % C
    BY ModShift
  <2> QED
    BY <2>1, <2>2
<1> QED
  BY <1>2, <1>4, <1>5, <1>6

\* The interval of a point that was asked for and may be in the archive.
LEMMA WithinRequest ==
    ASSUME NEW f, NEW S \in Nat \ {0}, NEW C \in Nat \ {0}, NEW F \in Nat, NEW U \in Nat,
           NEW j \in Nat, Asked(f, S, C, F, U),
           S * j \in Wanted(f, 1) ..
                         Capped(f.until, Wanted(f, 1) + Retention(Archives[f.level]) - 1)
    PROVE  F <= j /\ j <= U /\ j < F + C
<1>1. Wanted(f, 1) = S * F
  BY DEF Wanted, Asked
<1>2. Retention(Archives[f.level]) = S * C
  BY DEF Retention, Asked
<1>3. PICK u \in Nat : u = f.until /\ u < S * U + S
  BY DEF Asked
<1>4. PICK A \in Int, B \in Int, D \in Int, E \in Int :
         A = S * F /\ B = S * j /\ D = S * C /\ E = S * U
  OBVIOUS
<1>5. A <= B /\ B <= u /\ B <= A + D - 1
  <2>1. B \in A .. Capped(u, A + D - 1)
    BY <1>1, <1>2, <1>3, <1>4
  <2> QED
    BY <2>1 DEF Capped
<1>6. F <= j
  <2>1. SUFFICES ASSUME F >= j + 1 PROVE FALSE
    OBVIOUS
  <2>2. S * F >= S * (j + 1) /\ S * (j + 1) = S * j + S
    BY <2>1
  <2> QED
    BY <2>2, <1>4, <1>5
<1>7. j <= U
  <2>1. SUFFICES ASSUME j >= U + 1 PROVE FALSE
    OBVIOUS
  <2>2. S * j >= S * (U + 1) /\ S * (U + 1) = S * U + S
    BY <2>1
  <2> QED
    BY <2>2, <1>3, <1>4, <1>5
<1>8. j < F + C
  <2>1. SUFFICES ASSUME j >= F + C PROVE FALSE
    OBVIOUS
  <2>2. S * j >= S * (F + C) /\ S * (F + C) = S * F + S * C
    BY <2>1
  <2> QED
    BY <2>2, <1>4, <1>5
<1> QED
  BY <1>6, <1>7, <1>8

AfterFirst(f, S) == f.from \in Timestamp /\ f.from >= S

\* Unless the times before the first interval are asked for, a whole request is
\* fetched or as much of it as the archive holds.
LEMMA WholeRequest ==
    ASSUME NEW f, NEW S \in Nat \ {0}, NEW C \in Nat \ {0}, NEW F \in Nat, NEW U \in Nat,
           NEW n \in Nat, NEW q \in Int,
           Asked(f, S, C, F, U), Derived(f, S, C, F, U, n, q),
           AfterFirst(f, S)
    PROVE  F >= 1 /\ Interval(f).count = Capped(U - F + 1, C)
<1>1. PICK W \in Nat \ {0} : W = Word
  BY WordAssumption
<1>2. PICK a \in Nat : a = f.from /\ a >= S
  BY <1>1 DEF Timestamp, AfterFirst
<1>3. F >= 1
  <2>1. SUFFICES ASSUME F = 0 PROVE FALSE
    OBVIOUS
  <2>2. TimeFloor(a, S) >= S
    BY <1>2, TimeFloorFacts
  <2>3. S * F = 0
    BY <2>1
  <2> QED
    BY <2>2, <2>3, <1>2 DEF Asked
<1>4. U <= W - 1
  <2>1. S * U \in Nat /\ S * U >= U
    OBVIOUS
  <2>2. S * U <= W - 1
    BY <1>1, <2>1 DEF Asked, Timestamp
  <2> QED
    BY <2>1, <2>2
<1>5. PICK y \in 0 .. W - 1 : y = U - F + 1
  BY <1>3, <1>4 DEF Asked
<1>6. y % W = y
  BY ModSmall
<1>7. Wrap(U - F + 1) = U - F + 1
  BY <1>1, <1>5, <1>6 DEF Wrap
<1> QED
  BY <1>3, <1>7 DEF Derived

LEMMA FetchMissesNone ==
    ASSUME NEW r \in Readers, RequestsAfterFirst, LapsFitWord, FetchInv, Returning(r),
           SameBases(fetches[r]), NEW s \in fetches[r].kept
    PROVE  LET f == fetches[r]
               p == rings[f.level][s]
           IN  p.timestamp \in Wanted(f, 1) ..
                   Capped(f.until, Wanted(f, 1) + Retention(Archives[f.level]) - 1)
               => \E i \in DOMAIN f.points : Result(f)[i] = p
<1> DEFINE f == fetches[r]
           l == f.level
           arc == Archives[l]
           p == rings[l][s]
           stamps == Stamps(arc, rings[l])
<1>1. SUFFICES ASSUME p.timestamp \in Wanted(f, 1) ..
                          Capped(f.until, Wanted(f, 1) + Retention(arc) - 1)
               PROVE  \E i \in DOMAIN f.points : Result(f)[i] = p
  OBVIOUS
<1>2. /\ FetchShape(f) /\ FetchBases(f, rings[l]) /\ FetchKept(f, rings[l])
      /\ l \in Levels /\ Len(f.points) = Interval(f).count
      /\ DOMAIN f.points = 1 .. Interval(f).count
  BY ReturnedFetch DEF FetchInv, FetchOK
<1>3. PICK S \in Nat \ {0}, C \in Nat \ {0}, F \in Nat, U \in Nat, n \in Nat, q \in Int :
         Asked(f, S, C, F, U) /\ Derived(f, S, C, F, U, n, q)
  BY ReturnedFetch DEF FetchInv
<1>4. /\ arc.spp = S /\ arc.count = C /\ Slots(arc) = 0 .. C - 1 /\ Retention(arc) = S * C
      /\ 0 \in Slots(arc) /\ s \in Slots(arc)
  BY <1>2, <1>3 DEF Asked, Slots, Retention, FetchShape
<1>5. AfterFirst(f, S)
  BY <1>2, <1>4 DEF FetchShape, RequestsAfterFirst, AfterFirst
<1>6. F >= 1 /\ Interval(f).count = Capped(U - F + 1, C)
  <2> HIDE DEF f
  <2> QED
    BY <1>3, <1>5, WholeRequest
<1>7. /\ WholeRing(arc, stamps) /\ AlignedRing(arc, stamps)
      /\ \A x \in Slots(arc) : stamps[x].timestamp = rings[l][x].timestamp
  <2>1. WholeRing(arc, stamps) /\ AlignedRing(arc, stamps)
    BY <1>2 DEF FetchInv, RingsInv, StampsOK
  <2>2. ASSUME NEW x \in Slots(arc) PROVE stamps[x].timestamp = rings[l][x].timestamp
    <3>1. stamps[x] = Point(rings[l][x].timestamp, 0)
      BY StampOf
    <3> QED
      BY <3>1 DEF Point
  <2> QED
    BY <2>1, <2>2
<1>8. PICK j \in Nat, b \in Nat : p.timestamp = S * j /\ rings[l][0].timestamp = S * b
  <2> HIDE DEF stamps, p
  <2>1. stamps[s].timestamp = p.timestamp /\ stamps[0].timestamp = rings[l][0].timestamp
    BY <1>4, <1>7 DEF p
  <2> QED
    BY <2>1, <1>4, <1>7 DEF WholeRing
<1>9. F <= j /\ j <= U /\ j < F + C
  <2>1. S * j \in Wanted(f, 1) ..
                      Capped(f.until, Wanted(f, 1) + Retention(Archives[f.level]) - 1)
    BY <1>1, <1>8
  <2> HIDE DEF f
  <2> QED
    BY <2>1, <1>3, WithinRequest
<1>10. f.base # 0
  <2>1. j # 0
    BY <1>6, <1>9
  <2>2. S * j # 0
    BY <2>1
  <2> QED
    BY <2>2, <1>2, <1>8 DEF FetchKept
<1>11. SamePlaces(C, b, n)
  <2>1. (S * b - S * n) % (S * C) = 0
    BY <1>2, <1>3, <1>4, <1>8, <1>10 DEF FetchBases, KnownBase, Derived
  <2>2. b \in Int /\ n \in Int
    OBVIOUS
  <2> QED
    BY <2>1, <2>2, SameTurn
<1>12. PICK k \in Int : WordOfLaps(S, C, k)
  BY <1>2, <1>4, LapsFit DEF WordOfLaps
<1>13. SoundRing(arc, S, C, stamps, b) /\ Holds(stamps, S, s, j)
  BY <1>4, <1>7, <1>8 DEF SoundRing, Holds
<1>14. SlotAt(f, j - F + 1) = s
  <2>1. j \in Nat \ {0} /\ s \in 0 .. C - 1
    BY <1>4, <1>6, <1>9
  <2> HIDE DEF f, stamps
  <2> QED
    BY <2>1, <1>3, <1>11, <1>12, <1>13, KeptSlot
<1>15. PICK i \in Nat \ {0} : i = j - F + 1
  BY <1>9
<1>16. i <= Interval(f).count
  BY <1>6, <1>9, <1>15 DEF Capped
<1>17. i \in DOMAIN f.points /\ InRequest(f, i)
  <2>1. Interval(f).count \in Nat
    BY <1>3 DEF Derived
  <2> QED
    BY <2>1, <1>2, <1>16 DEF InRequest
<1>18. f.points[i] = p
  BY <1>2, <1>14, <1>15, <1>17 DEF FetchKept
<1>19. LabelOf(f, i) = S * (F + i - 1)
  <2>1. SameBases(f) /\ InRequest(f, i)
    BY <1>17
  <2> HIDE DEF f, l, arc, p, stamps
  <2>2. /\ S \in Nat \ {0} /\ C \in Nat \ {0} /\ i \in Nat \ {0}
        /\ Asked(f, S, C, F, U) /\ Derived(f, S, C, F, U, n, q)
    BY <1>3
  <2> QED
    BY <2>1, <2>2, LabelWanted
<1>20. F + i - 1 = j
  BY <1>15
<1>21. f.points[i].timestamp = LabelOf(f, i)
  BY <1>8, <1>18, <1>19, <1>20
<1>22. Result(f)[i] = p
  BY <1>17, <1>18, <1>21, Labelled
<1> QED
  BY <1>17, <1>22

\* A reader whose two loads of the base agree gets every point it has asked for that
\* nobody has stored over meanwhile, whatever else has been stored around it.
THEOREM FetchesMissNone ==
    ASSUME PointsStart, LapsFitWord, RequestsAfterFirst
    PROVE  ReaderSpec => []NoneMissed
<1>1. LapsDivideWord
  BY LapsFitDivide
<1>2. ReaderInit => FetchInv
  BY InitFetch
<1>3. FetchInv /\ [ReaderNext]_readerVars => FetchInv'
  BY <1>1, NextFetch
<1>4. FetchInv => NoneMissed
  BY FetchMissesNone DEF NoneMissed, SameBases
<1> QED
  BY <1>2, <1>3, <1>4, PTL DEF ReaderSpec

-----------------------------------------------------------------------------
(* The values.                                                             *)

Submitted == {Point(TimeFloor(p.timestamp, Archives[1].spp), p.value) : p \in Inputs}

Genuine(p) == p = Blank \/ p \in Submitted

\* Before, the finest archive had submitted points, if any.
GenuineStart ==
    /\ PointsStart
    /\ 1 \in Levels
    /\ \A i \in Slots(Archives[1]) : Genuine(InitialRings[1][i])

TornOK ==
    /\ \A w \in Writers : half[w] => pc[w] = "save" /\ Target(w) \in torn
    /\ \A c \in torn : c[1] \in Levels /\ c[2] \in Slots(Archives[c[1]])

\* What a writer stores in the finest archive was submitted.
SubmittedBy(p, u) ==
    p \in {"loadBase", "save"} /\ u.level = 1 =>
        \E q \in Inputs : u.time = q.timestamp /\ u.value = q.value

RingGenuine ==
    \A i \in Slots(Archives[1]) : <<1, i>> \notin torn => Genuine(rings[1][i])

FetchGenuine(f) ==
    f.level = 1 =>
        \A i \in 1 .. Len(f.points) : i \notin f.dirty => Genuine(f.points[i])

\* Torn slots are those with a half done store, or a dead one; the others and what
\* was loaded from them hold whole points.
ValueInv ==
    /\ FetchInv
    /\ TornOK
    /\ RingGenuine
    /\ \A w \in Writers : SubmittedBy(pc[w], upd[w])
    /\ \A r \in Readers : fetches[r] # NULL => FetchGenuine(fetches[r])

LEMMA InitValues == GenuineStart /\ ReaderInit => ValueInv
<1> SUFFICES ASSUME GenuineStart, ReaderInit PROVE ValueInv
  OBVIOUS
<1>1. FetchInv
  BY InitFetch DEF GenuineStart
<1>2. TornOK /\ RingGenuine
  BY DEF ReaderInit, Init, TornOK, RingGenuine, GenuineStart
<1>3. \A w \in Writers : SubmittedBy(pc[w], upd[w])
  BY DEF ReaderInit, Init, SubmittedBy
<1>4. \A r \in Readers : fetches[r] = NULL
  BY DEF ReaderInit
<1> QED
  BY <1>1, <1>2, <1>3, <1>4 DEF ValueInv

\* A store changes nothing that fetches have loaded.
LEMMA TouchGenuine ==
    ASSUME NEW l, NEW i, NEW r \in Readers, ValueInv, Touch(l, i), fetches'[r] # NULL
    PROVE  FetchGenuine(fetches'[r])
<1> DEFINE f == fetches[r]
           new == Touched(f, i)
<1>1. fetches'[r] = IF f # NULL /\ f.level = l THEN new ELSE f
  BY DEF Touch, Touched
<1>2. CASE f # NULL /\ f.level = l
  <2>1. IsFetch(f) /\ FetchGenuine(f)
    BY <1>2 DEF ValueInv, FetchInv, FetchesOK, FetchOK, FetchShape
  <2> HIDE DEF new
  <2>2. /\ new.level = f.level /\ new.points = f.points
        /\ new.dirty = IF Between(f, i) THEN f.dirty \cup {Len(f.points)} ELSE f.dirty
    BY <2>1, TouchedFields DEF new
  <2>3. f.dirty \subseteq new.dirty
    BY <2>2
  <2> QED
    BY <1>1, <1>2, <2>1, <2>2, <2>3 DEF FetchGenuine
<1>3. CASE ~ (f # NULL /\ f.level = l)
  BY <1>1, <1>3 DEF ValueInv
<1> QED
  BY <1>2, <1>3

LEMMA SaveHalfValues ==
    ASSUME NEW w \in Writers, LapsDivideWord, ValueInv, FetchInv', SaveHalf(w)
    PROVE  ValueInv'
<1> DEFINE l == upd[w].level
           i == Slot(upd[w])
<1>1. RingsInv
  BY DEF ValueInv, FetchInv
<1>2. /\ pc[w] = "save" /\ l \in Levels /\ i \in Slots(Archives[l])
      /\ Target(w) = <<l, i>> /\ Touch(l, i)
  BY <1>1, StoreTouches
<1>3. PICK p : ChangesSlot(l, i, p)
  BY <1>1, StoreTouches
<1>4. /\ torn' = torn \cup {<<l, i>>} /\ half' = [half EXCEPT ![w] = TRUE]
      /\ pc' = pc /\ upd' = upd
  BY <1>2 DEF SaveHalf
<1>5. TornOK'
  <2>1. Target(w)' = Target(w)
    BY <1>4 DEF Target
  <2>2. Target(w)' \in torn'
    BY <2>1, <1>2, <1>4
  <2>3. ASSUME NEW c \in torn' PROVE c[1] \in Levels /\ c[2] \in Slots(Archives[c[1]])
    BY <1>2, <1>4 DEF ValueInv, TornOK
  <2>4. \A x \in Writers : pc'[x] = "save" /\ Target(x)' \in torn'
    BY <2>2, <1>2, <1>4, TheWriter
  <2> QED
    BY <2>3, <2>4 DEF TornOK
<1>6. RingGenuine'
  <2>1. ASSUME NEW j \in Slots(Archives[1]), <<1, j>> \notin torn'
        PROVE  Genuine(rings'[1][j])
    <3>1. <<1, j>> \notin torn /\ <<1, j>> # <<l, i>>
      BY <2>1, <1>4
    <3>2. rings'[1][j] = rings[1][j]
      <4>1. CASE l = 1
        BY <4>1, <3>1, <1>3 DEF ChangesSlot
      <4>2. CASE l # 1
        <5>1. 1 \in Levels
          BY <1>2, ArchiveFacts DEF Levels
        <5> QED
          BY <4>2, <5>1, <1>3 DEF ChangesSlot
      <4> QED
        BY <4>1, <4>2
    <3> QED
      BY <3>1, <3>2 DEF ValueInv, RingGenuine
  <2> QED
    BY <2>1 DEF RingGenuine
<1>7. \A x \in Writers : SubmittedBy(pc[x], upd[x])'
  BY <1>4 DEF ValueInv, SubmittedBy
<1>8. \A r \in Readers : fetches'[r] # NULL => FetchGenuine(fetches'[r])
  BY <1>2, TouchGenuine
<1> QED
  BY <1>5, <1>6, <1>7, <1>8 DEF ValueInv, FetchGenuine

LEMMA SaveRestValues ==
    ASSUME NEW w \in Writers, LapsDivideWord, ValueInv, FetchInv', SaveRest(w)
    PROVE  ValueInv'
<1> DEFINE u == upd[w]
           l == u.level
           i == Slot(u)
           p == Point(Floored(u), u.value)
<1>1. RingsInv
  BY DEF ValueInv, FetchInv
<1>2. /\ pc[w] = "save" /\ l \in Levels /\ i \in Slots(Archives[l])
      /\ Target(w) = <<l, i>> /\ Touch(l, i)
  BY <1>1, StoreTouches
<1>3. ChangesSlot(l, i, p)
  <2>1. StampsOK /\ StoredAt(l, i, p)
    BY <1>1, SavePointStores DEF SaveRest, RingsInv
  <2> HIDE DEF l, i, p
  <2> QED
    BY <2>1, <1>2, StoredFacts
<1>4. torn' = torn \ {<<l, i>>} /\ half' = [half EXCEPT ![w] = FALSE]
  BY <1>2 DEF SaveRest
<1>5. pc'[w] \notin {"loadBase", "save"}
  BY DEF SaveRest, SavePoint, Go, ValueInv, FetchInv, RingsInv, FramesOK
<1>6. TornOK'
  <2>1. half'[w] = FALSE
    BY <1>4, <1>1 DEF RingsInv
  <2>2. ASSUME NEW c \in torn' PROVE c[1] \in Levels /\ c[2] \in Slots(Archives[c[1]])
    BY <1>4 DEF ValueInv, TornOK
  <2>3. \A x \in Writers : ~ half'[x]
    BY <2>1, TheWriter
  <2> QED
    BY <2>2, <2>3 DEF TornOK
<1>7. l = 1 => Genuine(p)
  <2>1. SubmittedBy(pc[w], u)
    BY DEF ValueInv
  <2> QED
    BY <2>1, <1>2 DEF SubmittedBy, Genuine, Submitted, Floored
<1>8. RingGenuine'
  <2>1. ASSUME NEW j \in Slots(Archives[1]), <<1, j>> \notin torn'
        PROVE  Genuine(rings'[1][j])
    <3>1. CASE l = 1 /\ j = i
      <4>1. rings'[1][j] = p
        BY <3>1, <1>3 DEF ChangesSlot
      <4> QED
        BY <4>1, <3>1, <1>7
    <3>2. CASE ~ (l = 1 /\ j = i)
      <4>1. <<1, j>> # <<l, i>>
        BY <3>2
      <4>2. <<1, j>> \notin torn
        BY <4>1, <2>1, <1>4
      <4>3. rings'[1][j] = rings[1][j]
        <5>1. CASE l = 1
          BY <5>1, <3>2, <1>3 DEF ChangesSlot
        <5>2. CASE l # 1
          <6>1. 1 \in Levels
            BY <1>2, ArchiveFacts DEF Levels
          <6> QED
            BY <5>2, <6>1, <1>3 DEF ChangesSlot
        <5> QED
          BY <5>1, <5>2
      <4> QED
        BY <4>2, <4>3 DEF ValueInv, RingGenuine
    <3> QED
      BY <3>1, <3>2
  <2> QED
    BY <2>1 DEF RingGenuine
<1>9. \A x \in Writers : SubmittedBy(pc[x], upd[x])'
  BY <1>5, TheWriter DEF SubmittedBy
<1>10. \A r \in Readers : fetches'[r] # NULL => FetchGenuine(fetches'[r])
  BY <1>2, TouchGenuine
<1> QED
  BY <1>6, <1>8, <1>9, <1>10 DEF ValueInv, FetchGenuine

\* Where else a value for the finest archive comes from.
LEMMA OtherSubmitted ==
    ASSUME NEW w \in Writers, ValueInv,
           \/ Crash(w) \/ Call(w) \/ NextPoint(w) \/ RefusePoint(w) \/ Return(w)
           \/ LoadBase(w) \/ FetchBase(w) \/ FetchWindow(w) \/ AggregateValue(w)
    PROVE  SubmittedBy(pc[w], upd[w])'
<1> DEFINE u == upd[w]
<1>1. FramesOK
  BY DEF ValueInv, FetchInv, RingsInv
<1>2. CASE NextPoint(w)
  <2> DEFINE p == Head(u.todo)
             low == Min(Reaching(u.clock - p.timestamp))
             new == [u EXCEPT !.todo = Tail(@), !.time = p.timestamp,
                              !.value = p.value, !.low = low, !.level = low,
                              !.wrote = {}]
  <2>1. /\ FrameOK("next", u) /\ u.todo # <<>> /\ Go(w, "loadBase", new)
    BY <1>1, <1>2 DEF NextPoint, FramesOK
  <2>2. IsFrame(u) /\ u.todo \in Seq(Inputs)
    BY <2>1 DEF FrameOK
  <2>3. p \in Inputs
    BY <2>1, <2>2, HeadTailProperties
  <2>4. new.time = p.timestamp /\ new.value = p.value
    BY <2>2 DEF IsFrame, Fields
  <2>5. upd'[w] = new
    BY <2>1, <1>1 DEF Go, FramesOK
  <2> HIDE DEF new
  <2> QED
    BY <2>3, <2>4, <2>5 DEF SubmittedBy
<1>3. CASE LoadBase(w)
  <2> DEFINE new == [u EXCEPT !.base = rings[u.level][0].timestamp]
  <2>1. IsFrame(u) /\ pc[w] = "loadBase" /\ SubmittedBy("loadBase", u)
    BY <1>1, <1>3 DEF LoadBase, FramesOK, FrameOK, ValueInv
  <2>2. new.time = u.time /\ new.value = u.value /\ new.level = u.level
    BY <2>1 DEF IsFrame, Fields
  <2>3. pc'[w] = "idle" \/ upd'[w] = new
    BY <1>1, <1>3 DEF LoadBase, Go, FramesOK
  <2> HIDE DEF new
  <2> QED
    BY <2>1, <2>2, <2>3 DEF SubmittedBy
<1>4. CASE AggregateValue(w)
  <2> DEFINE a == Aggregate(u.window)
             new == [u EXCEPT !.base = 0, !.window = <<>>, !.value = a.value]
  <2>1. IsFrame(u) /\ u.level - 1 \in Levels /\ u.level \in Levels
    BY <1>1, <1>4 DEF AggregateValue, FramesOK, FrameOK, Updating
  <2>2. new.level = u.level
    BY <2>1 DEF IsFrame, Fields
  <2>3. pc'[w] = "next" \/ upd'[w] = new
    BY <1>1, <1>4 DEF AggregateValue, Go, FramesOK
  <2>4. u.level # 1
    BY <2>1, ArchiveFacts DEF Levels
  <2> HIDE DEF new
  <2> QED
    BY <2>2, <2>3, <2>4 DEF SubmittedBy
<1>5. CASE Crash(w) \/ Call(w) \/ RefusePoint(w) \/ Return(w) \/ FetchBase(w) \/ FetchWindow(w)
  <2>1. \E p, v : p \notin {"loadBase", "save"} /\ Go(w, p, v)
    BY <1>5 DEF Crash, Call, RefusePoint, Return, FetchBase, FetchWindow, Finish
  <2>2. pc'[w] \notin {"loadBase", "save"}
    BY <2>1, <1>1 DEF Go, FramesOK
  <2> QED
    BY <2>2 DEF SubmittedBy
<1> QED
  BY <1>2, <1>3, <1>4, <1>5

LEMMA OtherWriteValues ==
    ASSUME NEW w \in Writers, ValueInv, FetchInv', Write(w), ~ SaveHalf(w), ~ SaveRest(w)
    PROVE  ValueInv'
<1>1. /\ \/ Crash(w) \/ Call(w) \/ NextPoint(w) \/ RefusePoint(w) \/ Return(w)
         \/ LoadBase(w) \/ FetchBase(w) \/ FetchWindow(w) \/ AggregateValue(w)
      /\ rings' = rings /\ torn' = torn /\ fetches' = fetches
  BY DEF Write, Die, Crash, Call, NextPoint, RefusePoint, Return, LoadBase, FetchBase,
         FetchWindow, AggregateValue
<1>2. ~ half'[w]
  <2>1. CASE Die(w)
    <3>1. half'[w] = FALSE
      BY <2>1 DEF Die, ValueInv, FetchInv, RingsInv
    <3> QED
      BY <3>1
  <2>2. CASE ~ Die(w)
    <3>1. pc[w] # "save" /\ half' = half
      BY <2>2 DEF Write, Call, NextPoint, RefusePoint, Return, LoadBase, FetchBase,
                  FetchWindow, AggregateValue
    <3> QED
      BY <3>1 DEF ValueInv, TornOK
  <2> QED
    BY <2>1, <2>2
<1>3. TornOK'
  BY <1>1, <1>2, TheWriter DEF ValueInv, TornOK
<1>4. \A x \in Writers : SubmittedBy(pc[x], upd[x])'
  BY <1>1, OtherSubmitted, TheWriter
<1> QED
  BY <1>1, <1>3, <1>4 DEF ValueInv, RingGenuine, FetchGenuine

\* What a fetch has loaded is genuine, load by load.
LEMMA ReadValues ==
    ASSUME NEW r \in Readers, ValueInv, FetchInv', Read(r)
    PROVE  ValueInv'
<1>1. /\ rings' = rings /\ pc' = pc /\ upd' = upd /\ half' = half /\ torn' = torn
  BY DEF Read, FetchTime, FetchBase2, LoadHalf, LoadRest, Done
<1>2. TornOK' /\ RingGenuine' /\ \A x \in Writers : SubmittedBy(pc[x], upd[x])'
  BY <1>1 DEF ValueInv, TornOK, RingGenuine, SubmittedBy, Target
<1> DEFINE f == fetches[r]
<1>3. f # NULL => FetchShape(f) /\ FetchGenuine(f) /\ IsFetch(f)
  BY DEF ValueInv, FetchInv, FetchesOK, FetchOK, FetchShape
<1>4. fetches = [x \in Readers |-> fetches[x]]
  BY DEF ValueInv, FetchInv, FetchesOK
<1>5. /\ \A x \in Readers : x # r => fetches'[x] = fetches[x]
      /\ fetches'[r] # NULL => FetchGenuine(fetches'[r])
  <2>1. CASE FetchTime(r)
    <3>1. PICK q \in Requests :
             fetches' = [fetches EXCEPT ![r] =
                 [at |-> "base", level |-> q.level, from |-> q.from, until |-> q.until,
                  base |-> rings[q.level][0].timestamp, base2 |-> 0,
                  points |-> <<>>, dirty |-> {}, kept |-> Slots(Archives[q.level])]]
      BY <2>1 DEF FetchTime
    <3> DEFINE new ==
                 [at |-> "base", level |-> q.level, from |-> q.from, until |-> q.until,
                  base |-> rings[q.level][0].timestamp, base2 |-> 0,
                  points |-> <<>>, dirty |-> {}, kept |-> Slots(Archives[q.level])]
    <3>2. fetches' = [fetches EXCEPT ![r] = new] /\ new.points = <<>>
      BY <3>1
    <3> HIDE DEF new
    <3>3. Len(new.points) = 0
      BY <3>2
    <3>4. FetchGenuine(new)
      BY <3>3 DEF FetchGenuine
    <3> QED
      BY <3>2, <3>4, <1>4
  <2>2. CASE FetchBase2(r)
    <3> DEFINE new == [f EXCEPT !.at = "points", !.base2 = rings[f.level][0].timestamp]
    <3>1. fetches' = [fetches EXCEPT ![r] = new] /\ f # NULL
      BY <2>2 DEF FetchBase2
    <3>2. new.level = f.level /\ new.points = f.points /\ new.dirty = f.dirty
      BY <3>1, <1>3 DEF IsFetch, FetchFields
    <3> HIDE DEF new
    <3>3. FetchGenuine(new)
      BY <3>1, <3>2, <1>3 DEF FetchGenuine
    <3> QED
      BY <3>1, <3>3, <1>4
  <2>3. CASE LoadHalf(r)
    <3> DEFINE l == f.level
               n == Len(f.points)
               slot == SlotAt(f, n + 1)
               p == rings[l][slot]
               d == IF <<l, slot>> \in torn THEN f.dirty \cup {n + 1} ELSE f.dirty
               new == [f EXCEPT !.at = "rest", !.points = Append(@, p), !.dirty = d]
    <3>1. f # NULL /\ f.at = "points"
      BY <2>3 DEF LoadHalf
    <3>2. fetches' = [fetches EXCEPT ![r] = new]
      BY <2>3 DEF LoadHalf, SlotOf, SlotAt, PointMod
    <3>3. new.level = l /\ new.points = Append(f.points, p) /\ new.dirty = d
      BY <3>1, <1>3 DEF IsFetch, FetchFields
    <3>4. /\ n \in Nat /\ Len(Append(f.points, p)) = n + 1
          /\ \A i \in 1 .. n : Append(f.points, p)[i] = f.points[i]
          /\ Append(f.points, p)[n + 1] = p
      <4>1. FetchShape(f)
        BY <3>1, <1>3
      <4> HIDE DEF f, p
      <4> QED
        BY <4>1, AppendFacts
    <3>5. slot \in Slots(Archives[l])
      <4>1. FetchOK(f, rings[l]) /\ n + 1 \in Nat
        BY <3>1, <3>4 DEF ValueInv, FetchInv, FetchesOK
      <4> QED
        BY <4>1, SlotAtInRing
    <3> HIDE DEF new, slot
    <3>6. ASSUME l = 1, NEW i \in 1 .. n + 1, i \notin d
          PROVE  Genuine(Append(f.points, p)[i])
      <4>1. CASE i = n + 1
        <5>1. <<1, slot>> \notin torn
          BY <4>1, <3>6
        <5>2. Genuine(p)
          BY <5>1, <3>5, <3>6 DEF ValueInv, RingGenuine
        <5> QED
          BY <5>2, <4>1, <3>4
      <4>2. CASE i # n + 1
        <5>1. i \in 1 .. n
          BY <4>2, <3>4
        <5>2. i \notin f.dirty
          BY <3>6
        <5> QED
          BY <5>1, <5>2, <3>1, <3>4, <3>6, <1>3 DEF FetchGenuine
      <4> QED
        BY <4>1, <4>2
    <3>7. FetchGenuine(new)
      BY <3>3, <3>4, <3>6 DEF FetchGenuine
    <3> QED
      BY <3>2, <3>7, <1>4
  <2>4. CASE LoadRest(r)
    <3> DEFINE n == Len(f.points)
    <3>1. /\ f # NULL /\ f.at = "rest" /\ FetchHalf(f, rings[f.level])
          /\ n \in Nat /\ FetchGenuine(f)
      BY <2>4, <1>3, LoadRestFacts DEF FetchOK, ValueInv, FetchInv
    <3>2. PICK p, new :
             /\ fetches' = [fetches EXCEPT ![r] = new]
             /\ new.level = f.level /\ new.dirty = f.dirty
             /\ Len(new.points) = n
             /\ new.points[n] = p
             /\ \A i \in 1 .. n : i # n => new.points[i] = f.points[i]
             /\ f.points[n] = rings[f.level][SlotAt(f, n)] => p = f.points[n]
      BY <2>4, LoadRestFacts DEF ValueInv, FetchInv
    <3>3. \A i \in 1 .. n : i \notin f.dirty => new.points[i] = f.points[i]
      BY <3>1, <3>2 DEF FetchHalf
    <3>4. FetchGenuine(new)
      BY <3>1, <3>2, <3>3 DEF FetchGenuine
    <3> QED
      BY <3>2, <3>4, <1>4
  <2>5. CASE Done(r)
    BY <2>5, <1>4 DEF Done
  <2> QED
    BY <2>1, <2>2, <2>3, <2>4, <2>5 DEF Read
<1>6. \A x \in Readers : fetches'[x] # NULL => FetchGenuine(fetches'[x])
  BY <1>5 DEF ValueInv
<1> QED
  BY <1>2, <1>6 DEF ValueInv, FetchGenuine

LEMMA NextValues ==
    ASSUME ValueInv, LapsDivideWord, [ReaderNext]_readerVars
    PROVE  ValueInv'
<1>1. FetchInv'
  BY NextFetch DEF ValueInv
<1>2. ASSUME NEW w \in Writers, Write(w) PROVE ValueInv'
  BY <1>1, <1>2, SaveHalfValues, SaveRestValues, OtherWriteValues
<1>3. ASSUME NEW r \in Readers, Read(r) PROVE ValueInv'
  BY <1>1, <1>3, ReadValues
<1>4. ASSUME (Tick /\ UNCHANGED <<half, torn, fetches>>) \/ UNCHANGED readerVars
      PROVE  ValueInv'
  <2>1. /\ rings' = rings /\ pc' = pc /\ upd' = upd /\ half' = half /\ torn' = torn
        /\ fetches' = fetches
    BY <1>4 DEF Tick, readerVars
  <2>2. TornOK' /\ RingGenuine' /\ \A x \in Writers : SubmittedBy(pc[x], upd[x])'
    BY <2>1 DEF ValueInv, TornOK, RingGenuine, SubmittedBy, Target
  <2>3. \A r \in Readers : fetches'[r] # NULL => FetchGenuine(fetches'[r])
    BY <2>1 DEF ValueInv
  <2> QED
    BY <1>1, <2>2, <2>3 DEF ValueInv, FetchGenuine
<1> QED
  BY <1>2, <1>3, <1>4 DEF ReaderNext

\* Halves of points are where a store is under way or has been cut short, and nowhere
\* else; fetches hold no more than an archive.
THEOREM ReaderTypeCorrect ==
    ASSUME GenuineStart, LapsDivideWord
    PROVE  ReaderSpec => []ReaderTypeOK
<1>1. ReaderInit => ValueInv
  BY InitValues
<1>2. ValueInv /\ [ReaderNext]_readerVars => ValueInv'
  BY NextValues
<1>3. ASSUME ValueInv PROVE ReaderTypeOK
  <2>1. \A w \in Writers : half[w] => pc[w] = "save" /\ Target(w) \in torn
    BY <1>3 DEF ValueInv, TornOK
  <2>2. \A c \in torn : c[1] \in Levels /\ c[2] \in Slots(Archives[c[1]])
    BY <1>3 DEF ValueInv, TornOK
  <2>3. ASSUME NEW r \in Readers, fetches[r] # NULL
        PROVE  /\ fetches[r].at \in {"base", "points", "rest"}
               /\ fetches[r].dirty \subseteq DOMAIN fetches[r].points
               /\ Len(fetches[r].points) <= Archives[fetches[r].level].count
    <3> DEFINE f == fetches[r]
    <3>1. FetchShape(f) /\ WholeTime(Archives[f.level], f.base)
      BY <1>3, <2>3 DEF ValueInv, FetchInv, FetchesOK, FetchOK, FetchBases
    <3>2. DOMAIN f.points = 1 .. Len(f.points) /\ Len(f.points) \in Nat
      BY <3>1, LenProperties DEF FetchShape
    <3>3. PICK S \in Nat \ {0}, C \in Nat \ {0}, F \in Nat, U \in Nat, n \in Nat, q \in Int :
             Asked(f, S, C, F, U) /\ Derived(f, S, C, F, U, n, q)
      BY <3>1, IntervalFacts DEF FetchShape
    <3>4. Len(f.points) <= Archives[f.level].count
      <4>1. Len(f.points) <= Interval(f).count
        BY <3>1 DEF FetchShape
      <4>2. Interval(f).count \in Nat /\ Interval(f).count <= C
        BY <3>3 DEF Derived
      <4>3. C = Archives[f.level].count
        BY <3>3 DEF Asked
      <4> HIDE DEF f
      <4> QED
        BY <4>1, <4>2, <4>3, <3>2
    <3> QED
      BY <3>1, <3>2, <3>4 DEF FetchShape
  <2>4. ASSUME NEW i \in Slots(Archives[1]), <<1, i>> \notin torn, rings[1][i].timestamp # 0,
               1 \in Levels
        PROVE  Point(rings[1][i].timestamp, rings[1][i].value) \in Submitted
    <3>1. Genuine(rings[1][i])
      BY <1>3, <2>4 DEF ValueInv, RingGenuine
    <3>2. IsPoint(rings[1][i])
      BY <1>3, <2>4 DEF ValueInv, FetchInv, RingsInv, StampsOK
    <3>3. Blank.timestamp = 0
      BY DEF Blank, Point
    <3> QED
      BY <2>4, <3>1, <3>2, <3>3 DEF Genuine, IsPoint
  <2>5. 1 \in Levels
    BY DEF GenuineStart
  <2> QED
    BY <2>1, <2>2, <2>3, <2>4, <2>5 DEF ReaderTypeOK, Submitted
<1> QED
  BY <1>1, <1>2, <1>3, PTL DEF ReaderSpec

\* Points carry their times as values.
Stamped == \A p \in Inputs : p.value = p.timestamp

\* A value comes back with the time it was submitted for, though slots may be stored
\* to at any time, and by halves, and may have been left half stored by a writer that
\* died: points are mixed only where a load meets half a store or has a store between
\* its own halves, and no label fits a whole point of another time.
THEOREM ValuesAreGenuine ==
    ASSUME GenuineStart, LapsDivideWord, Stamped
    PROVE  ReaderSpec => []ValuesGenuine
<1>1. ReaderInit => ValueInv
  BY InitValues
<1>2. ValueInv /\ [ReaderNext]_readerVars => ValueInv'
  BY NextValues
<1>3. ASSUME ValueInv PROVE ValuesGenuine
  <2> SUFFICES ASSUME NEW r \in Readers, Returning(r), fetches[r].level = 1,
                      NEW i \in DOMAIN fetches[r].points, i \notin fetches[r].dirty,
                      Result(fetches[r])[i].value # NaN
               PROVE  TimeFloor(Result(fetches[r])[i].value, Archives[1].spp)
                        = Result(fetches[r])[i].timestamp
    BY DEF ValuesGenuine
  <2> DEFINE f == fetches[r]
             p == f.points[i]
  <2>1. Result(f)[i] = p
    BY Labelled
  <2>2. FetchGenuine(f) /\ DOMAIN f.points = 1 .. Len(f.points)
    BY <1>3, ReturnedFetch DEF ValueInv, FetchInv, Returning
  <2>3. Genuine(p)
    BY <2>2 DEF FetchGenuine
  <2>4. PICK S \in Nat \ {0} : S = Archives[1].spp
    BY ArchiveFacts DEF GenuineStart
  <2>5. CASE p = Blank
    <3>1. p.timestamp = 0 /\ p.value = 0
      BY <2>5 DEF Blank, Point
    <3>2. 0 % S = 0
      BY ModSmall
    <3>3. TimeFloor(0, S) = 0
      BY <3>2 DEF TimeFloor
    <3> QED
      BY <2>1, <2>4, <3>1, <3>3
  <2>6. CASE p \in Submitted
    <3>1. PICK q \in Inputs : p = Point(TimeFloor(q.timestamp, Archives[1].spp), q.value)
      BY <2>6 DEF Submitted
    <3>2. p.value = q.timestamp /\ p.timestamp = TimeFloor(q.timestamp, Archives[1].spp)
      BY <3>1 DEF Point, Stamped
    <3> QED
      BY <2>1, <3>2
  <2> QED
    BY <2>3, <2>5, <2>6 DEF Genuine
<1> QED
  BY <1>1, <1>2, <1>3, PTL DEF ReaderSpec
=============================================================================
