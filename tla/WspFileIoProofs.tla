-------------------------- MODULE WspFileIoProofs --------------------------
(***************************************************************************)
(* Proofs about WspFileIo.                                                 *)
(***************************************************************************)
EXTENDS WspFileIo, WspPointsProofs, WspLayoutProofs

-----------------------------------------------------------------------------
(* Where the points are.                                                   *)

LEMMA ArcFacts ==
    /\ Len(Layout) \in Nat
    /\ Arcs = 1 .. Len(Layout)
    /\ \A a \in Arcs : Arc(a).spp \in Nat \ {0} /\ Arc(a).count \in Nat \ {0}
<1>1. IsLayout(Layout)
  BY LayoutAssumption DEF IsLayout
<1>2. Len(Layout) \in Nat /\ Arcs = 1 .. Len(Layout)
  BY <1>1, LayoutFacts DEF Arcs
<1>3. \A a \in 1 .. Len(Layout) : Layout[a].spp \in Nat /\ Layout[a].count \in Nat
  BY <1>1, LayoutFacts
<1>4. \A a \in Arcs : Layout[a].spp > 0 /\ Layout[a].count > 0
  BY LayoutAssumption DEF Accepted, Arcs
<1>5. ASSUME NEW a \in Arcs PROVE Arc(a).spp \in Nat \ {0} /\ Arc(a).count \in Nat \ {0}
  BY <1>2, <1>3, <1>4 DEF Arc
<1> QED
  BY <1>2, <1>5

LEMMA OffsetFacts ==
    ASSUME NEW a \in Arcs, NEW i \in Slots(Arc(a))
    PROVE  /\ Offset(a, i) = PointsEnd(Layout)[a - 1] + PointSize * i
           /\ PointsEnd(Layout)[a - 1] \in Nat
           /\ Offset(a, i) \in Nat
           /\ Offset(a, i) \in Cells
<1>1. Offset(a, i) = PointsEnd(Layout)[a - 1] + PointSize * i /\ PointsEnd(Layout)[a - 1] \in Nat
  BY ArcFacts, LayoutAssumption, TableFacts DEF Offset, IsLayout
<1>2. i \in Nat
  BY ArcFacts DEF Slots
<1> QED
  BY <1>1, <1>2 DEF Cells, PointSize

LEMMA FirstSlot ==
    ASSUME NEW a \in Arcs
    PROVE  0 \in Slots(Arc(a))
BY ArcFacts DEF Slots

\* The points of an archive lie before those of the next ones.
LEMMA OffsetsInOrder ==
    ASSUME NEW a \in Arcs, NEW i \in Slots(Arc(a)), NEW b \in Arcs, NEW j \in Slots(Arc(b)),
           a < b
    PROVE  Offset(a, i) < Offset(b, j)
<1>1. IsLayout(Layout)
  BY LayoutAssumption DEF IsLayout
<1>2. a \in 1 .. Len(Layout) /\ a \in 0 .. Len(Layout) /\ b - 1 \in a .. Len(Layout)
  BY ArcFacts
<1>3. /\ PointsEnd(Layout)[a] <= PointsEnd(Layout)[b - 1]
      /\ PointsEnd(Layout)[a] \in Nat
  BY <1>1, <1>2, PointsEndGrows
<1>4. PointsEnd(Layout)[a] = PointsEnd(Layout)[a - 1] + PointSize * Layout[a].count
  BY <1>1, <1>2, TableFacts
<1>5. PICK C \in Nat \ {0} : C = Layout[a].count /\ i \in 0 .. C - 1
  BY ArcFacts DEF Arc, Slots
<1>6. j \in Nat
  BY ArcFacts DEF Slots
<1>7. /\ Offset(a, i) = PointsEnd(Layout)[a - 1] + PointSize * i
      /\ Offset(b, j) = PointsEnd(Layout)[b - 1] + PointSize * j
      /\ PointsEnd(Layout)[a - 1] \in Nat /\ PointsEnd(Layout)[b - 1] \in Nat
  BY OffsetFacts
<1> QED
  BY <1>3, <1>4, <1>5, <1>6, <1>7 DEF PointSize

LEMMA OffsetsDistinct ==
    ASSUME NEW a \in Arcs, NEW i \in Slots(Arc(a)), NEW b \in Arcs, NEW j \in Slots(Arc(b)),
           Offset(a, i) = Offset(b, j)
    PROVE  a = b /\ i = j
<1>1. a \in Nat /\ b \in Nat
  BY ArcFacts
<1>2. Offset(a, i) \in Nat /\ Offset(b, j) \in Nat
  BY OffsetFacts
<1>3. ~ (a < b) /\ ~ (b < a)
  BY <1>2, OffsetsInOrder
<1>4. a = b
  BY <1>1, <1>3
<1>5. /\ Offset(a, i) = PointsEnd(Layout)[a - 1] + PointSize * i
      /\ Offset(b, j) = PointsEnd(Layout)[b - 1] + PointSize * j
      /\ PointsEnd(Layout)[a - 1] \in Nat
      /\ i \in Nat /\ j \in Nat
  BY OffsetFacts, ArcFacts DEF Slots
<1> QED
  BY <1>4, <1>5 DEF PointSize

-----------------------------------------------------------------------------
(* The points of a file.                                                   *)

LapsDivideWord == \A a \in Arcs : (Word \div Arc(a).spp) % Arc(a).count = 0

Data(d) == d \in [Cells -> Nat] /\ Contents(d)

RingOf(d, a) == [i \in Slots(Arc(a)) |-> Point(d[Offset(a, i)], 0)]

Aligned(d) == \A a \in Arcs : AlignedRing(Arc(a), RingOf(d, a))

\* A time of an archive, if there is one, is a number of whole intervals.
LEMMA FlooredFacts ==
    ASSUME NEW a \in Arcs, NEW f \in Floored(a)
    PROVE  /\ f \in Nat
           /\ \E n \in Nat : f = Arc(a).spp * n /\ Arc(a).spp * n \in Timestamp
           /\ f # 0 => \E n \in Nat \ {0} :
                         f = Arc(a).spp * n /\ Arc(a).spp * n \in Timestamp
<1>1. PICK S \in Nat \ {0} : S = Arc(a).spp
  BY ArcFacts
<1>2. CASE f = 0
  <2>1. f = S * 0 /\ 0 \in Nat /\ S * 0 \in Timestamp
    BY <1>2, WordAssumption DEF Timestamp
  <2> QED
    BY <2>1, <1>1, <1>2
<1>3. CASE f # 0
  <2>1. PICK t \in Times : f = TimeFloor(t, S)
    BY <1>1, <1>3 DEF Floored
  <2>2. t \in Nat /\ t < Word
    BY TimesAssumption, WordAssumption DEF Timestamp
  <2>3. /\ TimeFloor(t, S) \in Nat /\ TimeFloor(t, S) <= t
        /\ TimeFloor(t, S) = S * (t \div S) /\ t \div S \in Nat
    BY <2>2, TimeFloorFacts
  <2>4. PICK n \in Nat : n = t \div S
    BY <2>3
  <2>5. f = S * n /\ f \in Nat /\ f < Word /\ n # 0
    <3>1. f = S * n /\ f \in Nat /\ f <= t
      BY <2>1, <2>3, <2>4
    <3>2. f < Word
      BY <3>1, <2>2, WordAssumption
    <3>3. n # 0
      BY <3>1, <1>3
    <3> QED
      BY <3>1, <3>2, <3>3
  <2>6. S * n \in Timestamp
    BY <2>5, WordAssumption DEF Timestamp
  <2> QED
    BY <2>5, <2>6, <1>1
<1> QED
  BY <1>2, <1>3

LEMMA FlooredTime ==
    ASSUME NEW a \in Arcs, NEW t \in Times
    PROVE  TimeFloor(t, Arc(a).spp) \in Floored(a) /\ TimeFloor(t, Arc(a).spp) # 0
<1>1. PICK S \in Nat \ {0} : S = Arc(a).spp
  BY ArcFacts
<1>2. t \in Nat /\ t >= S
  BY <1>1, TimesAssumption, WordAssumption DEF Timestamp, Arcs, Arc
<1>3. TimeFloor(t, S) # 0
  BY <1>2 DEF TimeFloor
<1> QED
  BY <1>1, <1>3 DEF Floored

LEMMA DataFacts ==
    ASSUME NEW d, Data(d), NEW a \in Arcs, NEW i \in Slots(Arc(a))
    PROVE  d[Offset(a, i)] \in Floored(a) /\ d[Offset(a, i)] \in Nat
BY OffsetFacts DEF Data, Contents

LEMMA StoreData ==
    ASSUME NEW d, Data(d), NEW a \in Arcs, NEW i \in Slots(Arc(a)), NEW f \in Floored(a)
    PROVE  Data([d EXCEPT ![Offset(a, i)] = f])
<1> DEFINE new == [d EXCEPT ![Offset(a, i)] = f]
<1>1. Offset(a, i) \in Cells /\ f \in Nat
  BY OffsetFacts, FlooredFacts
<1>2. new \in [Cells -> Nat] /\ DOMAIN new = Cells
  BY <1>1 DEF Data
<1>3. ASSUME NEW b \in Arcs, NEW j \in Slots(Arc(b))
      PROVE  new[Offset(b, j)] \in Floored(b)
  <2>1. Offset(b, j) \in Cells /\ d[Offset(b, j)] \in Floored(b)
    BY OffsetFacts, DataFacts
  <2>2. CASE Offset(b, j) = Offset(a, i)
    BY <2>2, <1>1, OffsetsDistinct DEF Data
  <2>3. CASE Offset(b, j) # Offset(a, i)
    BY <2>1, <2>3 DEF Data
  <2> QED
    BY <2>2, <2>3
<1> QED
  BY <1>2, <1>3 DEF Data, Contents

\* The points of an archive make a ring as WspPoints has them.
LEMMA RingFacts ==
    ASSUME NEW d, Data(d), NEW a \in Arcs
    PROVE  /\ WholeRing(Arc(a), RingOf(d, a))
           /\ KnownBase(Arc(a), RingOf(d, a), d[Offset(a, 0)])
           /\ \A i \in Slots(Arc(a)) : RingOf(d, a)[i].timestamp = d[Offset(a, i)]
<1> DEFINE ring == RingOf(d, a)
<1>1. \A i \in Slots(Arc(a)) : ring[i] = Point(d[Offset(a, i)], 0)
  BY DEF RingOf
<1>2. \A i \in Slots(Arc(a)) : ring[i].timestamp = d[Offset(a, i)]
  <2> TAKE i \in Slots(Arc(a))
  <2>1. ring[i] = Point(d[Offset(a, i)], 0)
    BY <1>1
  <2>2. Point(d[Offset(a, i)], 0).timestamp = d[Offset(a, i)]
    BY DEF Point
  <2> QED
    BY <2>1, <2>2
<1>3. \A i \in Slots(Arc(a)) : ring[i].timestamp = 0 => ring[i] = Blank
  BY <1>1, <1>2 DEF Blank
<1>4. \A i \in Slots(Arc(a)) : \E n \in Nat :
        d[Offset(a, i)] = Arc(a).spp * n /\ Arc(a).spp * n \in Timestamp
  BY DataFacts, FlooredFacts
<1>5. ring = [i \in Slots(Arc(a)) |-> ring[i]]
  BY DEF RingOf
<1>6. WholeRing(Arc(a), ring)
  <2> HIDE DEF ring
  <2> QED
    BY <1>2, <1>3, <1>4, <1>5 DEF WholeRing
<1>7. KnownBase(Arc(a), ring, d[Offset(a, 0)])
  <2>1. 0 \in Slots(Arc(a)) /\ ring[0].timestamp = d[Offset(a, 0)]
    BY <1>2, FirstSlot
  <2>2. \E n \in Nat : d[Offset(a, 0)] = Arc(a).spp * n /\ Arc(a).spp * n \in Timestamp
    BY <2>1, <1>4
  <2>3. (ring[0].timestamp - d[Offset(a, 0)]) % Retention(Arc(a)) = 0
    <3>1. PICK R \in Nat \ {0} : R = Retention(Arc(a))
      BY ArcFacts DEF Retention
    <3>2. PICK x \in Nat : x = d[Offset(a, 0)]
      BY <2>1, DataFacts
    <3>3. x - x = R * 0 /\ (R * 0) % R = 0
      BY MultipleMod
    <3> QED
      BY <3>1, <3>2, <3>3, <2>1
  <2> HIDE DEF ring
  <2> QED
    BY <2>1, <2>2, <2>3 DEF KnownBase
<1> QED
  BY <1>2, <1>6, <1>7

\* A store of the m-th time by the ring's own base.
StoreFits(arc, ring, b, m) ==
    /\ arc.spp \in Nat \ {0} /\ arc.count \in Nat \ {0}
    /\ (Word \div arc.spp) % arc.count = 0
    /\ WholeRing(arc, ring) /\ AlignedRing(arc, ring)
    /\ KnownBase(arc, ring, b)
    /\ arc.spp * m \in Timestamp

LEMMA RingStore ==
    ASSUME NEW arc, NEW ring, NEW b, NEW m \in Nat \ {0}, NEW new,
           StoreFits(arc, ring, b, m),
           new = [ring EXCEPT ![WriteIndex(arc, Point(b, 0), arc.spp * m)] =
                      Point(arc.spp * m, 0)]
    PROVE  AlignedRing(arc, new)
BY StoreKeepsAligned DEF StoreFits

\* Of the stores of an archive that one counts whose slot is computed from its base.
LEMMA StoreAligned ==
    ASSUME LapsDivideWord, NEW d, Data(d), Aligned(d), NEW a \in Arcs, NEW t \in Times,
           NEW i \in Slots(Arc(a)),
           i = WriteIndex(Arc(a), Point(d[Offset(a, 0)], 0), TimeFloor(t, Arc(a).spp))
    PROVE  Aligned([d EXCEPT ![Offset(a, i)] = TimeFloor(t, Arc(a).spp)])
<1> DEFINE f == TimeFloor(t, Arc(a).spp)
           new == [d EXCEPT ![Offset(a, i)] = f]
<1>1. PICK m \in Nat \ {0} : f = Arc(a).spp * m /\ Arc(a).spp * m \in Timestamp
  BY FlooredTime, FlooredFacts
<1>2. \A b \in Arcs : \A j \in Slots(Arc(b)) :
        new[Offset(b, j)] = IF b = a /\ j = i THEN f ELSE d[Offset(b, j)]
  <2>1. SUFFICES ASSUME NEW b \in Arcs, NEW j \in Slots(Arc(b))
                 PROVE  new[Offset(b, j)] = IF b = a /\ j = i THEN f ELSE d[Offset(b, j)]
    OBVIOUS
  <2>2. Offset(b, j) \in Cells /\ DOMAIN d = Cells
    BY OffsetFacts DEF Data
  <2>3. CASE Offset(b, j) = Offset(a, i)
    BY <2>2, <2>3, OffsetsDistinct
  <2>4. CASE Offset(b, j) # Offset(a, i)
    BY <2>2, <2>4
  <2> QED
    BY <2>3, <2>4
<1> HIDE DEF new, f
<1>3. ASSUME NEW b \in Arcs, b # a PROVE AlignedRing(Arc(b), RingOf(new, b))
  <2>1. RingOf(new, b) = RingOf(d, b)
    BY <1>2, <1>3 DEF RingOf
  <2> QED
    BY <2>1 DEF Aligned
<1>4. AlignedRing(Arc(a), RingOf(new, a))
  <2> DEFINE ring == RingOf(d, a)
  <2>1. /\ Arc(a).spp \in Nat \ {0} /\ Arc(a).count \in Nat \ {0}
        /\ (Word \div Arc(a).spp) % Arc(a).count = 0
    BY ArcFacts DEF LapsDivideWord
  <2>2. /\ WholeRing(Arc(a), ring) /\ KnownBase(Arc(a), ring, d[Offset(a, 0)])
        /\ AlignedRing(Arc(a), ring)
    BY RingFacts DEF Aligned
  <2>3. RingOf(new, a) = [ring EXCEPT ![i] = Point(f, 0)]
    BY <1>2 DEF RingOf
  <2>4. RingOf(new, a) = [ring EXCEPT ![WriteIndex(Arc(a), Point(d[Offset(a, 0)], 0),
                                                   Arc(a).spp * m)] = Point(Arc(a).spp * m, 0)]
    BY <2>3, <1>1 DEF f
  <2>5. StoreFits(Arc(a), ring, d[Offset(a, 0)], m)
    BY <2>1, <2>2, <1>1 DEF StoreFits
  <2> HIDE DEF ring
  <2> QED
    BY <2>4, <2>5, RingStore
<1>5. Aligned(new)
  BY <1>3, <1>4 DEF Aligned
<1> QED
  BY <1>5 DEF new, f

\* The slot of a point is one of its archive, whatever the base.
LEMMA SlotFacts ==
    ASSUME NEW a \in Arcs, NEW b \in Nat, NEW t \in Times
    PROVE  WriteIndex(Arc(a), Point(b, 0), TimeFloor(t, Arc(a).spp)) \in Slots(Arc(a))
<1>1. PICK S \in Nat \ {0}, C \in Nat \ {0} :
        S = Arc(a).spp /\ C = Arc(a).count /\ Slots(Arc(a)) = 0 .. C - 1
  BY ArcFacts DEF Slots
<1>2. TimeFloor(t, S) \in Nat
  BY <1>1, FlooredTime, FlooredFacts
<1>3. Wrap(TimeFloor(t, S) - b) \in Int
  BY <1>2, WordAssumption DEF Wrap
<1>4. Wrap(TimeFloor(t, S) - b) \div S \in Int
  BY <1>3
<1>5. (Wrap(TimeFloor(t, S) - b) \div S) % C \in 0 .. C - 1
  BY <1>4
<1> QED
  BY <1>1, <1>5 DEF WriteIndex, PointIndex, Point

-----------------------------------------------------------------------------
(* Streams, and calls as far as they have got.                             *)

\* NULL is no store and no stream.
NullDistinct ==
    /\ \A o, t : NULL # [offset |-> o, timestamp |-> t]
    /\ \A p, x, y : NULL # [pos |-> p, ahead |-> x, dirty |-> y]

IsStream(s) == s = [pos |-> s.pos, ahead |-> s.ahead, dirty |-> s.dirty]

IsCall(c) ==
    /\ c = [disk |-> c.disk, stored |-> c.stored, stream |-> c.stream,
            status |-> c.status, points |-> c.points, base |-> c.base, wrote |-> c.wrote]
    /\ IsStream(c.stream)

\* What a call has not to do with.
SameResults(c, r) ==
    r.status = c.status /\ r.points = c.points /\ r.base = c.base /\ r.wrote = c.wrote

\* A file with the points of d, a stream s to it, and the points x as they have been
\* stored: the stream of the writer has the store that is missing in the file, and
\* nothing that is older than the last store.
StreamOK(h, d, x, s) ==
    /\ IsStream(s)
    /\ s.pos \in Nat
    /\ s.ahead # NULL => Data(s.ahead) /\ s.dirty = NULL
    /\ s.dirty # NULL => \E o \in Cells, t \in Nat : s.dirty = [offset |-> o, timestamp |-> t]
    /\ h # Writer => s.dirty = NULL
    /\ h = Writer =>
         /\ s.ahead # NULL => s.ahead = x
         /\ s.dirty = NULL => d = x
         /\ s.dirty # NULL => x = [d EXCEPT ![s.dirty.offset] = s.dirty.timestamp]

FileOK(d, x) ==
    /\ Data(d) /\ Data(x)
    /\ LapsDivideWord => Aligned(d) /\ Aligned(x)

CallOK(h, c, d, x) ==
    /\ IsCall(c)
    /\ c.base \in Nat
    /\ FileOK(c.disk, c.stored)
    /\ StreamOK(h, c.disk, c.stored, c.stream)
    /\ h # Writer => c.disk = d /\ c.stored = x

LEMMA FailOK ==
    ASSUME NEW h, NEW c, NEW d, NEW x, CallOK(h, c, d, x), NEW error
    PROVE  /\ CallOK(h, Fail(c, error), d, x)
           /\ Fail(c, error).status = error
           /\ Fail(c, error).stored = c.stored
           /\ Fail(c, error).wrote = c.wrote
           /\ Fail(c, error).base = c.base
           /\ Fail(c, error).stream = c.stream
<1> DEFINE r == Fail(c, error)
<1>1. r = [disk |-> c.disk, stored |-> c.stored, stream |-> c.stream,
           status |-> error, points |-> c.points, base |-> c.base, wrote |-> c.wrote]
  BY DEF CallOK, IsCall, Fail
<1> HIDE DEF r
<1>2. /\ r.disk = c.disk /\ r.stored = c.stored /\ r.stream = c.stream
      /\ r.status = error /\ r.points = c.points /\ r.base = c.base /\ r.wrote = c.wrote
  BY <1>1
<1>3. CallOK(h, r, d, x)
  BY <1>1, <1>2 DEF CallOK, IsCall
<1> QED
  BY <1>2, <1>3 DEF r

LEMMA FlushFacts ==
    ASSUME NEW c, IsCall(c)
    PROVE  /\ IsCall(Flush(c))
           /\ SameResults(c, Flush(c))
           /\ Flush(c).stored = c.stored
           /\ Flush(c).stream.pos = c.stream.pos
           /\ Flush(c).stream.ahead = c.stream.ahead
           /\ Flush(c).stream.dirty = NULL
           /\ Flush(c).disk = IF c.stream.dirty = NULL THEN c.disk
                              ELSE [c.disk EXCEPT ![c.stream.dirty.offset] =
                                                      c.stream.dirty.timestamp]
<1> DEFINE r == Flush(c)
<1>1. CASE c.stream.dirty = NULL
  BY <1>1 DEF Flush, SameResults, IsCall
<1>2. CASE c.stream.dirty # NULL
  <2> DEFINE s == [pos |-> c.stream.pos, ahead |-> c.stream.ahead, dirty |-> NULL]
             e == [c.disk EXCEPT ![c.stream.dirty.offset] = c.stream.dirty.timestamp]
  <2>1. r = [c EXCEPT !.disk = e, !.stream.dirty = NULL]
    BY <1>2 DEF Flush
  <2>2. [c.stream EXCEPT !.dirty = NULL] = s
    BY DEF IsCall, IsStream
  <2>3. r = [disk |-> e, stored |-> c.stored, stream |-> s,
             status |-> c.status, points |-> c.points, base |-> c.base, wrote |-> c.wrote]
    <3> HIDE DEF e, s, r
    <3> QED
      BY <2>1, <2>2 DEF IsCall
  <2>4. s.pos = c.stream.pos /\ s.ahead = c.stream.ahead /\ s.dirty = NULL /\ IsStream(s)
    BY DEF IsStream
  <2>5. /\ r.disk = e /\ r.stored = c.stored /\ r.stream = s /\ r.status = c.status
        /\ r.points = c.points /\ r.base = c.base /\ r.wrote = c.wrote
    <3> HIDE DEF e, s, r
    <3> QED
      BY <2>3
  <2>6. IsCall(r)
    <3> HIDE DEF e, s, r
    <3> QED
      BY <2>3, <2>4, <2>5 DEF IsCall
  <2> HIDE DEF s, r
  <2>7. SameResults(c, r)
    BY <2>5 DEF SameResults
  <2> QED
    BY <2>4, <2>5, <2>6, <2>7, <1>2 DEF r
<1> QED
  BY <1>1, <1>2

\* Once flushed, a file has all that the stream has stored.
LEMMA FlushOK ==
    ASSUME NEW h, NEW c, NEW d, NEW x, CallOK(h, c, d, x)
    PROVE  /\ CallOK(h, Flush(c), d, x)
           /\ SameResults(c, Flush(c))
           /\ Flush(c).stored = c.stored
           /\ Flush(c).stream.pos = c.stream.pos
           /\ Flush(c).stream.ahead = c.stream.ahead
           /\ Flush(c).stream.dirty = NULL
           /\ h = Writer => Flush(c).disk = c.stored
<1> DEFINE r == Flush(c)
<1>1. IsCall(c) /\ StreamOK(h, c.disk, c.stored, c.stream) /\ FileOK(c.disk, c.stored)
  BY DEF CallOK
<1>2. /\ IsCall(r) /\ SameResults(c, r) /\ r.stored = c.stored
      /\ r.stream.pos = c.stream.pos /\ r.stream.ahead = c.stream.ahead
      /\ r.stream.dirty = NULL
      /\ r.disk = IF c.stream.dirty = NULL THEN c.disk
                  ELSE [c.disk EXCEPT ![c.stream.dirty.offset] = c.stream.dirty.timestamp]
  BY <1>1, FlushFacts
<1> HIDE DEF r
<1>3. h = Writer => r.disk = c.stored
  BY <1>1, <1>2 DEF StreamOK
<1>4. h # Writer => r.disk = c.disk
  BY <1>1, <1>2 DEF StreamOK
<1>5. FileOK(r.disk, r.stored)
  BY <1>1, <1>2, <1>3, <1>4 DEF FileOK
<1>6. StreamOK(h, r.disk, r.stored, r.stream)
  BY <1>1, <1>2, <1>3, <1>4 DEF StreamOK, IsCall
<1>7. CallOK(h, r, d, x)
  BY <1>2, <1>4, <1>5, <1>6 DEF CallOK, SameResults
<1> QED
  BY <1>2, <1>3, <1>7 DEF r

\* What a stream has read ahead is what is in the file; of the writer's stream, what
\* has been stored.
LEMMA FillOK ==
    ASSUME NEW h, NEW c, NEW d, NEW x, CallOK(h, c, d, x)
    PROVE  /\ CallOK(h, Fill(c), d, x)
           /\ SameResults(c, Fill(c))
           /\ Fill(c).stored = c.stored
           /\ Data(Fill(c).stream.ahead)
           /\ Fill(c).stream.dirty = NULL
           /\ h = Writer => Fill(c).stream.ahead = c.stored
<1>1. CASE c.stream.ahead # NULL
  <2>1. Fill(c) = c
    BY <1>1 DEF Fill
  <2>2. IsStream(c.stream) /\ Data(c.stream.ahead) /\ c.stream.dirty = NULL
        /\ (h = Writer => c.stream.ahead = c.stored)
    BY <1>1 DEF CallOK, StreamOK
  <2> QED
    BY <2>1, <2>2 DEF SameResults
<1>2. CASE c.stream.ahead = NULL
  <2> DEFINE f == Flush(c)
             s == [pos |-> f.stream.pos, ahead |-> f.disk, dirty |-> NULL]
             r == [disk |-> f.disk, stored |-> f.stored, stream |-> s, status |-> f.status,
                   points |-> f.points, base |-> f.base, wrote |-> f.wrote]
  <2>1. /\ CallOK(h, f, d, x) /\ SameResults(c, f) /\ f.stored = c.stored
        /\ f.stream.dirty = NULL /\ (h = Writer => f.disk = c.stored)
    BY FlushOK
  <2>2. Fill(c) = [f EXCEPT !.stream.ahead = f.disk]
    BY <1>2 DEF Fill
  <2> HIDE DEF f
  <2>3. [f.stream EXCEPT !.ahead = f.disk] = s
    BY <2>1 DEF CallOK, StreamOK, IsStream
  <2>4. Fill(c) = r
    BY <2>1, <2>2, <2>3 DEF CallOK, IsCall
  <2>5. s.pos = f.stream.pos /\ s.ahead = f.disk /\ s.dirty = NULL /\ IsStream(s)
    BY DEF IsStream
  <2> HIDE DEF s
  <2>6. /\ r.disk = f.disk /\ r.stored = f.stored /\ r.stream = s
        /\ SameResults(f, r) /\ IsCall(r)
    BY <2>5 DEF IsCall, SameResults
  <2> HIDE DEF r
  <2>7. Data(f.disk)
    BY <2>1 DEF CallOK, FileOK
  <2>8. StreamOK(h, r.disk, r.stored, r.stream)
    BY <2>1, <2>5, <2>6, <2>7 DEF CallOK, StreamOK
  <2>9. CallOK(h, r, d, x)
    BY <2>1, <2>6, <2>8 DEF CallOK, SameResults
  <2> QED
    BY <2>1, <2>4, <2>5, <2>6, <2>7, <2>9 DEF SameResults
<1> QED
  BY <1>1, <1>2

\* What a read brings, from wherever the stream has it, and for the writer as stored.
Got(y, offset, n) == [i \in 1 .. n |-> y[offset + PointSize * (i - 1)]]

Brings(h, c, r, offset, n) ==
    /\ r.stream.pos = offset + PointSize * n
    /\ \E y : /\ Data(y) /\ r.points = Got(y, offset, n)
              /\ h = Writer => y = c.stored

LEMMA ReadAtOK ==
    ASSUME NEW h, NEW c, NEW d, NEW x, CallOK(h, c, d, x),
           NEW offset \in Nat, NEW n \in Nat, NEW r, r = ReadAt(c, offset, n)
    PROVE  /\ CallOK(h, r, d, x)
           /\ r.stored = c.stored /\ r.base = c.base /\ r.wrote = c.wrote
           /\ c.status # "OK" => r = c
           /\ r.status = "OK" =>
                /\ c.status = "OK" /\ c.stream.pos = offset /\ n # 0
                /\ Brings(h, c, r, offset, n)
           /\ c.status = "OK" /\ c.stream.pos = offset /\ n # 0 => r.status = "OK"
<1>1. CASE c.status # "OK"
  <2>1. r = c
    BY <1>1 DEF ReadAt
  <2> QED
    BY <2>1, <1>1
<1>2. CASE c.status = "OK" /\ c.stream.pos # offset
  <2>1. r = Fail(c, "OFFSET")
    BY <1>2 DEF ReadAt
  <2> QED
    BY <2>1, <1>2, FailOK
<1>3. CASE c.status = "OK" /\ c.stream.pos = offset /\ n = 0
  <2>1. r = Fail(c, "IO")
    BY <1>3 DEF ReadAt
  <2> QED
    BY <2>1, <1>3, FailOK
<1>4. CASE c.status = "OK" /\ c.stream.pos = offset /\ n # 0
  <2> DEFINE f == Fill(c)
             p == offset + PointSize * n
             got == Got(f.stream.ahead, offset, n)
             s == [pos |-> p, ahead |-> f.stream.ahead, dirty |-> f.stream.dirty]
  <2>1. /\ CallOK(h, f, d, x) /\ SameResults(c, f) /\ f.stored = c.stored
        /\ Data(f.stream.ahead) /\ f.stream.dirty = NULL
        /\ h = Writer => f.stream.ahead = c.stored
    BY FillOK
  <2>2. p \in Nat
    BY DEF PointSize
  <2>3. r = [f EXCEPT !.stream.pos = p, !.points = got]
    BY <1>4 DEF ReadAt, Got
  <2> HIDE DEF f, p, got
  <2>4. [f.stream EXCEPT !.pos = p] = s
    BY <2>1 DEF CallOK, StreamOK, IsStream
  <2> HIDE DEF s
  <2>5. r = [disk |-> f.disk, stored |-> f.stored, stream |-> s, status |-> f.status,
             points |-> got, base |-> f.base, wrote |-> f.wrote]
    BY <2>1, <2>3, <2>4 DEF CallOK, IsCall
  <2>6. /\ s.pos = p /\ s.ahead = f.stream.ahead /\ s.dirty = f.stream.dirty /\ IsStream(s)
    BY DEF IsStream, s
  <2>7. /\ r.disk = f.disk /\ r.stored = f.stored /\ r.stream = s /\ r.status = f.status
        /\ r.points = got /\ r.base = f.base /\ r.wrote = f.wrote /\ IsCall(r)
    BY <2>5, <2>6 DEF IsCall
  <2>8. StreamOK(h, r.disk, r.stored, r.stream)
    BY <2>1, <2>2, <2>6, <2>7 DEF CallOK, StreamOK
  <2>9. CallOK(h, r, d, x)
    BY <2>1, <2>7, <2>8 DEF CallOK
  <2>10. Brings(h, c, r, offset, n)
    BY <2>1, <2>6, <2>7 DEF got, p, Brings
  <2> QED
    BY <2>1, <2>7, <2>9, <2>10, <1>4 DEF SameResults
<1> QED
  BY <1>1, <1>2, <1>3, <1>4

LEMMA LoadBaseOK ==
    ASSUME NEW h, NEW c, NEW d, NEW x, CallOK(h, c, d, x), NEW a \in Arcs,
           NEW r, r = LoadBase(c, a)
    PROVE  /\ CallOK(h, r, d, x)
           /\ r.stored = c.stored /\ r.wrote = c.wrote
           /\ c.status # "OK" => r = c
           /\ r.status = "OK" =>
                /\ c.status = "OK" /\ c.stream.pos = Offset(a, 0)
                /\ r.stream.pos = Offset(a, 0) + PointSize
                /\ h = Writer => r.base = c.stored[Offset(a, 0)]
<1> DEFINE e == ReadAt(c, Offset(a, 0), 1)
<1>1. 0 \in Slots(Arc(a)) /\ Offset(a, 0) \in Nat
  BY FirstSlot, OffsetFacts
<1>2. /\ CallOK(h, e, d, x)
      /\ e.stored = c.stored /\ e.base = c.base /\ e.wrote = c.wrote
      /\ c.status # "OK" => e = c
      /\ e.status = "OK" => /\ c.status = "OK" /\ c.stream.pos = Offset(a, 0)
                            /\ Brings(h, c, e, Offset(a, 0), 1)
  <2>1. PICK o \in Nat, n \in Nat : o = Offset(a, 0) /\ n = 1
    BY <1>1
  <2>2. e = ReadAt(c, o, n)
    BY <2>1
  <2> HIDE DEF e
  <2>3. /\ CallOK(h, e, d, x)
        /\ e.stored = c.stored /\ e.base = c.base /\ e.wrote = c.wrote
        /\ c.status # "OK" => e = c
        /\ e.status = "OK" => /\ c.status = "OK" /\ c.stream.pos = o
                              /\ Brings(h, c, e, o, n)
    BY <2>2, ReadAtOK
  <2> QED
    BY <2>1, <2>3
<1>3. CASE e.status # "OK"
  <2>1. r = e
    BY <1>3 DEF LoadBase
  <2> QED
    BY <2>1, <1>2, <1>3
<1>4. CASE e.status = "OK"
  <2> DEFINE b == e.points[1]
  <2>1. r = [e EXCEPT !.base = b]
    BY <1>4 DEF LoadBase
  <2>2. b \in Nat /\ (h = Writer => b = c.stored[Offset(a, 0)])
    <3>1. PICK y : /\ Data(y) /\ e.points = Got(y, Offset(a, 0), 1)
                   /\ h = Writer => y = c.stored
      BY <1>2, <1>4 DEF Brings
    <3>2. Offset(a, 0) + PointSize * (1 - 1) = Offset(a, 0)
      BY <1>1 DEF PointSize
    <3>3. b = y[Offset(a, 0)]
      BY <3>1, <3>2 DEF Got
    <3> QED
      BY <3>1, <3>3, <1>1, DataFacts
  <2> HIDE DEF b, e
  <2>3. r = [disk |-> e.disk, stored |-> e.stored, stream |-> e.stream, status |-> e.status,
             points |-> e.points, base |-> b, wrote |-> e.wrote]
    BY <2>1, <1>2 DEF CallOK, IsCall
  <2>4. /\ r.disk = e.disk /\ r.stored = e.stored /\ r.stream = e.stream
        /\ r.status = e.status /\ r.base = b /\ r.wrote = e.wrote
        /\ r.points = e.points
    BY <2>3
  <2>5. CallOK(h, r, d, x)
    BY <2>2, <2>3, <2>4, <1>2 DEF CallOK, IsCall
  <2>6. e.status = "OK" => e.stream.pos = Offset(a, 0) + PointSize
    BY <1>1, <1>2 DEF PointSize, Brings
  <2> QED
    BY <2>2, <2>4, <2>5, <2>6, <1>2, <1>4
<1> QED
  BY <1>3, <1>4

\* A store through the writer's stream: it counts at once, it is in the stream, and what
\* was stored before is in the file.
LEMMA WriteAtOK ==
    ASSUME NullDistinct, NEW h, NEW c, NEW d, NEW x, CallOK(h, c, d, x),
           NEW offset \in Nat, NEW t, NEW r, r = WriteAt(h, c, offset, t),
           c.status = "OK" /\ h = Writer =>
               /\ offset \in Cells /\ t \in Nat
               /\ FileOK(c.stored, [c.stored EXCEPT ![offset] = t])
    PROVE  /\ CallOK(h, r, d, x)
           /\ r.wrote = c.wrote
           /\ c.status # "OK" => r = c
           /\ r.status = "OK" => c.status = "OK" /\ r.stream.pos = offset + PointSize
<1>1. CASE c.status # "OK"
  <2>1. r = c
    BY <1>1 DEF WriteAt
  <2> QED
    BY <2>1, <1>1
<1>2. CASE c.status = "OK" /\ h # Writer
  <2> DEFINE s == [pos |-> offset, ahead |-> c.stream.ahead, dirty |-> c.stream.dirty]
             e == [disk |-> c.disk, stored |-> c.stored, stream |-> s, status |-> c.status,
                   points |-> c.points, base |-> c.base, wrote |-> c.wrote]
  <2>1. r = Fail([c EXCEPT !.stream.pos = offset], "IO")
    BY <1>2 DEF WriteAt
  <2>2. [c.stream EXCEPT !.pos = offset] = s
    BY DEF CallOK, IsCall, IsStream
  <2>3. [c EXCEPT !.stream.pos = offset] = e
    <3> HIDE DEF s
    <3> QED
      BY <2>2 DEF CallOK, IsCall
  <2>4. /\ s.pos = offset /\ s.ahead = c.stream.ahead /\ s.dirty = c.stream.dirty
        /\ IsStream(s)
    BY DEF IsStream
  <2> HIDE DEF s
  <2>5. /\ e.disk = c.disk /\ e.stored = c.stored /\ e.stream = s
        /\ SameResults(c, e) /\ IsCall(e)
    BY <2>4 DEF IsCall, SameResults
  <2> HIDE DEF e
  <2>6. StreamOK(h, e.disk, e.stored, e.stream)
    BY <2>4, <2>5 DEF CallOK, StreamOK
  <2>7. CallOK(h, e, d, x)
    BY <2>5, <2>6 DEF CallOK, SameResults
  <2>8. /\ CallOK(h, r, d, x) /\ r.status = "IO" /\ r.wrote = e.wrote
    BY <2>1, <2>3, <2>7, FailOK
  <2> QED
    BY <2>5, <2>8, <1>2 DEF SameResults
<1>3. CASE c.status = "OK" /\ h = Writer
  <2> DEFINE f == Flush(c)
             o == [offset |-> offset, timestamp |-> t]
             s == [pos |-> offset + PointSize, ahead |-> NULL, dirty |-> o]
             n == [c.stored EXCEPT ![offset] = t]
  <2>1. /\ CallOK(h, f, d, x) /\ SameResults(c, f) /\ f.stored = c.stored
        /\ f.disk = c.stored
    BY <1>3, FlushOK
  <2>2. r = [f EXCEPT !.stored[offset] = t, !.stream = s]
    BY <1>3 DEF WriteAt
  <2> HIDE DEF f
  <2>3. r = [disk |-> f.disk, stored |-> n, stream |-> s, status |-> f.status,
             points |-> f.points, base |-> f.base, wrote |-> f.wrote]
    <3> HIDE DEF s
    <3> QED
      BY <2>1, <2>2 DEF CallOK, IsCall
  <2>4. o.offset = offset /\ o.timestamp = t
    OBVIOUS
  <2>5. o # NULL
    BY DEF NullDistinct
  <2>6. /\ s.pos = offset + PointSize /\ s.ahead = NULL /\ s.dirty = o /\ IsStream(s)
    <3> HIDE DEF o
    <3> QED
      BY DEF IsStream
  <2>7. s.pos \in Nat
    BY <2>6 DEF PointSize
  <2>8. \E i \in Cells, v \in Nat : o = [offset |-> i, timestamp |-> v]
    BY <1>3
  <2> HIDE DEF s, o, n
  <2>9. /\ r.disk = c.stored /\ r.stored = n /\ r.stream = s
        /\ SameResults(c, r) /\ IsCall(r)
    BY <2>1, <2>3, <2>6 DEF IsCall, SameResults
  <2>10. StreamOK(h, r.disk, r.stored, r.stream)
    BY <2>4, <2>5, <2>6, <2>7, <2>8, <2>9, <1>3 DEF StreamOK, n
  <2>11. FileOK(r.disk, r.stored)
    BY <2>9, <1>3 DEF n
  <2>12. CallOK(h, r, d, x)
    BY <2>9, <2>10, <2>11, <1>3 DEF CallOK, SameResults
  <2> QED
    BY <2>6, <2>9, <2>12, <1>3 DEF SameResults
<1> QED
  BY <1>1, <1>2, <1>3

\* The position of a stream that has just stored, or read, one point of archive a.
After(a, r) == \E i \in Slots(Arc(a)) : r.stream.pos = Offset(a, i) + PointSize

LEMMA WrittenOK ==
    ASSUME NullDistinct, NEW h, NEW c, NEW d, NEW x, CallOK(h, c, d, x),
           NEW a \in Arcs, NEW t \in Times, NEW r, r = Written(h, c, a, t)
    PROVE  /\ CallOK(h, r, d, x)
           /\ r.wrote \in {c.wrote, c.wrote \cup {a}}
           /\ c.status # "OK" => r = c
           /\ r.status = "OK" => c.status = "OK" /\ After(a, r)
<1> DEFINE b == LoadBase(c, a)
           floored == TimeFloor(t, Arc(a).spp)
           slot == WriteIndex(Arc(a), Point(b.base, 0), floored)
           w == WriteAt(h, b, Offset(a, slot), floored)
<1>1. /\ CallOK(h, b, d, x)
      /\ b.stored = c.stored /\ b.wrote = c.wrote
      /\ c.status # "OK" => b = c
      /\ b.status = "OK" =>
           /\ c.status = "OK" /\ c.stream.pos = Offset(a, 0)
           /\ b.stream.pos = Offset(a, 0) + PointSize
           /\ h = Writer => b.base = c.stored[Offset(a, 0)]
  <2>1. b = LoadBase(c, a)
    OBVIOUS
  <2> HIDE DEF b
  <2> QED
    BY <2>1, LoadBaseOK
<1>2. r = IF b.status # "OK" THEN b
          ELSE IF ~ CanSave(Arc(a), 1) THEN Fail(b, "POINT_OOB")
          ELSE IF w.status # "OK" THEN w
          ELSE [w EXCEPT !.wrote = @ \cup {a}]
  BY DEF Written
<1> HIDE DEF b
<1>3. slot \in Slots(Arc(a))
  <2>1. b.base \in Nat
    BY <1>1 DEF CallOK
  <2> QED
    BY <2>1, SlotFacts
<1>4. floored \in Floored(a) /\ floored \in Nat
  BY FlooredTime, FlooredFacts
<1>5. Offset(a, slot) \in Nat /\ Offset(a, slot) \in Cells
  BY <1>3, OffsetFacts
<1>6. ASSUME b.status = "OK", h = Writer
      PROVE  FileOK(b.stored, [b.stored EXCEPT ![Offset(a, slot)] = floored])
  <2>1. FileOK(b.stored, b.stored)
    BY <1>1 DEF CallOK, FileOK
  <2>2. Data([b.stored EXCEPT ![Offset(a, slot)] = floored])
    <3> HIDE DEF slot, floored
    <3> QED
      BY <2>1, <1>3, <1>4, StoreData DEF FileOK
  <2>3. LapsDivideWord => Aligned([b.stored EXCEPT ![Offset(a, slot)] = floored])
    <3>1. b.base = b.stored[Offset(a, 0)]
      BY <1>1, <1>6
    <3>2. slot = WriteIndex(Arc(a), Point(b.stored[Offset(a, 0)], 0), TimeFloor(t, Arc(a).spp))
      BY <3>1
    <3> HIDE DEF slot
    <3> QED
      BY <3>2, <2>1, <1>3, StoreAligned DEF FileOK
  <2> QED
    BY <2>1, <2>2, <2>3 DEF FileOK
<1>7. /\ CallOK(h, w, d, x)
      /\ w.wrote = b.wrote
      /\ w.status = "OK" => b.status = "OK" /\ w.stream.pos = Offset(a, slot) + PointSize
  <2>1. w = WriteAt(h, b, Offset(a, slot), floored)
    OBVIOUS
  <2> HIDE DEF slot, floored, w
  <2> QED
    BY <2>1, <1>1, <1>4, <1>5, <1>6, WriteAtOK
<1> HIDE DEF w, slot, floored
<1>8. CASE b.status # "OK"
  <2>1. r = b
    BY <1>2, <1>8
  <2> QED
    BY <2>1, <1>1, <1>8
<1>9. CASE b.status = "OK" /\ ~ CanSave(Arc(a), 1)
  <2>1. r = Fail(b, "POINT_OOB")
    BY <1>2, <1>9
  <2>2. CallOK(h, r, d, x) /\ r.status = "POINT_OOB" /\ r.wrote = b.wrote
    BY <2>1, <1>1, FailOK
  <2> QED
    BY <2>2, <1>1, <1>9
<1>10. CASE b.status = "OK" /\ CanSave(Arc(a), 1) /\ w.status # "OK"
  <2>1. r = w
    BY <1>2, <1>10
  <2> QED
    BY <2>1, <1>1, <1>7, <1>10
<1>11. CASE b.status = "OK" /\ CanSave(Arc(a), 1) /\ w.status = "OK"
  <2>1. r = [w EXCEPT !.wrote = @ \cup {a}]
    BY <1>2, <1>11
  <2>2. r = [disk |-> w.disk, stored |-> w.stored, stream |-> w.stream,
             status |-> w.status, points |-> w.points, base |-> w.base,
             wrote |-> w.wrote \cup {a}]
    BY <2>1, <1>7 DEF CallOK, IsCall
  <2>3. /\ r.disk = w.disk /\ r.stored = w.stored /\ r.stream = w.stream
        /\ r.status = w.status /\ r.base = w.base /\ r.points = w.points
        /\ r.wrote = w.wrote \cup {a}
    BY <2>2
  <2>4. CallOK(h, r, d, x)
    BY <2>2, <2>3, <1>7 DEF CallOK, IsCall
  <2>5. After(a, r)
    BY <2>3, <1>3, <1>7, <1>11 DEF After
  <2> QED
    BY <2>3, <2>4, <2>5, <1>1, <1>7, <1>11
<1> QED
  BY <1>8, <1>9, <1>10, <1>11

\* A fetch stores nothing, and gets no point unless the stream is at the base.
Fetches(h, c, a, d, x, r) ==
    /\ CallOK(h, r, d, x)
    /\ r.wrote = c.wrote
    /\ c.status # "OK" => r = c
    /\ r.status = "OK" => c.status = "OK" /\ c.stream.pos = Offset(a, 0)

\* So does the load of the base, after which the stream is not there any more.
LEMMA BaseFetches ==
    ASSUME NEW h, NEW c, NEW d, NEW x, CallOK(h, c, d, x), NEW a \in Arcs,
           NEW r, r = LoadBase(c, a)
    PROVE  /\ Fetches(h, c, a, d, x, r)
           /\ r.status = "OK" => After(a, r)
<1>1. /\ CallOK(h, r, d, x)
      /\ r.wrote = c.wrote
      /\ c.status # "OK" => r = c
      /\ r.status = "OK" => /\ c.status = "OK" /\ c.stream.pos = Offset(a, 0)
                            /\ r.stream.pos = Offset(a, 0) + PointSize
  BY LoadBaseOK
<1> QED
  BY <1>1, FirstSlot DEF Fetches, After

Reads(c, r) ==
    /\ r.wrote = c.wrote
    /\ c.status # "OK" => r = c
    /\ r.status = "OK" => c.status = "OK"

LEMMA ReadFetches ==
    ASSUME NEW h, NEW c, NEW d, NEW x, CallOK(h, c, d, x),
           NEW offset \in Nat, NEW n \in Nat, NEW r, r = ReadAt(c, offset, n)
    PROVE  CallOK(h, r, d, x) /\ Reads(c, r)
<1>1. /\ CallOK(h, r, d, x) /\ r.wrote = c.wrote
      /\ c.status # "OK" => r = c
      /\ r.status = "OK" => c.status = "OK"
  BY ReadAtOK
<1> QED
  BY <1>1 DEF Reads

LEMMA FetchedOK ==
    ASSUME NEW h, NEW c, NEW d, NEW x, CallOK(h, c, d, x), NEW a \in Arcs,
           NEW offset \in Int, NEW size \in Nat, NEW r, r = Fetched(c, a, offset, size)
    PROVE  Fetches(h, c, a, d, x, r)
<1> DEFINE n == Capped(size, Arc(a).count)
           from == PointMod(offset, Arc(a).count)
           until == PointMod(Signed(Wrap(offset + n)), Arc(a).count)
           b == LoadBase(c, a)
           first == ReadAt(b, Offset(a, from), Arc(a).count - from)
           second == ReadAt(first, Offset(a, 0), until)
           whole == ReadAt(b, Offset(a, from), n)
<1>1. r = second \/ r = whole
  BY DEF Fetched
<1>2. PICK C \in Nat \ {0} : C = Arc(a).count /\ Slots(Arc(a)) = 0 .. C - 1
  BY ArcFacts DEF Slots
<1>3. n \in Nat /\ from \in 0 .. C - 1 /\ until \in Nat
  <2>1. n \in Nat
    BY <1>2 DEF Capped
  <2>2. from \in 0 .. C - 1
    BY <1>2 DEF PointMod
  <2>3. Wrap(offset + n) \in Int /\ Word \in Int /\ Word \div 2 \in Int
    <3>1. offset + n \in Int
      BY <2>1
    <3> HIDE DEF n
    <3> QED
      BY <3>1, WordAssumption DEF Wrap
  <2>4. Signed(Wrap(offset + n)) \in Int
    <3> HIDE DEF n
    <3> QED
      BY <2>3 DEF Signed
  <2>5. until \in 0 .. C - 1
    <3> HIDE DEF n
    <3> QED
      BY <2>4, <1>2 DEF PointMod
  <2> QED
    BY <2>1, <2>2, <2>5
<1>4. Offset(a, from) \in Nat /\ Offset(a, 0) \in Nat /\ Arc(a).count - from \in Nat
  <2>1. from \in Slots(Arc(a)) /\ C - from \in Nat
    BY <1>2, <1>3
  <2> HIDE DEF from
  <2> QED
    BY <2>1, <1>2, FirstSlot, OffsetFacts
<1> HIDE DEF n, from, until
<1>5. Fetches(h, c, a, d, x, b)
  <2>1. b = LoadBase(c, a)
    OBVIOUS
  <2> HIDE DEF b
  <2> QED
    BY <2>1, BaseFetches
<1>6. PICK o \in Nat, z \in Nat, k \in Nat, u \in Nat, m \in Nat :
        /\ o = Offset(a, from) /\ z = Offset(a, 0) /\ k = Arc(a).count - from
        /\ u = until /\ m = n
  BY <1>3, <1>4
<1>7. /\ first = ReadAt(b, o, k) /\ second = ReadAt(first, z, u)
      /\ whole = ReadAt(b, o, m)
  BY <1>6
<1>8. CallOK(h, b, d, x)
  BY <1>5 DEF Fetches
<1> HIDE DEF b, first, second, whole
<1>9. CallOK(h, first, d, x) /\ Reads(b, first)
  BY <1>7, <1>8, ReadFetches
<1>10. CallOK(h, second, d, x) /\ Reads(first, second)
  BY <1>7, <1>9, ReadFetches
<1>11. CallOK(h, whole, d, x) /\ Reads(b, whole)
  BY <1>7, <1>8, ReadFetches
<1> QED
  BY <1>1, <1>5, <1>9, <1>10, <1>11 DEF Fetches, Reads

\* Behind a point of an archive is not its base.
LEMMA NoBaseBehind ==
    ASSUME NEW a \in Arcs, NEW r, After(a, r)
    PROVE  r.stream.pos # Offset(a, 0)
<1>1. PICK i \in Slots(Arc(a)) : r.stream.pos = Offset(a, i) + PointSize
  BY DEF After
<1>2. /\ Offset(a, i) = PointsEnd(Layout)[a - 1] + PointSize * i
      /\ PointsEnd(Layout)[a - 1] \in Nat /\ i \in Nat
  BY OffsetFacts, ArcFacts DEF Slots
<1>3. Offset(a, 0) = PointsEnd(Layout)[a - 1] + PointSize * 0
  BY FirstSlot, OffsetFacts
<1> QED
  BY <1>1, <1>2, <1>3 DEF PointSize

\* wsp_fetch_time_points loads the base twice and is at the base once.
LEMMA TimeFetchedOK ==
    ASSUME NEW h, NEW c, NEW d, NEW x, CallOK(h, c, d, x), NEW a \in Arcs,
           NEW from \in Times, NEW until \in Times,
           NEW r, r = TimeFetched(c, a, from, until)
    PROVE  CallOK(h, r, d, x) /\ r.status # "OK"
<1> DEFINE b == LoadBase(c, a)
           S == Arc(a).spp
           first == TimeFloor(from, S) \div S
           last == TimeFloor(until, S) \div S
           offset == Signed(Wrap(first - b.base \div S))
           size == Capped(Wrap(last - first + 1), Arc(a).count)
<1>1. r = Fetched(b, a, offset, size)
  BY DEF TimeFetched
<1>2. Fetches(h, c, a, d, x, b) /\ (b.status = "OK" => After(a, b))
  <2>1. b = LoadBase(c, a)
    OBVIOUS
  <2> HIDE DEF b
  <2> QED
    BY <2>1, BaseFetches
<1> HIDE DEF b
<1>3. CallOK(h, b, d, x) /\ b.base \in Nat
  BY <1>2 DEF Fetches, CallOK
<1>4. /\ S \in Nat \ {0} /\ Arc(a).count \in Nat \ {0}
      /\ TimeFloor(from, S) \in Nat /\ TimeFloor(until, S) \in Nat
  BY ArcFacts, FlooredTime, FlooredFacts
<1> HIDE DEF S
<1>5. first \in Int /\ last \in Int /\ b.base \div S \in Int
  BY <1>3, <1>4
<1> HIDE DEF first, last
<1>6. /\ Word \in Nat \ {0} /\ Word \div 2 \in Int
      /\ Wrap(first - b.base \div S) \in Int /\ Wrap(last - first + 1) \in Nat
  BY <1>5, WordAssumption DEF Wrap
<1>7. offset \in Int /\ size \in Nat
  BY <1>4, <1>6 DEF Signed, Capped
<1> HIDE DEF offset, size
<1>8. Fetches(h, b, a, d, x, r)
  BY <1>1, <1>3, <1>7, FetchedOK
<1>9. r.status # "OK"
  BY <1>2, <1>8, NoBaseBehind DEF Fetches
<1> QED
  BY <1>8, <1>9 DEF Fetches

LEMMA BucketFetchedOK ==
    ASSUME NEW h, NEW c, NEW d, NEW x, CallOK(h, c, d, x), NEW a \in Arcs, a + 1 \in Arcs,
           NEW t \in Times, NEW r, r = BucketFetched(c, a, t)
    PROVE  Fetches(h, c, a, d, x, r)
<1> DEFINE offset == PointIndex(Arc(a), Point(c.base, 0), TimeFloor(t, Arc(a + 1).spp))
           size == Arc(a + 1).spp \div Arc(a).spp
<1>1. r = Fetched(c, a, offset, size)
  BY DEF BucketFetched
<1>2. PICK S \in Nat \ {0}, T \in Nat \ {0}, C \in Nat \ {0} :
        S = Arc(a).spp /\ T = Arc(a + 1).spp /\ C = Arc(a).count
  BY ArcFacts
<1>3. c.base \in Nat /\ TimeFloor(t, T) \in Nat
  BY <1>2, FlooredTime, FlooredFacts DEF CallOK
<1>4. Wrap(TimeFloor(t, T) - c.base) \in Int
  BY <1>3, WordAssumption DEF Wrap
<1>5. (Wrap(TimeFloor(t, T) - c.base) \div S) % C \in Int
  BY <1>2, <1>4
<1>6. offset \in Int /\ size \in Nat
  BY <1>2, <1>5 DEF PointIndex, Point
<1> HIDE DEF offset, size
<1> QED
  BY <1>1, <1>6, FetchedOK

-----------------------------------------------------------------------------
(* wsp_update_now.                                                         *)

\* What Updated's chain is defined to be, as far as archive n.
ChainTo(h, c, low, n, t, f) ==
    f = [a \in low .. n |->
            Written(h, IF a = low THEN c ELSE BucketFetched(f[a - 1], a - 1, t), a, t)]

\* One archive more.
LEMMA ChainFurther ==
    ASSUME NEW h, NEW c, NEW t, NEW low \in Nat, NEW n \in Nat, low <= n,
           NEW f, ChainTo(h, c, low, n, t, f)
    PROVE  \E g : ChainTo(h, c, low, n + 1, t, g)
<1> DEFINE last == Written(h, BucketFetched(f[n], n, t), n + 1, t)
           g == [a \in low .. n + 1 |-> IF a = n + 1 THEN last ELSE f[a]]
<1>1. ASSUME NEW a \in low .. n + 1
      PROVE  g[a] = Written(h, IF a = low THEN c ELSE BucketFetched(g[a - 1], a - 1, t), a, t)
  <2>1. CASE a = n + 1
    <3>1. g[a] = last /\ a # low /\ a - 1 \in low .. n + 1 /\ a - 1 # n + 1 /\ a - 1 = n
      BY <2>1
    <3>2. g[a - 1] = f[n]
      BY <3>1
    <3> HIDE DEF g
    <3> QED
      BY <3>1, <3>2, <2>1
  <2>2. CASE a # n + 1 /\ a # low
    <3>1. /\ g[a] = f[a] /\ a \in low .. n
          /\ a - 1 \in low .. n + 1 /\ a - 1 # n + 1
      BY <2>2
    <3>2. g[a - 1] = f[a - 1]
      BY <3>1
    <3> HIDE DEF g
    <3> QED
      BY <3>1, <3>2, <2>2 DEF ChainTo
  <2>3. CASE a = low
    <3>1. g[a] = f[a] /\ a \in low .. n
      BY <2>3
    <3> HIDE DEF g
    <3> QED
      BY <3>1, <2>3 DEF ChainTo
  <2> QED
    BY <2>1, <2>2, <2>3
<1>2. g = [a \in low .. n + 1 |-> g[a]]
  OBVIOUS
<1> HIDE DEF g
<1>3. ChainTo(h, c, low, n + 1, t, g)
  BY <1>1, <1>2 DEF ChainTo
<1> QED
  BY <1>3

\* So there is a chain for every update.
LEMMA UpdateChain ==
    ASSUME NEW h, NEW c, NEW t, NEW low \in Arcs, NEW high \in low .. Len(Layout)
    PROVE  \E f : /\ ChainTo(h, c, low, high, t, f)
                  /\ Updated(h, c, low, high, t) =
                       IF high = Len(Layout) THEN f[high]
                       ELSE BucketFetched(f[high], high, t)
<1> DEFINE P == {n \in Nat : low <= n /\ \E f : ChainTo(h, c, low, n, t, f)}
<1>1. low \in Nat /\ high \in Nat /\ low <= high /\ low \in Int /\ high \in Int
      /\ high \in low .. high
  BY ArcFacts
<1>2. low \in P
  <2> DEFINE f == [a \in low .. low |-> Written(h, c, a, t)]
  <2>1. \A a \in low .. low : a = low
    BY <1>1
  <2>2. ChainTo(h, c, low, low, t, f)
    BY <2>1 DEF ChainTo
  <2> HIDE DEF f
  <2> QED
    BY <1>1, <2>2
<1>3. ASSUME NEW n \in low .. high - 1, n \in P PROVE n + 1 \in P
  <2>1. PICK f : ChainTo(h, c, low, n, t, f)
    BY <1>3
  <2>2. n \in Nat /\ n + 1 \in Nat /\ low <= n /\ low <= n + 1
    BY <1>1
  <2>3. \E g : ChainTo(h, c, low, n + 1, t, g)
    BY <2>1, <2>2, <1>1, ChainFurther
  <2> QED
    BY <2>2, <2>3
<1>4. high \in P
  <2> HIDE DEF P
  <2> QED
    BY <1>1, <1>2, <1>3, UpTo
<1>5. PICK f : ChainTo(h, c, low, high, t, f)
  BY <1>4
<1> DEFINE E(e) == e = [a \in low .. high |->
                          Written(h, IF a = low THEN c
                                     ELSE BucketFetched(e[a - 1], a - 1, t), a, t)]
           chain == CHOOSE e : E(e)
<1>6. Updated(h, c, low, high, t) = IF high = Len(Layout) THEN chain[high]
                                    ELSE BucketFetched(chain[high], high, t)
  BY DEF Updated
<1>7. E(f)
  BY <1>5 DEF ChainTo
<1>8. E(chain)
  <2> HIDE DEF E
  <2> QED
    BY <1>7
<1> HIDE DEF chain
<1>9. ChainTo(h, c, low, high, t, chain)
  BY <1>8 DEF ChainTo
<1> QED
  BY <1>6, <1>9

\* An update as far as archive a: it is over, unless this is the first archive and the
\* stream stands behind the point stored there.
StuckAt(h, c, d, x, low, a, r) ==
    /\ CallOK(h, r, d, x)
    /\ r.wrote \in {c.wrote, c.wrote \cup {low}}
    /\ r.status = "OK" => a = low /\ After(low, r)

LEMMA ChainStuck ==
    ASSUME NullDistinct, NEW h, NEW c, NEW d, NEW x, CallOK(h, c, d, x),
           NEW t \in Times, NEW low \in Arcs, NEW high \in low .. Len(Layout),
           NEW f, ChainTo(h, c, low, high, t, f)
    PROVE  \A a \in low .. high : StuckAt(h, c, d, x, low, a, f[a])
<1> DEFINE P == {a \in low .. high : StuckAt(h, c, d, x, low, a, f[a])}
<1>1. /\ low \in Nat /\ high \in Nat /\ low <= high /\ low \in Int /\ high \in Int
      /\ Arcs = 1 .. Len(Layout) /\ Len(Layout) \in Nat
  BY ArcFacts
<1>2. \A a \in low .. high :
        f[a] = Written(h, IF a = low THEN c ELSE BucketFetched(f[a - 1], a - 1, t), a, t)
  BY DEF ChainTo
<1>3. low \in P
  <2>1. f[low] = Written(h, c, low, t) /\ low \in low .. high
    BY <1>1, <1>2
  <2>2. /\ CallOK(h, f[low], d, x)
        /\ f[low].wrote \in {c.wrote, c.wrote \cup {low}}
        /\ f[low].status = "OK" => After(low, f[low])
    BY <2>1, WrittenOK
  <2> QED
    BY <2>1, <2>2 DEF StuckAt
<1>4. ASSUME NEW a \in low .. high - 1, a \in P PROVE a + 1 \in P
  <2> DEFINE b == BucketFetched(f[a], a, t)
  <2>1. /\ a \in Arcs /\ a + 1 \in Arcs /\ a + 1 \in low .. high
        /\ a + 1 # low /\ (a + 1) - 1 = a
    BY <1>1
  <2>2. StuckAt(h, c, d, x, low, a, f[a])
    BY <1>4
  <2>3. f[a + 1] = Written(h, b, a + 1, t)
    BY <1>2, <2>1
  <2>4. Fetches(h, f[a], a, d, x, b)
    <3>1. b = BucketFetched(f[a], a, t)
      OBVIOUS
    <3> HIDE DEF b
    <3> QED
      BY <3>1, <2>1, <2>2, BucketFetchedOK DEF StuckAt
  <2> HIDE DEF b
  <2>5. b.status # "OK"
    BY <2>2, <2>4, NoBaseBehind DEF StuckAt, Fetches
  <2>6. f[a + 1] = b
    <3>1. CallOK(h, b, d, x)
      BY <2>4 DEF Fetches
    <3> QED
      BY <3>1, <2>1, <2>3, <2>5, WrittenOK
  <2>7. StuckAt(h, c, d, x, low, a + 1, f[a + 1])
    BY <2>2, <2>4, <2>5, <2>6 DEF StuckAt, Fetches
  <2> QED
    BY <2>1, <2>7
<1>5. \A a \in low .. high : a \in P
  <2> HIDE DEF P
  <2> QED
    BY <1>1, <1>3, <1>4, UpTo
<1> QED
  BY <1>5

LEMMA UpdatedOK ==
    ASSUME NullDistinct, NEW h, NEW c, NEW d, NEW x, CallOK(h, c, d, x),
           NEW t \in Times, NEW low \in Arcs, NEW high \in low .. Len(Layout),
           NEW r, r = Updated(h, c, low, high, t)
    PROVE  /\ CallOK(h, r, d, x)
           /\ r.wrote \in {c.wrote, c.wrote \cup {low}}
           /\ r.status = "OK" => low = Len(Layout)
<1>1. PICK f : /\ ChainTo(h, c, low, high, t, f)
               /\ r = IF high = Len(Layout) THEN f[high]
                      ELSE BucketFetched(f[high], high, t)
  BY UpdateChain
<1>2. /\ low \in Nat /\ high \in low .. high /\ high \in Arcs
      /\ Arcs = 1 .. Len(Layout) /\ Len(Layout) \in Nat
  BY ArcFacts
<1>3. StuckAt(h, c, d, x, low, high, f[high])
  BY <1>1, <1>2, ChainStuck
<1>4. CASE high = Len(Layout)
  BY <1>1, <1>3, <1>4 DEF StuckAt
<1>5. CASE high # Len(Layout)
  <2>1. r = BucketFetched(f[high], high, t) /\ high + 1 \in Arcs
    BY <1>1, <1>2, <1>5
  <2>2. Fetches(h, f[high], high, d, x, r)
    BY <2>1, <1>2, <1>3, BucketFetchedOK DEF StuckAt
  <2>3. r.status # "OK"
    BY <2>2, <1>3, NoBaseBehind DEF StuckAt, Fetches
  <2> QED
    BY <2>2, <2>3, <1>3 DEF StuckAt, Fetches
<1> QED
  BY <1>4, <1>5

-----------------------------------------------------------------------------
(* The invariant: the file, its points as stored, and the open streams.    *)

Inv ==
    /\ FileOK(disk, stored)
    /\ streams = [h \in Handles |-> streams[h]]
    /\ \A h \in Handles : IsOpen(h) => StreamOK(h, disk, stored, streams[h])
    /\ ~ IsOpen(Writer) => disk = stored

\* A call that has just begun.
Begun(d, x, s) == [disk |-> d, stored |-> x, stream |-> s,
                   status |-> "OK", points |-> <<>>, base |-> 0, wrote |-> {}]

LEMMA BegunOK ==
    ASSUME NEW h, NEW d, NEW x, NEW s, FileOK(d, x), StreamOK(h, d, x, s)
    PROVE  /\ CallOK(h, Begun(d, x, s), d, x)
           /\ Begun(d, x, s).stream = s
           /\ Begun(d, x, s).stored = x
           /\ Begun(d, x, s).disk = d
           /\ Begun(d, x, s).status = "OK"
           /\ Begun(d, x, s).wrote = {}
<1> DEFINE c == Begun(d, x, s)
<1>1. /\ c.disk = d /\ c.stored = x /\ c.stream = s /\ c.status = "OK"
      /\ c.points = <<>> /\ c.base = 0 /\ c.wrote = {}
  BY DEF Begun
<1>2. c = [disk |-> c.disk, stored |-> c.stored, stream |-> c.stream,
           status |-> c.status, points |-> c.points, base |-> c.base, wrote |-> c.wrote]
  BY <1>1 DEF Begun
<1> HIDE DEF c
<1>3. IsStream(s)
  BY DEF StreamOK
<1>4. CallOK(h, c, d, x)
  BY <1>1, <1>2, <1>3 DEF CallOK, IsCall
<1> QED
  BY <1>1, <1>4 DEF c

LEMMA BeginOK ==
    ASSUME Inv, NEW h \in Handles, IsOpen(h)
    PROVE  /\ CallOK(h, Begin(h), disk, stored)
           /\ Begin(h).stream = streams[h] /\ Begin(h).stored = stored
           /\ Begin(h).disk = disk /\ Begin(h).status = "OK" /\ Begin(h).wrote = {}
<1>1. Begin(h) = Begun(disk, stored, streams[h])
  BY DEF Begin, Begun
<1> QED
  BY <1>1, BegunOK DEF Inv

LEMMA StreamNotNull ==
    ASSUME NullDistinct, NEW s, IsStream(s)
    PROVE  s # NULL
BY DEF NullDistinct, IsStream

\* A reader's stream does not care about the file.
LEMMA ReaderStream ==
    ASSUME NEW h, h # Writer, NEW d, NEW x, NEW s, StreamOK(h, d, x, s), NEW e, NEW y
    PROVE  StreamOK(h, e, y, s)
BY DEF StreamOK

LEMMA EndOK ==
    ASSUME NullDistinct, Inv, NEW h \in Handles, IsOpen(h),
           NEW c, CallOK(h, c, disk, stored), End(h, c)
    PROVE  Inv'
<1>1. /\ disk' = c.disk /\ stored' = c.stored
      /\ streams' = [streams EXCEPT ![h] = c.stream]
      /\ streams = [g \in Handles |-> streams[g]]
  BY DEF End, Inv
<1>2. /\ streams' = [g \in Handles |-> streams'[g]]
      /\ streams'[h] = c.stream
      /\ \A g \in Handles : g # h => streams'[g] = streams[g]
  BY <1>1
<1>3. FileOK(c.disk, c.stored) /\ StreamOK(h, c.disk, c.stored, c.stream) /\ c.stream # NULL
  BY StreamNotNull DEF CallOK, IsCall
<1>4. h # Writer => c.disk = disk /\ c.stored = stored
  BY DEF CallOK
<1>5. ASSUME NEW g \in Handles, streams'[g] # NULL
      PROVE  StreamOK(g, disk', stored', streams'[g])
  <2>1. CASE g = h
    BY <2>1, <1>1, <1>2, <1>3
  <2>2. CASE g # h
    <3>1. streams'[g] = streams[g] /\ StreamOK(g, disk, stored, streams[g])
      BY <2>2, <1>2, <1>5 DEF Inv, IsOpen
    <3>2. CASE g = Writer
      BY <3>1, <3>2, <2>2, <1>1, <1>4
    <3>3. CASE g # Writer
      BY <3>1, <3>3, ReaderStream
    <3> QED
      BY <3>2, <3>3
  <2> QED
    BY <2>1, <2>2
<1>6. streams'[Writer] = NULL => disk' = stored'
  <2>1. Writer \in Handles
    BY WriterAssumption
  <2>2. CASE h = Writer
    BY <2>2, <1>2, <1>3
  <2>3. CASE h # Writer
    BY <2>1, <2>3, <1>1, <1>2, <1>4 DEF Inv, IsOpen
  <2> QED
    BY <2>2, <2>3
<1> QED
  BY <1>1, <1>2, <1>3, <1>5, <1>6 DEF Inv, IsOpen

LEMMA InitFile == Init => Inv
<1> SUFFICES ASSUME Init PROVE Inv
  OBVIOUS
<1>1. \A o \in Cells : disk[o] = 0
  BY DEF Init
<1>2. Data(disk)
  <2>1. disk \in [Cells -> Nat]
    BY DEF Init
  <2>2. \A a \in Arcs : \A i \in Slots(Arc(a)) : disk[Offset(a, i)] \in Floored(a)
    BY <1>1, OffsetFacts DEF Floored
  <2> QED
    BY <2>1, <2>2 DEF Data, Contents
<1>3. Aligned(disk)
  <2>1. ASSUME NEW a \in Arcs, NEW i \in Slots(Arc(a))
        PROVE  RingOf(disk, a)[i].timestamp = 0
    BY <1>1, <1>2, OffsetFacts, RingFacts
  <2> QED
    BY <2>1 DEF Aligned, AlignedRing
<1> QED
  BY <1>2, <1>3 DEF Init, Inv, FileOK, IsOpen

LEMMA OpenOK ==
    ASSUME Inv, NEW h \in Handles, Open(h)
    PROVE  /\ Inv'
           /\ streams'[h].pos = HeaderSize(Len(Layout))
           /\ StreamOK(h, disk', stored', streams'[h])
<1> DEFINE p == HeaderSize(Len(Layout))
           s == [pos |-> p, ahead |-> disk, dirty |-> NULL]
<1>1. /\ disk' = disk /\ stored' = stored /\ streams[h] = NULL
      /\ streams' = [streams EXCEPT ![h] = s]
      /\ streams = [g \in Handles |-> streams[g]]
  BY DEF Open, Inv, HeaderSize, IsOpen
<1>2. p \in Nat
  BY LayoutAssumption, LayoutFacts DEF IsLayout
<1>3. /\ s.pos = p /\ s.ahead = disk /\ s.dirty = NULL /\ IsStream(s)
  <2> HIDE DEF p
  <2> QED
    BY DEF IsStream
<1> HIDE DEF s, p
<1>4. /\ streams' = [g \in Handles |-> streams'[g]]
      /\ streams'[h] = s
      /\ \A g \in Handles : g # h => streams'[g] = streams[g]
  BY <1>1
<1>5. StreamOK(h, disk, stored, s)
  <2>1. h = Writer => disk = stored
    BY <1>1 DEF Inv, IsOpen
  <2> QED
    BY <2>1, <1>2, <1>3 DEF StreamOK, Inv, FileOK
<1>6. \A g \in Handles : streams'[g] # NULL => StreamOK(g, disk', stored', streams'[g])
  BY <1>1, <1>4, <1>5 DEF Inv, IsOpen
<1>7. streams'[Writer] = NULL => disk' = stored'
  <2>1. Writer \in Handles
    BY WriterAssumption
  <2>2. streams'[Writer] = NULL => streams[Writer] = NULL
    BY <2>1, <1>1, <1>4
  <2> QED
    BY <2>2, <1>1 DEF Inv, IsOpen
<1>8. Inv'
  BY <1>1, <1>4, <1>6, <1>7 DEF Inv, IsOpen
<1> QED
  BY <1>1, <1>3, <1>4, <1>5, <1>8 DEF p

\* A stream that is closed: the file is as it was, or has all that was stored.
LEMMA ClosedOK ==
    ASSUME Inv, NEW h \in Handles, IsOpen(h),
           streams' = [streams EXCEPT ![h] = NULL],
           FileOK(disk', stored'),
           h # Writer => disk' = disk /\ stored' = stored,
           h = Writer => disk' = stored'
    PROVE  Inv'
<1>1. /\ streams' = [g \in Handles |-> streams'[g]]
      /\ streams'[h] = NULL
      /\ \A g \in Handles : g # h => streams'[g] = streams[g]
  BY DEF Inv
<1>2. ASSUME NEW g \in Handles, streams'[g] # NULL
      PROVE  StreamOK(g, disk', stored', streams'[g])
  <2>1. g # h /\ StreamOK(g, disk, stored, streams[g]) /\ streams'[g] = streams[g]
    BY <1>1, <1>2 DEF Inv, IsOpen
  <2>2. CASE g = Writer
    BY <2>1, <2>2
  <2>3. CASE g # Writer
    BY <2>1, <2>3, ReaderStream
  <2> QED
    BY <2>2, <2>3
<1>3. streams'[Writer] = NULL => disk' = stored'
  BY <1>1, WriterAssumption DEF Inv, IsOpen
<1> QED
  BY <1>1, <1>2, <1>3 DEF Inv, IsOpen

LEMMA CloseOK ==
    ASSUME Inv, NEW h \in Handles, Close(h)
    PROVE  Inv'
<1>1. /\ IsOpen(h) /\ disk' = Flush(Begin(h)).disk /\ stored' = stored
      /\ streams' = [streams EXCEPT ![h] = NULL]
  BY DEF Close
<1>2. /\ CallOK(h, Begin(h), disk, stored) /\ Begin(h).stored = stored
  BY <1>1, BeginOK
<1>3. /\ CallOK(h, Flush(Begin(h)), disk, stored)
      /\ Flush(Begin(h)).stored = stored
      /\ h = Writer => Flush(Begin(h)).disk = stored
  BY <1>2, FlushOK
<1>4. /\ FileOK(disk', stored')
      /\ h # Writer => disk' = disk
      /\ h = Writer => disk' = stored'
  BY <1>1, <1>3 DEF CallOK
<1> QED
  BY <1>1, <1>4, ClosedOK

LEMMA LoseOK ==
    ASSUME Inv, NEW h \in Handles, Lose(h)
    PROVE  Inv'
<1>1. /\ IsOpen(h) /\ disk' = disk /\ stored' = IF h = Writer THEN disk ELSE stored
      /\ streams' = [streams EXCEPT ![h] = NULL]
  BY DEF Lose
<1>2. FileOK(disk', stored')
  BY <1>1 DEF Inv, FileOK
<1> QED
  BY <1>1, <1>2, ClosedOK

LEMMA BufferEndsOK ==
    ASSUME NullDistinct, Inv, NEW h \in Handles, BufferEnds(h)
    PROVE  Inv'
<1> DEFINE s == [pos |-> streams[h].pos, ahead |-> NULL, dirty |-> streams[h].dirty]
           c == Begun(disk, stored, s)
<1>1. /\ IsOpen(h) /\ disk' = disk /\ stored' = stored
      /\ streams' = [streams EXCEPT ![h].ahead = NULL]
      /\ streams = [g \in Handles |-> streams[g]]
  BY DEF BufferEnds, Inv
<1>2. StreamOK(h, disk, stored, streams[h]) /\ IsStream(streams[h])
  BY <1>1 DEF Inv, StreamOK
<1>3. [streams[h] EXCEPT !.ahead = NULL] = s
  BY <1>2 DEF IsStream
<1>4. /\ s.pos = streams[h].pos /\ s.ahead = NULL /\ s.dirty = streams[h].dirty
      /\ IsStream(s)
  BY DEF IsStream
<1> HIDE DEF s
<1>5. StreamOK(h, disk, stored, s)
  BY <1>2, <1>4 DEF StreamOK
<1>6. /\ CallOK(h, c, disk, stored) /\ c.stream = s /\ c.disk = disk /\ c.stored = stored
  BY <1>5, BegunOK DEF Inv
<1> HIDE DEF c
<1>7. streams' = [streams EXCEPT ![h] = s]
  BY <1>1, <1>3
<1>8. End(h, c)
  BY <1>1, <1>6, <1>7 DEF End
<1> QED
  BY <1>1, <1>6, <1>8, EndOK

LEMMA CallsOK ==
    ASSUME NullDistinct, Inv, NEW h \in Handles, NEW a \in Arcs
    PROVE  /\ \A i \in Slots(Arc(a)) : \A n \in 0 .. Arc(a).count - i :
                Load(h, a, i, n) => Inv'
           /\ \A i \in Slots(Arc(a)), n \in 1 .. Arc(a).count : Fetch(h, a, i, n) => Inv'
           /\ \A from, until \in Times : FetchTime(h, a, from, until) => Inv'
           /\ \A t \in Times : Write(h, a, t) => Inv'
           /\ \A t \in Times : \A high \in a .. Len(Layout) : Update(h, a, high, t) => Inv'
<1> DEFINE c == Begin(h)
<1>1. IsOpen(h) => CallOK(h, c, disk, stored)
  BY BeginOK
<1> HIDE DEF c
<1>2. ASSUME NEW i \in Slots(Arc(a)), NEW n \in 0 .. Arc(a).count - i, Load(h, a, i, n)
      PROVE  Inv'
  <2>1. PICK o \in Nat, k \in Nat : o = Offset(a, i) /\ k = n
    BY OffsetFacts, ArcFacts DEF Slots
  <2>2. PICK r : r = ReadAt(c, o, k)
    OBVIOUS
  <2>3. IsOpen(h) /\ End(h, r)
    BY <1>2, <2>1, <2>2 DEF Load, c
  <2>4. CallOK(h, r, disk, stored)
    BY <1>1, <2>2, <2>3, ReadAtOK
  <2> QED
    BY <2>3, <2>4, EndOK
<1>3. ASSUME NEW i \in Slots(Arc(a)), NEW n \in 1 .. Arc(a).count, Fetch(h, a, i, n)
      PROVE  Inv'
  <2>1. PICK r : r = Fetched(c, a, i, n)
    OBVIOUS
  <2>2. IsOpen(h) /\ End(h, r)
    BY <1>3, <2>1 DEF Fetch, c
  <2>3. i \in Int /\ n \in Nat
    BY ArcFacts DEF Slots
  <2>4. CallOK(h, r, disk, stored)
    BY <1>1, <2>1, <2>2, <2>3, FetchedOK DEF Fetches
  <2> QED
    BY <2>2, <2>4, EndOK
<1>4. ASSUME NEW from \in Times, NEW until \in Times, FetchTime(h, a, from, until)
      PROVE  Inv'
  <2>1. PICK r : r = TimeFetched(c, a, from, until)
    OBVIOUS
  <2>2. IsOpen(h) /\ End(h, r)
    BY <1>4, <2>1 DEF FetchTime, c
  <2>3. CallOK(h, r, disk, stored)
    BY <1>1, <2>1, <2>2, TimeFetchedOK
  <2> QED
    BY <2>2, <2>3, EndOK
<1>5. ASSUME NEW t \in Times, Write(h, a, t)
      PROVE  Inv'
  <2>1. PICK r : r = Written(h, c, a, t)
    OBVIOUS
  <2>2. IsOpen(h) /\ End(h, r)
    BY <1>5, <2>1 DEF Write, c
  <2>3. CallOK(h, r, disk, stored)
    BY <1>1, <2>1, <2>2, WrittenOK
  <2> QED
    BY <2>2, <2>3, EndOK
<1>6. ASSUME NEW t \in Times, NEW high \in a .. Len(Layout), Update(h, a, high, t)
      PROVE  Inv'
  <2>1. PICK r : r = Updated(h, c, a, high, t)
    OBVIOUS
  <2>2. IsOpen(h) /\ End(h, r)
    BY <1>6, <2>1 DEF Update, c
  <2>3. CallOK(h, r, disk, stored)
    BY <1>1, <2>1, <2>2, UpdatedOK
  <2> QED
    BY <2>2, <2>3, EndOK
<1> QED
  BY <1>2, <1>3, <1>4, <1>5, <1>6

LEMMA NextFile ==
    ASSUME NullDistinct, Inv, [Next]_vars
    PROVE  Inv'
<1>1. CASE UNCHANGED vars
  BY <1>1 DEF vars, Inv, IsOpen
<1>2. ASSUME NEW h \in Handles, Open(h) \/ Close(h) \/ Lose(h) \/ BufferEnds(h)
      PROVE  Inv'
  BY <1>2, OpenOK, CloseOK, LoseOK, BufferEndsOK
<1> QED
  BY <1>1, <1>2, CallsOK DEF Next

-----------------------------------------------------------------------------
(* What follows from it.                                                   *)

\* Every stream is one of the shape TypeOK says, and so is the file.
THEOREM StreamsTypeCorrect ==
    ASSUME NullDistinct
    PROVE  Spec => []TypeOK
<1>1. Init => Inv
  BY InitFile
<1>2. Inv /\ [Next]_vars => Inv'
  BY NextFile
<1>3. ASSUME Inv PROVE TypeOK
  <2>1. Contents(disk) /\ Contents(stored)
    BY <1>3 DEF Inv, FileOK, Data
  <2>2. ASSUME NEW h \in Handles, IsOpen(h)
        PROVE  /\ streams[h].pos \in Nat
               /\ streams[h].ahead # NULL =>
                    Contents(streams[h].ahead) /\ streams[h].dirty = NULL
               /\ streams[h].dirty # NULL => streams[h].dirty.offset \in Cells
    <3>1. StreamOK(h, disk, stored, streams[h])
      BY <1>3, <2>2 DEF Inv
    <3>2. ASSUME streams[h].dirty # NULL PROVE streams[h].dirty.offset \in Cells
      <4>1. PICK o \in Cells, t \in Nat : streams[h].dirty = [offset |-> o, timestamp |-> t]
        BY <3>1, <3>2 DEF StreamOK
      <4> QED
        BY <4>1
    <3>3. /\ streams[h].pos \in Nat
          /\ streams[h].ahead # NULL =>
               Contents(streams[h].ahead) /\ streams[h].dirty = NULL
      BY <3>1 DEF StreamOK, Data
    <3> QED
      BY <3>2, <3>3
  <2> QED
    BY <2>1, <2>2 DEF TypeOK
<1> QED
  BY <1>1, <1>2, <1>3, PTL DEF Spec

LEMMA InvReads ==
    ASSUME Inv, IsOpen(Writer), NEW a \in Arcs, NEW i \in Slots(Arc(a)),
           NEW n \in 1 .. Arc(a).count - i,
           ReadAt(Begin(Writer), Offset(a, i), n).status = "OK"
    PROVE  ReadAt(Begin(Writer), Offset(a, i), n).points
             = [k \in 1 .. n |-> stored[Offset(a, i + k - 1)]]
<1>1. PICK c : c = Begin(Writer)
  OBVIOUS
<1>2. CallOK(Writer, c, disk, stored) /\ c.stored = stored
  BY <1>1, BeginOK, WriterAssumption
<1>3. PICK o \in Nat, m \in Nat : o = Offset(a, i) /\ m = n
  BY OffsetFacts, ArcFacts DEF Slots
<1>4. PICK r : r = ReadAt(c, o, m)
  OBVIOUS
<1>5. r.status = "OK"
  BY <1>1, <1>3, <1>4
<1>6. Brings(Writer, c, r, o, m)
  BY <1>2, <1>4, <1>5, ReadAtOK
<1>7. r.points = Got(stored, o, m)
  BY <1>2, <1>6 DEF Brings
<1>8. ASSUME NEW k \in 1 .. n
      PROVE  o + PointSize * (k - 1) = Offset(a, i + k - 1)
  <2>1. PICK C \in Nat \ {0} : C = Arc(a).count /\ Slots(Arc(a)) = 0 .. C - 1
    BY ArcFacts DEF Slots
  <2>2. i + k - 1 \in Slots(Arc(a)) /\ i \in Int /\ k \in Int
    BY <2>1
  <2>3. /\ Offset(a, i + k - 1) = PointsEnd(Layout)[a - 1] + PointSize * (i + k - 1)
        /\ o = PointsEnd(Layout)[a - 1] + PointSize * i
        /\ PointsEnd(Layout)[a - 1] \in Nat
    BY <2>2, <1>3, OffsetFacts
  <2> QED
    BY <2>2, <2>3 DEF PointSize
<1>9. Got(stored, o, m) = [k \in 1 .. n |-> stored[Offset(a, i + k - 1)]]
  BY <1>3, <1>8 DEF Got
<1> QED
  BY <1>1, <1>3, <1>4, <1>7, <1>9

\* What the writer reads is what it has stored, whatever its stream has read ahead or
\* has yet to write.
THEOREM WriterReadsItsWrites ==
    ASSUME NullDistinct
    PROVE  Spec => []ReadsOwnWrites
<1>1. Init => Inv
  BY InitFile
<1>2. Inv /\ [Next]_vars => Inv'
  BY NextFile
<1>3. Inv => ReadsOwnWrites
  BY InvReads DEF ReadsOwnWrites
<1> QED
  BY <1>1, <1>2, <1>3, PTL DEF Spec

LEMMA InvUnflushed ==
    ASSUME Inv, NEW o \in Cells, disk[o] # stored[o]
    PROVE  IsOpen(Writer) /\ streams[Writer].dirty = [offset |-> o, timestamp |-> stored[o]]
<1> DEFINE s == streams[Writer]
<1>1. IsOpen(Writer)
  BY DEF Inv
<1>2. StreamOK(Writer, disk, stored, s)
  BY <1>1, WriterAssumption DEF Inv
<1>3. s.dirty # NULL
  BY <1>2 DEF StreamOK
<1>4. PICK i \in Cells, t \in Nat : s.dirty = [offset |-> i, timestamp |-> t]
  BY <1>2, <1>3 DEF StreamOK
<1>5. s.dirty.offset = i /\ s.dirty.timestamp = t
  BY <1>4
<1>6. stored = [disk EXCEPT ![i] = t]
  BY <1>2, <1>3, <1>5 DEF StreamOK
<1>7. disk \in [Cells -> Nat]
  BY DEF Inv, FileOK, Data
<1>8. o = i /\ stored[o] = t
  BY <1>6, <1>7
<1> QED
  BY <1>1, <1>4, <1>8

\* One store is all that the file can miss and a crash can lose: the writer's last.
THEOREM LastStoreMissing ==
    ASSUME NullDistinct
    PROVE  Spec => []OnlyLastUnflushed
<1>1. Init => Inv
  BY InitFile
<1>2. Inv /\ [Next]_vars => Inv'
  BY NextFile
<1>3. Inv => OnlyLastUnflushed
  BY InvUnflushed DEF OnlyLastUnflushed
<1> QED
  BY <1>1, <1>2, <1>3, PTL DEF Spec

LEMMA InvAligned ==
    ASSUME LapsDivideWord, Inv
    PROVE  StoredAligned
<1>1. Data(stored) /\ Aligned(stored)
  BY DEF Inv, FileOK
<1> SUFFICES ASSUME NEW a \in Arcs, NEW i \in Slots(Arc(a)), stored[Offset(a, i)] # 0
             PROVE  /\ stored[Offset(a, 0)] # 0
                    /\ (stored[Offset(a, i)] - stored[Offset(a, 0)] - i * Arc(a).spp)
                           % Retention(Arc(a)) = 0
  BY DEF StoredAligned
<1> DEFINE ring == RingOf(stored, a)
<1>2. ring[i].timestamp = stored[Offset(a, i)] /\ ring[0].timestamp = stored[Offset(a, 0)]
  BY <1>1, FirstSlot, RingFacts
<1>3. AlignedRing(Arc(a), ring)
  BY <1>1 DEF Aligned
<1> HIDE DEF ring
<1> QED
  BY <1>2, <1>3 DEF AlignedRing

\* The points are where fetches look for them, although the base of every store came
\* through a stream and some stores have been lost.
THEOREM StoresStayAligned ==
    ASSUME NullDistinct, LapsDivideWord
    PROVE  Spec => []StoredAligned
<1>1. Init => Inv
  BY InitFile
<1>2. Inv /\ [Next]_vars => Inv'
  BY NextFile
<1>3. Inv => StoredAligned
  BY InvAligned
<1> QED
  BY <1>1, <1>2, <1>3, PTL DEF Spec

\* Once a call has left the start of an archive it does not come back: an update
\* stores in one archive at most, and is reported as done only when that is the
\* last one; no wsp_fetch_time_points succeeds.  This is how far CallsServed is from
\* what the code does (WSP_MMAP has no position).
NoReturnToBase ==
    \A h \in Handles : IsOpen(h) =>
        /\ \A low \in Arcs, t \in Times : \A high \in low .. Len(Layout) :
             LET c == Updated(h, Begin(h), low, high, t)
             IN  /\ c.wrote \subseteq {low}
                 /\ c.status = "OK" => low = Len(Layout)
        /\ \A a \in Arcs, from, until \in Times : from <= until =>
             TimeFetched(Begin(h), a, from, until).status # "OK"

LEMMA InvNoReturn ==
    ASSUME NullDistinct, Inv
    PROVE  NoReturnToBase
<1> SUFFICES ASSUME NEW h \in Handles, IsOpen(h)
             PROVE  /\ \A low \in Arcs, t \in Times : \A high \in low .. Len(Layout) :
                         LET c == Updated(h, Begin(h), low, high, t)
                         IN  /\ c.wrote \subseteq {low}
                             /\ c.status = "OK" => low = Len(Layout)
                    /\ \A a \in Arcs, from, until \in Times : from <= until =>
                         TimeFetched(Begin(h), a, from, until).status # "OK"
  BY DEF NoReturnToBase
<1>1. PICK b : b = Begin(h)
  OBVIOUS
<1>2. CallOK(h, b, disk, stored) /\ b.wrote = {}
  BY <1>1, BeginOK
<1>3. ASSUME NEW low \in Arcs, NEW t \in Times, NEW high \in low .. Len(Layout),
             NEW c, c = Updated(h, b, low, high, t)
      PROVE  /\ c.wrote \subseteq {low}
             /\ c.status = "OK" => low = Len(Layout)
  <2>1. /\ c.wrote \in {b.wrote, b.wrote \cup {low}}
        /\ c.status = "OK" => low = Len(Layout)
    BY <1>2, <1>3, UpdatedOK
  <2> QED
    BY <2>1, <1>2
<1>4. ASSUME NEW a \in Arcs, NEW from \in Times, NEW until \in Times,
             NEW c, c = TimeFetched(b, a, from, until)
      PROVE  c.status # "OK"
  BY <1>2, <1>4, TimeFetchedOK
<1> QED
  BY <1>1, <1>3, <1>4

\* The extent of what the run FileCalls finds: through a stream no
\* update gets beyond the archive it starts with, and no fetch by time brings a
\* point, ever and in any layout, since both have to return to the base.
THEOREM StreamsDoNotReturn ==
    ASSUME NullDistinct
    PROVE  Spec => []NoReturnToBase
<1>1. Init => Inv
  BY InitFile
<1>2. Inv /\ [Next]_vars => Inv'
  BY NextFile
<1>3. Inv => NoReturnToBase
  BY InvNoReturn
<1> QED
  BY <1>1, <1>2, <1>3, PTL DEF Spec

-----------------------------------------------------------------------------
(* Reading the archives one after the other.                               *)

\* What Dumped's recursion is defined to be, as far as archive n.
DumpTo(c, n, f) ==
    f = [a \in 0 .. n |-> IF a = 0 THEN c
                          ELSE ReadAt(f[a - 1], Offset(a, 0), Arc(a).count)]

LEMMA DumpFurther ==
    ASSUME NEW c, NEW n \in Nat, NEW f, DumpTo(c, n, f)
    PROVE  \E g : DumpTo(c, n + 1, g)
<1> DEFINE last == ReadAt(f[n], Offset(n + 1, 0), Arc(n + 1).count)
           g == [a \in 0 .. n + 1 |-> IF a = n + 1 THEN last ELSE f[a]]
<1>1. ASSUME NEW a \in 0 .. n + 1
      PROVE  g[a] = IF a = 0 THEN c ELSE ReadAt(g[a - 1], Offset(a, 0), Arc(a).count)
  <2>1. CASE a = n + 1
    <3>1. g[a] = last /\ a # 0 /\ a - 1 \in 0 .. n + 1 /\ a - 1 # n + 1 /\ a - 1 = n
      BY <2>1
    <3>2. g[a - 1] = f[n]
      BY <3>1
    <3> HIDE DEF g
    <3> QED
      BY <3>1, <3>2, <2>1
  <2>2. CASE a # n + 1 /\ a # 0
    <3>1. g[a] = f[a] /\ a \in 0 .. n /\ a - 1 \in 0 .. n + 1 /\ a - 1 # n + 1
      BY <2>2
    <3>2. g[a - 1] = f[a - 1]
      BY <3>1
    <3> HIDE DEF g
    <3> QED
      BY <3>1, <3>2, <2>2 DEF DumpTo
  <2>3. CASE a = 0
    <3>1. g[a] = f[a] /\ a \in 0 .. n
      BY <2>3
    <3> HIDE DEF g
    <3> QED
      BY <3>1, <2>3 DEF DumpTo
  <2> QED
    BY <2>1, <2>2, <2>3
<1>2. g = [a \in 0 .. n + 1 |-> g[a]]
  OBVIOUS
<1> HIDE DEF g
<1>3. DumpTo(c, n + 1, g)
  BY <1>1, <1>2 DEF DumpTo
<1> QED
  BY <1>3

LEMMA DumpExists ==
    ASSUME NEW c
    PROVE  \E f : DumpTo(c, Len(Layout), f) /\ Dumped(c) = f[Len(Layout)]
<1> DEFINE P == {n \in Nat : \E f : DumpTo(c, n, f)}
<1>1. PICK N \in Nat : N = Len(Layout)
  BY ArcFacts
<1>2. 0 \in P
  <2> DEFINE f == [a \in 0 .. 0 |-> c]
  <2>1. \A a \in 0 .. 0 : a = 0
    OBVIOUS
  <2>2. DumpTo(c, 0, f)
    BY <2>1 DEF DumpTo
  <2> HIDE DEF f
  <2> QED
    BY <2>2
<1>3. ASSUME NEW n \in 0 .. N - 1, n \in P PROVE n + 1 \in P
  <2>1. PICK f : DumpTo(c, n, f)
    BY <1>3
  <2>2. n \in Nat /\ n + 1 \in Nat
    OBVIOUS
  <2>3. \E g : DumpTo(c, n + 1, g)
    BY <2>1, <2>2, DumpFurther
  <2> QED
    BY <2>2, <2>3
<1>4. N \in P
  <2> HIDE DEF P
  <2>1. 0 \in Int /\ N \in Int /\ N \in 0 .. N
    OBVIOUS
  <2> QED
    BY <2>1, <1>2, <1>3, UpTo
<1>5. PICK f : DumpTo(c, Len(Layout), f)
  BY <1>1, <1>4
<1> DEFINE E(e) == e = [a \in 0 .. Len(Layout) |->
                          IF a = 0 THEN c ELSE ReadAt(e[a - 1], Offset(a, 0), Arc(a).count)]
           dump == CHOOSE e : E(e)
<1>6. Dumped(c) = dump[Len(Layout)]
  BY DEF Dumped
<1>7. E(f)
  BY <1>5 DEF DumpTo
<1>8. E(dump)
  <2> HIDE DEF E
  <2> QED
    BY <1>7
<1> HIDE DEF dump
<1>9. DumpTo(c, Len(Layout), dump)
  BY <1>8 DEF DumpTo
<1> QED
  BY <1>6, <1>9

\* A call whose stream is at the end of archive a, the header for a = 0.
AtEnd(h, c, d, x, a) ==
    CallOK(h, c, d, x) /\ c.status = "OK" /\ c.stream.pos = PointsEnd(Layout)[a]

\* A read where the stream already stands, whatever it takes, succeeds.
LEMMA ReadHere ==
    ASSUME NEW h, NEW c, NEW d, NEW x, CallOK(h, c, d, x),
           NEW offset \in Nat, NEW n \in Nat, NEW r, r = ReadAt(c, offset, n),
           c.status = "OK", c.stream.pos = offset, n # 0
    PROVE  CallOK(h, r, d, x) /\ r.status = "OK" /\ r.stream.pos = offset + PointSize * n
<1>1. /\ CallOK(h, r, d, x)
      /\ r.status = "OK" => Brings(h, c, r, offset, n)
      /\ c.status = "OK" /\ c.stream.pos = offset /\ n # 0 => r.status = "OK"
  BY ReadAtOK
<1>2. r.status = "OK" /\ Brings(h, c, r, offset, n)
  BY <1>1
<1> QED
  BY <1>1, <1>2 DEF Brings

LEMMA DumpOK ==
    ASSUME NEW h, NEW c, NEW d, NEW x, AtEnd(h, c, d, x, 0)
    PROVE  Dumped(c).status = "OK"
<1>1. PICK f : DumpTo(c, Len(Layout), f) /\ Dumped(c) = f[Len(Layout)]
  BY DumpExists
<1>2. PICK N \in Nat : N = Len(Layout) /\ Arcs = 1 .. N
  BY ArcFacts
<1> DEFINE P == {a \in 0 .. N : AtEnd(h, f[a], d, x, a)}
<1>3. 0 \in P
  <2>1. f[0] = c
    BY <1>1, <1>2 DEF DumpTo
  <2> QED
    BY <2>1
<1>4. ASSUME NEW a \in 0 .. N - 1, a \in P PROVE a + 1 \in P
  <2>1. a + 1 \in Arcs /\ a + 1 \in 0 .. N /\ a + 1 # 0 /\ (a + 1) - 1 = a
    BY <1>2
  <2>2. f[a + 1] = ReadAt(f[a], Offset(a + 1, 0), Arc(a + 1).count)
    BY <2>1, <1>1, <1>2 DEF DumpTo
  <2>3. AtEnd(h, f[a], d, x, a)
    BY <1>4
  <2>4. /\ Offset(a + 1, 0) = PointsEnd(Layout)[a] + PointSize * 0
        /\ PointsEnd(Layout)[a] \in Nat
    BY <2>1, FirstSlot, OffsetFacts
  <2>5. PICK o \in Nat, n \in Nat : /\ o = PointsEnd(Layout)[a] /\ n = Arc(a + 1).count
                                   /\ n # 0
    BY <2>1, <2>4, ArcFacts
  <2>6. f[a + 1] = ReadAt(f[a], o, n)
    BY <2>2, <2>4, <2>5 DEF PointSize
  <2>7. PointsEnd(Layout)[a + 1] = o + PointSize * n
    <3>1. a + 1 \in 1 .. Len(Layout) /\ IsLayout(Layout)
      BY <2>1, <1>2, LayoutAssumption DEF IsLayout
    <3>2. PointsEnd(Layout)[a + 1]
             = PointsEnd(Layout)[(a + 1) - 1] + PointSize * Layout[a + 1].count
      BY <3>1, TableFacts
    <3> QED
      BY <3>2, <2>1, <2>5 DEF Arc
  <2>8. PICK r : r = f[a + 1]
    OBVIOUS
  <2>9. CallOK(h, r, d, x) /\ r.status = "OK" /\ r.stream.pos = o + PointSize * n
    <3>1. PICK y : y = f[a]
      OBVIOUS
    <3>2. CallOK(h, y, d, x) /\ y.status = "OK" /\ y.stream.pos = o
      BY <2>3, <2>5, <3>1 DEF AtEnd
    <3>3. n # 0
      BY <2>5
    <3>4. r = ReadAt(y, o, n)
      BY <2>6, <2>8, <3>1
    <3> QED
      BY <3>2, <3>3, <3>4, ReadHere
  <2>10. AtEnd(h, f[a + 1], d, x, a + 1)
    BY <2>7, <2>8, <2>9 DEF AtEnd
  <2> QED
    BY <2>1, <2>10
<1>5. \A a \in 0 .. N : a \in P
  <2> HIDE DEF P
  <2>1. 0 \in Int /\ N \in Int
    OBVIOUS
  <2> QED
    BY <2>1, <1>3, <1>4, UpTo
<1>6. N \in 0 .. N
  OBVIOUS
<1>7. AtEnd(h, f[N], d, x, N)
  BY <1>5, <1>6
<1> QED
  BY <1>1, <1>2, <1>7 DEF AtEnd

LEMMA OpenDumps ==
    ASSUME Inv, NEW h \in Handles, Open(h)
    PROVE  (Dumped(Begin(h)).status = "OK")'
<1> DEFINE c == Begun(disk', stored', streams'[h])
<1>1. /\ Inv'
      /\ streams'[h].pos = HeaderSize(Len(Layout))
      /\ StreamOK(h, disk', stored', streams'[h])
  BY OpenOK
<1>2. /\ CallOK(h, c, disk', stored') /\ c.status = "OK" /\ c.stream = streams'[h]
  BY <1>1, BegunOK DEF Inv
<1>3. PointsEnd(Layout)[0] = HeaderSize(Len(Layout))
  <2>1. EndsTo(Layout, Len(Layout), PointsEnd(Layout)) /\ 0 \in 0 .. Len(Layout)
    BY LayoutAssumption, EndsExist, ArcFacts DEF IsLayout
  <2> QED
    BY <2>1 DEF EndsTo
<1> HIDE DEF c
<1>4. Dumped(c).status = "OK"
  BY <1>1, <1>2, <1>3, DumpOK DEF AtEnd
<1> QED
  BY <1>4 DEF c, Begin, Begun

\* The header of an opened database ends where its first archive begins, and each
\* archive where the next one does, so that reads need no seek to take them in turn.
THEOREM OpenedDumps ==
    ASSUME NullDistinct
    PROVE  Spec => DumpsAfterOpen
<1>1. Init => Inv
  BY InitFile
<1>2. Inv /\ [Next]_vars => Inv'
  BY NextFile
<1>3. Inv /\ [Next]_vars
        => [\A h \in Handles : Open(h) => (Dumped(Begin(h)).status = "OK")']_vars
  BY OpenDumps
<1> QED
  BY <1>1, <1>2, <1>3, PTL DEF Spec, DumpsAfterOpen
=============================================================================
