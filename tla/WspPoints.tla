----------------------------- MODULE WspPoints -----------------------------
(***************************************************************************)
(* The arithmetic of one archive: how a timestamp becomes a slot of the    *)
(* ring of points, what wsp_write_points stores there and what             *)
(* wsp_fetch_points and wsp_fetch_time_points give back.                   *)
(*                                                                         *)
(* An archive is a record [spp, count] (seconds per point and number of    *)
(* points); its points are a function from the slots 0 .. count-1.  The    *)
(* code computes with uint32_t: Word stands for 2^32 and every unsigned    *)
(* operation that can leave the range is reduced with Wrap.                *)
(*                                                                         *)
(* In this and the other modules a definition Op_Slip is a faulty variant  *)
(* of Op, unused: put in its place, it must break a property.              *)
(***************************************************************************)
EXTENDS Integers, Sequences

CONSTANTS Word,  \* the number of values of a wsp_time_t / uint32_t
          NaN    \* the value of a point that holds no measurement

ASSUME WordAssumption == Word \in Nat /\ Word > 1 /\ Word % 2 = 0

\* A wsp_time_t: an unsigned number of seconds.
Timestamp == 0 .. Word - 1

\* The result of an unsigned operation, and its reading as a C int.
Wrap(n)   == n % Word
Signed(u) == IF u < Word \div 2 THEN u ELSE u - Word

Point(t, v) == [timestamp |-> t, value |-> v]

\* What a zero-filled slot parses to.
Blank == Point(0, 0)

TimeFloor(base, interval) == base - (base % interval)

Slots(arc)     == 0 .. arc.count - 1
Retention(arc) == arc.spp * arc.count

-----------------------------------------------------------------------------
(* Writing one point.                                                      *)

PointIndex_OffByOne(arc, base, floored) ==
    (Wrap(floored - base.timestamp) \div arc.spp + 1) % arc.count

\* The slot of a floored timestamp relative to the base point in slot 0.  The
\* subtraction is unsigned: for a point older than the base it wraps.
PointIndex(arc, base, floored) ==
    (Wrap(floored - base.timestamp) \div arc.spp) % arc.count

WriteIndex_LateToFront(arc, base, floored) ==
    IF base.timestamp # 0 /\ base.timestamp <= floored
    THEN PointIndex(arc, base, floored) ELSE 0

\* A base whose timestamp is 0 means that nothing has been written yet.
WriteIndex(arc, base, floored) ==
    IF base.timestamp # 0 THEN PointIndex(arc, base, floored) ELSE 0

\* __wsp_save_points refuses to write as many points as the archive holds.
CanSave(arc, length) == length < arc.count

WritePoint_Unfloored(arc, ring, t, v) ==
    [ring EXCEPT ![WriteIndex(arc, ring[0], TimeFloor(t, arc.spp))] = Point(t, v)]

\* wsp_write_points of the single point wsp_update_now gives it, for time t.
WritePoint(arc, ring, t, v) ==
    LET floored == TimeFloor(t, arc.spp)
    IN  [ring EXCEPT ![WriteIndex(arc, ring[0], floored)] = Point(floored, v)]

-----------------------------------------------------------------------------
(* Reading points.                                                         *)

PointMod_Magnitude(value, div) ==
    IF value < 0 THEN (-value) % div ELSE value % div

\* The code takes C's remainder and adds div to a negative one: TLA+'s %.
PointMod(value, div) == value % div

LoadPoints(ring, offset, size) == [i \in 1 .. size |-> ring[offset + i - 1]]

FetchReadPoints_Swapped(arc, ring, from, until, n) ==
    IF from # 0 /\ until <= from
    THEN LoadPoints(ring, 0, until) \o LoadPoints(ring, from, arc.count - from)
    ELSE LoadPoints(ring, from, n)

\* One load, or two when the range wraps around the end of the ring.
FetchReadPoints(arc, ring, from, until, n) ==
    IF from # 0 /\ until <= from
    THEN LoadPoints(ring, from, arc.count - from) \o LoadPoints(ring, 0, until)
    ELSE LoadPoints(ring, from, n)

FilterPoints_Unchecked(base, arc, offset, points) ==
    LET counter(i) == Wrap(base.timestamp + arc.spp * (offset + i - 1))
    IN  [i \in DOMAIN points |->
            IF points[i].timestamp # 0
            THEN Point(counter(i), points[i].value)
            ELSE Point(counter(i), NaN)]

\* Points of another lap, and slots never written, come back as NaN.
FilterPoints(base, arc, offset, points) ==
    LET counter(i) == Wrap(base.timestamp + arc.spp * (offset + i - 1))
    IN  [i \in DOMAIN points |->
            IF points[i].timestamp = counter(i)
            THEN points[i]
            ELSE Point(counter(i), NaN)]

Capped(n, limit) == IF n >= limit THEN limit ELSE n

\* wsp_fetch_points with the base point it has loaded before the others.
FetchPointsFrom(arc, base, ring, offset, size) ==
    LET n     == Capped(size, arc.count)
        from  == PointMod(offset, arc.count)
        until == PointMod(Signed(Wrap(offset + n)), arc.count)
    IN  FilterPoints(base, arc, offset, FetchReadPoints(arc, ring, from, until, n))

FetchPoints(arc, ring, offset, size) ==
    FetchPointsFrom(arc, ring[0], ring, offset, size)

FetchTimePoints_Exclusive(arc, ring, time_from, time_until) ==
    LET from   == TimeFloor(time_from, arc.spp) \div arc.spp
        until  == TimeFloor(time_until, arc.spp) \div arc.spp
        offset == Signed(Wrap(from - ring[0].timestamp \div arc.spp))
    IN  FetchPoints(arc, ring, offset, Capped(Wrap(until - from), arc.count))

\* Points between two times, from no later than until (the code reports
\* WSP_ERROR_TIME_INTERVAL otherwise).
FetchTimePoints(arc, ring, time_from, time_until) ==
    LET from   == TimeFloor(time_from, arc.spp) \div arc.spp
        until  == TimeFloor(time_until, arc.spp) \div arc.spp
        offset == Signed(Wrap(from - ring[0].timestamp \div arc.spp))
    IN  FetchPoints(arc, ring, offset,
                    Capped(Wrap(until - from + 1), arc.count))
=============================================================================
