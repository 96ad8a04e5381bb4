---------------------------- MODULE WspArchive ----------------------------
(***************************************************************************)
(* One archive and the points written to it: the ring wsp_write_points     *)
(* maintains and wsp_fetch_time_points reads.  The slot of a point depends *)
(* on the base point, whose own slot is overwritten once per lap; nothing  *)
(* but the timestamps in the slots tells laps apart.                       *)
(***************************************************************************)
EXTENDS WspPoints

CONSTANTS Spp, Count,     \* the archive
          Times,          \* timestamps of the points written and read
          Values,         \* their values
          InitialPoints,  \* what the slots hold when the archive is created
          Backfill        \* may a point older than the base be written?

ASSUME ArchiveAssumption == Spp \in Nat \ {0} /\ Count \in Nat \ {0, 1}

\* A floored timestamp 0 is not valid (the comment in wsp_write_points), and
\* fetch reads a distance between two times as an int.
ASSUME TimesAssumption == Times \subseteq Spp .. (Word \div 2) - 1

\* What an archive is created with is at least read as points.
ASSUME InitialAssumption == \A p \in InitialPoints : p.timestamp \in Timestamp

ASSUME BackfillAssumption == Backfill \in BOOLEAN

VARIABLE slots

Arc == [spp |-> Spp, count |-> Count]

Init == slots \in [Slots(Arc) -> InitialPoints]

\* wsp_write_points with one point.
WritePoints(t, v) ==
    /\ Backfill \/ slots[0].timestamp <= TimeFloor(t, Spp)
    /\ CanSave(Arc, 1)
    /\ slots' = WritePoint(Arc, slots, t, v)

Next == \E t \in Times, v \in Values : WritePoints(t, v)

Spec == Init /\ [][Next]_slots

-----------------------------------------------------------------------------
\* Every slot holds what the archive was created with or a point written since,
\* its timestamp rounded down to a multiple of the interval.
TypeOK ==
    slots \in [Slots(Arc) ->
                 InitialPoints \cup
                 {Point(t - (t % Spp), v) : t \in Times, v \in Values}]

\* The point in slot i is i intervals after the base, give or take whole laps:
\* without it wsp_fetch_points looks for a point where wsp_point_index did not
\* put it.  Overwriting the base must preserve it for all other slots.
RingAligned ==
    \A i \in Slots(Arc) :
        slots[i] # Blank =>
            /\ slots[0] # Blank
            /\ (slots[i].timestamp - slots[0].timestamp - i * Spp)
                   % (Spp * Count) = 0

\* A fetch of any interval returns, in order, one point per interval of spp
\* seconds, at most Count of them, each with the value some slot holds for that
\* very timestamp and NaN when none does: no point of an earlier lap shows up
\* and no stored point is missed, whatever the wrap-around.
FetchExact ==
    \A from, until \in Times :
        from <= until =>
            LET got    == FetchTimePoints(Arc, slots, from, until)
                wanted == (until \div Spp) - (from \div Spp) + 1
            IN  /\ Len(got) = Capped(wanted, Count)
                /\ \A i \in 1 .. Len(got) :
                     LET t    == TimeFloor(from, Spp) + (i - 1) * Spp
                         held == {s \in Slots(Arc) : slots[s].timestamp = t}
                     IN  /\ got[i].timestamp = t
                         /\ IF held = {}
                            THEN got[i].value = NaN
                            ELSE \E s \in held : got[i].value = slots[s].value

\* A point that was just written is what a fetch of its time returns.
ReadBackStep(t, v) ==
    FetchTimePoints(Arc, slots, t, t)' = <<Point(TimeFloor(t, Spp), v)>>

ReadBack ==
    [][\A t \in Times, v \in Values : WritePoints(t, v) => ReadBackStep(t, v)]_slots

\* Seen from outside, the archive is the round-robin table of RoundRobin: a
\* write replaces the point one or more whole retentions away and no other.
Table ==
    [r \in Slots(Arc) |->
        IF slots[0] = Blank THEN Blank
        ELSE slots[(r - slots[0].timestamp \div Spp) % Count]]

RR == INSTANCE RoundRobin WITH table <- Table, Empty <- Blank

RefinesRoundRobin == RR!Spec
=============================================================================
