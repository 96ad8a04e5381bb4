----------------------------- MODULE WspReader -----------------------------
(***************************************************************************)
(* Readers beside a writer: wsp_fetch_time_points on the mapping that      *)
(* WspUpdate writes to, load by load.  A fetch takes the base twice, first *)
(* for the offset, then for the timestamps it expects, and after that the  *)
(* points one by one, straight from the mapping.                           *)
(*                                                                         *)
(* A store copies twelve bytes and a load parses them where they are, so   *)
(* that both take their two fields apart: a store may be half done for a   *)
(* reader, and after the death of the writer, and may come between the     *)
(* loads of the two fields of one point.  A field is stored and loaded     *)
(* whole.                                                                  *)
(***************************************************************************)
EXTENDS WspUpdate

CONSTANTS Readers,
          Requests,  \* what they ask for: archive and interval, [level, from, until]
          NULL

\* The code refuses an interval that ends before it begins.
ASSUME RequestsAssumption ==
    \A q \in Requests :
        /\ q.level \in Levels
        /\ q.from \in Timestamp /\ q.until \in Timestamp
        /\ q.from <= q.until

\* Torn stores of one writer; several would tear one another's.
ASSUME OneWriterAssumption == \E w \in Writers : Writers = {w}

VARIABLES half,    \* half[w]: is a store of w half done?
          torn,    \* the slots <<archive, slot>> that hold halves of two points
          fetches  \* the fetch every reader is in, NULL if none

readerVars == <<rings, now, pc, upd, half, torn, fetches>>

ReaderInit ==
    /\ Init
    /\ half = [w \in Writers |-> FALSE]
    /\ torn = {}
    /\ fetches = [r \in Readers |-> NULL]

-----------------------------------------------------------------------------
(* The writer.                                                             *)

\* Where w stores its point.
Target(w) ==
    LET u   == upd[w]
        arc == Archives[u.level]
    IN  <<u.level, WriteIndex(arc, Point(u.base, 0), TimeFloor(u.time, arc.spp))>>

Interval_Exclusive(f) ==
    LET arc   == Archives[f.level]
        from  == TimeFloor(f.from, arc.spp) \div arc.spp
        until == TimeFloor(f.until, arc.spp) \div arc.spp
    IN  [offset |-> Signed(Wrap(from - f.base \div arc.spp)),
         count  |-> Capped(Wrap(until - from), arc.count)]

\* The points to fetch, by the base that wsp_fetch_time_points has loaded.
Interval(f) ==
    LET arc   == Archives[f.level]
        from  == TimeFloor(f.from, arc.spp) \div arc.spp
        until == TimeFloor(f.until, arc.spp) \div arc.spp
    IN  [offset |-> Signed(Wrap(from - f.base \div arc.spp)),
         count  |-> Capped(Wrap(until - from + 1), arc.count)]

\* The slot of the n-th of them: from the first on, around the end of the ring.
SlotOf(f, n) == PointMod(Interval(f).offset + n - 1, Archives[f.level].count)

\* A store to slot i comes between the loads of the two fields of a point there.
Between(f, i) == f.at = "rest" /\ SlotOf(f, Len(f.points)) = i

\* Fetches of archive l know from now on that slot i has not been left alone.
Touch(l, i) ==
    fetches' = [r \in Readers |->
        IF fetches[r] # NULL /\ fetches[r].level = l
        THEN [fetches[r] EXCEPT
                 !.kept  = @ \ {i},
                 !.dirty = IF Between(fetches[r], i)
                           THEN @ \cup {Len(fetches[r].points)} ELSE @]
        ELSE fetches[r]]

\* One field of the point is in its place, the other one still to come.
SaveHalf(w) ==
    LET l == Target(w)[1]
        i == Target(w)[2]
    IN  /\ pc[w] = "save"
        /\ ~ half[w]
        /\ \/ rings' = [rings EXCEPT ![l][i].timestamp =
                            TimeFloor(upd[w].time, Archives[l].spp)]
           \/ rings' = [rings EXCEPT ![l][i].value = upd[w].value]
        /\ half' = [half EXCEPT ![w] = TRUE]
        /\ torn' = torn \cup {<<l, i>>}
        /\ Touch(l, i)
        /\ UNCHANGED <<now, pc, upd>>

SaveRest_Short(w) ==
    LET u       == upd[w]
        i       == Target(w)[2]
        floored == TimeFloor(u.time, Archives[u.level].spp)
    IN  /\ half[w]
        /\ pc[w] = "save"
        /\ rings' = [rings EXCEPT ![u.level][i].timestamp = floored]
        /\ Go(w, "next", [u EXCEPT !.base = 0, !.wrote = @ \cup {u.level}])
        /\ half' = [half EXCEPT ![w] = FALSE]
        /\ torn' = torn \ {Target(w)}
        /\ Touch(u.level, i)
        /\ UNCHANGED now

SaveRest(w) ==
    /\ half[w]
    /\ SavePoint(w)
    /\ half' = [half EXCEPT ![w] = FALSE]
    /\ torn' = torn \ {Target(w)}
    /\ Touch(Target(w)[1], Target(w)[2])

\* What was stored by halves stays so until the slot is written again.
Die(w) ==
    /\ Crash(w)
    /\ half' = [half EXCEPT ![w] = FALSE]
    /\ UNCHANGED <<torn, fetches>>

Write(w) ==
    \/ SaveHalf(w) \/ SaveRest(w) \/ Die(w)
    \/ /\ Call(w) \/ NextPoint(w) \/ RefusePoint(w) \/ Return(w) \/ LoadBase(w)
          \/ FetchBase(w) \/ FetchWindow(w) \/ AggregateValue(w)
       /\ UNCHANGED <<half, torn, fetches>>

-----------------------------------------------------------------------------
(* A reader.                                                               *)

\* wsp_fetch_time_points loads the base, which with the request gives Interval.
FetchTime(r) ==
    /\ fetches[r] = NULL
    /\ \E q \in Requests :
         fetches' = [fetches EXCEPT ![r] =
             [at |-> "base", level |-> q.level, from |-> q.from, until |-> q.until,
              base |-> rings[q.level][0].timestamp, base2 |-> 0,
              points |-> <<>>, dirty |-> {}, kept |-> Slots(Archives[q.level])]]
    /\ UNCHANGED <<rings, now, pc, upd, half, torn>>

\* wsp_fetch_points loads the base again, to label the points by.
FetchBase2(r) ==
    LET f == fetches[r]
    IN  /\ f # NULL
        /\ f.at = "base"
        /\ fetches' = [fetches EXCEPT
               ![r].at = "points", ![r].base2 = rings[f.level][0].timestamp]
        /\ UNCHANGED <<rings, now, pc, upd, half, torn>>

\* __wsp_fetch_read_points comes to the next slot.  __wsp_parse_point loads one field
\* of the point, either; the other one is, for the time being, what it is now.
LoadHalf(r) ==
    LET f    == fetches[r]
        n    == Len(f.points) + 1
        slot == SlotOf(f, n)
    IN  /\ f # NULL
        /\ f.at = "points"
        /\ n <= Interval(f).count
        /\ fetches' = [fetches EXCEPT ![r] =
               [f EXCEPT !.at     = "rest",
                         !.points = Append(@, rings[f.level][slot]),
                         !.dirty  = IF <<f.level, slot>> \in torn
                                    THEN @ \cup {n} ELSE @]]
        /\ UNCHANGED <<rings, now, pc, upd, half, torn>>

\* The other field is loaded.
LoadRest(r) ==
    LET f == fetches[r]
        n == Len(f.points)
    IN  /\ f # NULL
        /\ f.at = "rest"
        /\ \E p \in
               {[f.points[n] EXCEPT !.value     = rings[f.level][SlotOf(f, n)].value],
                [f.points[n] EXCEPT !.timestamp = rings[f.level][SlotOf(f, n)].timestamp]} :
             fetches' = [fetches EXCEPT ![r] =
                 [f EXCEPT !.at = "points", !.points = [@ EXCEPT ![n] = p]]]
        /\ UNCHANGED <<rings, now, pc, upd, half, torn>>

Returning(r) ==
    /\ fetches[r] # NULL
    /\ fetches[r].at = "points"
    /\ Len(fetches[r].points) = Interval(fetches[r]).count

\* The points are filtered and returned; the reader may call again.
Done(r) ==
    /\ Returning(r)
    /\ fetches' = [fetches EXCEPT ![r] = NULL]
    /\ UNCHANGED <<rings, now, pc, upd, half, torn>>

Read(r) == FetchTime(r) \/ FetchBase2(r) \/ LoadHalf(r) \/ LoadRest(r) \/ Done(r)

ReaderNext ==
    \/ \E w \in Writers : Write(w)
    \/ \E r \in Readers : Read(r)
    \/ Tick /\ UNCHANGED <<half, torn, fetches>>

ReaderSpec == ReaderInit /\ [][ReaderNext]_readerVars

-----------------------------------------------------------------------------
\* What a fetch with all its points returns.
Result(f) ==
    FilterPoints(Point(f.base2, 0), Archives[f.level], Interval(f).offset, f.points)

\* The time a fetch was asked for at position i.
Wanted(f, i) ==
    LET spp == Archives[f.level].spp
    IN  TimeFloor(f.from, spp) + (i - 1) * spp

\* The points a fetch returns are labelled with the times it was asked for when
\* both loads of the base agree, and with times whole laps away when a writer
\* has replaced the base in between, unless the archive was empty before.
LabelsInPlace ==
    \A r \in Readers :
        Returning(r) =>
            LET f == fetches[r]
            IN  \A i \in DOMAIN f.points :
                  LET t == Result(f)[i].timestamp
                  IN  /\ f.base = f.base2 => t = Wanted(f, i)
                      /\ f.base # 0 =>
                           (t - Wanted(f, i)) % Retention(Archives[f.level]) = 0

\* A value that a fetch returns was submitted for the time it is labelled with,
\* whatever the writer does meanwhile, unless the slot it was taken from was half
\* stored when the load began, or was stored to between the loads of its timestamp
\* and its value (__wsp_parse_point on the mapping, __wsp_io_read__mmap): those two
\* are all that mixes points.  (In the finest archive, of points whose values are
\* their times.)
ValuesGenuine ==
    \A r \in Readers :
        Returning(r) /\ fetches[r].level = 1 =>
            LET f == fetches[r]
            IN  \A i \in DOMAIN f.points \ f.dirty :
                  LET p == Result(f)[i]
                  IN  p.value # NaN =>
                        TimeFloor(p.value, Archives[1].spp) = p.timestamp

\* A point of the interval (of as much of it as the archive can hold) whose slot
\* nobody stores to during the fetch is returned, provided both loads of the base
\* agree.
NoneMissed ==
    \A r \in Readers :
        Returning(r) /\ fetches[r].base = fetches[r].base2 =>
            LET f   == fetches[r]
                arc == Archives[f.level]
            IN  \A s \in f.kept :
                  LET p == rings[f.level][s]
                  IN  p.timestamp \in Wanted(f, 1) ..
                          Capped(f.until, Wanted(f, 1) + Retention(arc) - 1)
                      => \E i \in DOMAIN f.points : Result(f)[i] = p

\* A slot is torn only while a store to it is under way, or after the death of a
\* writer; the other slots hold whole points.  Fetches hold what Interval allows.
ReaderTypeOK ==
    /\ \A w \in Writers : half[w] => pc[w] = "save" /\ Target(w) \in torn
    /\ \A c \in torn : c[1] \in Levels /\ c[2] \in Slots(Archives[c[1]])
    /\ \A r \in Readers : fetches[r] # NULL =>
         /\ fetches[r].at \in {"base", "points", "rest"}
         /\ fetches[r].dirty \subseteq DOMAIN fetches[r].points
         /\ Len(fetches[r].points) <= Archives[fetches[r].level].count
    /\ \A i \in Slots(Archives[1]) :
         <<1, i>> \notin torn /\ rings[1][i].timestamp # 0 =>
             Point(rings[1][i].timestamp, rings[1][i].value)
                 \in {Point(TimeFloor(p.timestamp, Archives[1].spp), p.value) : p \in Inputs}
=============================================================================
