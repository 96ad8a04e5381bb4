----------------------------- MODULE WspUpdate -----------------------------
(***************************************************************************)
(* wsp_update_many / wsp_update_now on a database with several archives,   *)
(* mapped (WSP_MMAP) by one or more writer processes.  A point goes to the *)
(* first archive whose retention covers its age; each coarser archive then *)
(* gets an aggregate read back from the one before it.  Nothing is locked: *)
(* every load and every store of points is a step of its own, and between  *)
(* two of them other writers run, time passes, or the process dies.  What  *)
(* a process has stored in the shared mapping outlives it.                 *)
(***************************************************************************)
EXTENDS WspAggregate

CONSTANTS Archives,      \* sequence of [spp, count], finest first
          InitialRings,  \* their points at first, one ring per archive
          Writers,       \* processes that have the database open
          Inputs,        \* the points they submit: [timestamp, value]
          Stored,        \* values an archive can hold: theirs, aggregates, NaN
          Junk,          \* what uninitialised stack memory may hold as a value
          MaxBatch,      \* bound on the points of one wsp_update_many
          MinNow, MaxNow \* what the clock says at first, and its bound

\* What wsp_create and __wsp_valid_archive admit.
ArchivesAssumption ==
    /\ Archives \in Seq([spp : Nat \ {0}, count : Nat \ {0}])
    /\ \A l \in 2 .. Len(Archives) :
         /\ Archives[l].spp > Archives[l - 1].spp
         /\ Archives[l].spp % Archives[l - 1].spp = 0
         /\ Archives[l].count % Archives[l - 1].count = 0

\* No timestamp is floored to 0, which would not be valid.
InputsAssumption ==
    \A p \in Inputs :
        /\ p.timestamp \in Timestamp
        /\ \A l \in DOMAIN Archives : p.timestamp >= Archives[l].spp

ASSUME UpdateAssumption == ArchivesAssumption /\ InputsAssumption

VARIABLES rings,  \* rings[l]: the points of archive l, in the shared mapping
          now,    \* the system clock
          pc,     \* pc[w]: what writer w does next
          upd     \* upd[w]: the local variables of its wsp_update_* frames

vars == <<rings, now, pc, upd>>

Levels == 1 .. Len(Archives)

Times == {p.timestamp : p \in Inputs}

\* The frames of a writer between two calls, status telling how the last ended.
Idle(status) ==
    [clock |-> 0, todo |-> <<>>, time |-> 0, low |-> 0, level |-> 0,
     value |-> 0, base |-> 0, bucketBase |-> 0, window |-> <<>>,
     wrote |-> {}, status |-> status]

Init ==
    /\ rings = InitialRings
    /\ now = MinNow
    /\ pc = [w \in Writers |-> "idle"]
    /\ upd = [w \in Writers |-> Idle("OK")]

Go(w, label, locals) ==
    /\ pc' = [pc EXCEPT ![w] = label]
    /\ upd' = [upd EXCEPT ![w] = locals]

Finish(w, status) == Go(w, "idle", Idle(status))

-----------------------------------------------------------------------------
(* wsp_update_many: the clock is read once, the points are taken in order  *)
(* and the first failure ends the call.  wsp_update is a batch of one.     *)

Batches == UNION {[1 .. n -> Inputs] : n \in 1 .. MaxBatch}

Call(w) ==
    /\ pc[w] = "idle"
    /\ \E batch \in Batches :
         Go(w, "next", [Idle("running") EXCEPT !.clock = now, !.todo = batch])
    /\ UNCHANGED <<rings, now>>

\* max_retention as wsp_create computes it for the header.
MaxRetention == Max({Retention(Archives[l]) : l \in Levels})

Reaching_Intervals(diff) ==
    {l \in Levels : Retention(Archives[l]) >= diff \div Archives[l].spp}

\* __wsp_find_highest_precision: the archives that reach back far enough.
Reaching(diff) == {l \in Levels : Retention(Archives[l]) >= diff}

\* Why wsp_update_now refuses a point before it touches an archive.
Refusal(clock, t) ==
    IF t > clock THEN "FUTURE_TIMESTAMP"
    ELSE IF clock - t >= MaxRetention THEN "RETENTION"
    ELSE IF Reaching(clock - t) = {} THEN "ARCHIVE"
    ELSE "none"

NextPoint(w) ==
    LET u == upd[w]
        p == Head(u.todo)
    IN  /\ pc[w] = "next"
        /\ u.todo # <<>>
        /\ Refusal(u.clock, p.timestamp) = "none"
        /\ LET low == Min(Reaching(u.clock - p.timestamp))
           IN  Go(w, "loadBase",
                  [u EXCEPT !.todo = Tail(@), !.time = p.timestamp,
                            !.value = p.value, !.low = low, !.level = low,
                            !.wrote = {}])
        /\ UNCHANGED <<rings, now>>

RefusePoint(w) ==
    LET u == upd[w]
    IN  /\ pc[w] = "next"
        /\ u.todo # <<>>
        /\ Refusal(u.clock, Head(u.todo).timestamp) # "none"
        /\ Finish(w, Refusal(u.clock, Head(u.todo).timestamp))
        /\ UNCHANGED <<rings, now>>

Return(w) ==
    /\ pc[w] = "next"
    /\ upd[w].todo = <<>>
    /\ Finish(w, "OK")
    /\ UNCHANGED <<rings, now>>

-----------------------------------------------------------------------------
(* wsp_write_points on the current archive, with a length of 1.            *)

LoadBase_OfFinest(w) ==
    LET u == upd[w]
    IN  /\ pc[w] = "loadBase"
        /\ Go(w, IF CanSave(Archives[u.level], 1) THEN "save" ELSE "idle",
              [u EXCEPT !.base = rings[u.low][0].timestamp])
        /\ UNCHANGED <<rings, now>>

LoadBase_StoreFirst(w) ==
    LET u   == upd[w]
        arc == Archives[u.level]
    IN  /\ pc[w] = "loadBase"
        /\ IF CanSave(arc, 1)
           THEN /\ Go(w, "save", [u EXCEPT !.base = rings[u.level][0].timestamp])
                /\ UNCHANGED rings
           ELSE /\ Go(w, "idle", [Idle("POINT_OOB") EXCEPT !.wrote = {u.level}])
                /\ rings' = [rings EXCEPT ![u.level] =
                                WritePoint(arc, @, u.time, u.value)]
        /\ UNCHANGED now

\* Load the base point; __wsp_save_points may then refuse the write.
LoadBase(w) ==
    LET u == upd[w]
    IN  /\ pc[w] = "loadBase"
        /\ IF CanSave(Archives[u.level], 1)
           THEN Go(w, "save", [u EXCEPT !.base = rings[u.level][0].timestamp])
           ELSE Go(w, "idle", [Idle("POINT_OOB") EXCEPT !.wrote = u.wrote])
        /\ UNCHANGED <<rings, now>>

SavePoint_Unfloored(w) ==
    LET u    == upd[w]
        slot == WriteIndex(Archives[u.level], Point(u.base, 0),
                           TimeFloor(u.time, Archives[u.level].spp))
        done == [u EXCEPT !.wrote = @ \cup {u.level}]
    IN  /\ pc[w] = "save"
        /\ rings' = [rings EXCEPT ![u.level][slot] = Point(u.time, u.value)]
        /\ IF u.level = Len(Archives)
           THEN Go(w, "next", [done EXCEPT !.base = 0])
           ELSE Go(w, "fetchBase", [done EXCEPT !.level = @ + 1])
        /\ UNCHANGED now

\* Store the point at the slot computed from the base loaded before; the next
\* coarser archive is up, unless this was the last one.
SavePoint(w) ==
    LET u       == upd[w]
        arc     == Archives[u.level]
        floored == TimeFloor(u.time, arc.spp)
        slot    == WriteIndex(arc, Point(u.base, 0), floored)
        done    == [u EXCEPT !.wrote = @ \cup {u.level}]
    IN  /\ pc[w] = "save"
        /\ rings' = [rings EXCEPT ![u.level][slot] = Point(floored, u.value)]
        /\ IF u.level = Len(Archives)
           THEN Go(w, "next", [done EXCEPT !.base = 0])
           ELSE Go(w, "fetchBase", [done EXCEPT !.level = @ + 1])
        /\ UNCHANGED now

-----------------------------------------------------------------------------
(* wsp_aggregate_value: fetch the points of the finer archive that the     *)
(* point of the current one stands for, and aggregate them.                *)

PrevArc(u)   == Archives[u.level - 1]

PrevIndex_OfPoint(u) ==
    PointIndex(PrevArc(u), Point(u.base, 0), TimeFloor(u.time, PrevArc(u).spp))

PrevIndex(u) ==
    PointIndex(PrevArc(u), Point(u.base, 0), TimeFloor(u.time, Archives[u.level].spp))
PrevCount(u) == Archives[u.level].spp \div PrevArc(u).spp

\* wsp_fetch_points loads the base again ...
FetchBase(w) ==
    LET u == upd[w]
    IN  /\ pc[w] = "fetchBase"
        /\ Go(w, "fetch", [u EXCEPT !.bucketBase = rings[u.level - 1][0].timestamp])
        /\ UNCHANGED <<rings, now>>

\* ... and then the points: never more than the archive holds, the rest of
\* prev_points[] stays as it was on the stack.
FetchWindow(w) ==
    LET u       == upd[w]
        fetched == FetchPointsFrom(PrevArc(u), Point(u.bucketBase, 0),
                                   rings[u.level - 1], PrevIndex(u), PrevCount(u))
    IN  /\ pc[w] = "fetch"
        /\ \E junk \in [Len(fetched) + 1 .. PrevCount(u) -> Junk] :
             Go(w, "aggregate",
                [u EXCEPT !.bucketBase = 0,
                          !.window = [i \in 1 .. PrevCount(u) |->
                              IF i <= Len(fetched) THEN fetched[i]
                              ELSE Point(0, junk[i])]])
        /\ UNCHANGED <<rings, now>>

AggregateValue_Retry(w) ==
    LET u == upd[w]
        a == Aggregate(u.window)
    IN  /\ pc[w] = "aggregate"
        /\ IF a.skip
           THEN Go(w, "fetchBase", [u EXCEPT !.window = <<>>])
           ELSE Go(w, "loadBase",
                   [u EXCEPT !.base = 0, !.window = <<>>, !.value = a.value])
        /\ UNCHANGED <<rings, now>>

\* Too few points known: the update ends here, successfully.
AggregateValue(w) ==
    LET u == upd[w]
        a == Aggregate(u.window)
    IN  /\ pc[w] = "aggregate"
        /\ IF a.skip
           THEN Go(w, "next", [u EXCEPT !.base = 0, !.window = <<>>])
           ELSE Go(w, "loadBase",
                   [u EXCEPT !.base = 0, !.window = <<>>, !.value = a.value])
        /\ UNCHANGED <<rings, now>>

-----------------------------------------------------------------------------
\* The process dies between two of its steps: its frames are gone, what it has
\* stored in the mapping stays.  It may be started again and call anew.
Crash(w) ==
    /\ pc[w] # "idle"
    /\ Finish(w, "crashed")
    /\ UNCHANGED <<rings, now>>

Tick ==
    /\ now < MaxNow
    /\ now' = now + 1
    /\ UNCHANGED <<rings, pc, upd>>

Step(w) ==
    \/ NextPoint(w) \/ RefusePoint(w) \/ Return(w)
    \/ LoadBase(w) \/ SavePoint(w)
    \/ FetchBase(w) \/ FetchWindow(w) \/ AggregateValue(w)

Next ==
    \/ \E w \in Writers : Call(w) \/ Step(w) \/ Crash(w)
    \/ Tick

Spec == Init /\ [][Next]_vars

\* A process that is in a call keeps running until it returns or dies; nobody
\* is obliged to call, to die, or to let time pass.
FairSpec == Spec /\ \A w \in Writers : WF_vars(Step(w))
-----------------------------------------------------------------------------
Labels == {"idle", "next", "loadBase", "save", "fetchBase", "fetch", "aggregate"}

Statuses == {"OK", "running", "crashed",
             "FUTURE_TIMESTAMP", "RETENTION", "ARCHIVE", "POINT_OOB"}

\* Every stored point carries a multiple of its archive's interval and a value
\* the callers submitted or an aggregation made of those.
TypeOK ==
    /\ \A l \in Levels :
         /\ DOMAIN rings[l] = Slots(Archives[l])
         /\ \A i \in Slots(Archives[l]) :
              /\ rings[l][i].timestamp % Archives[l].spp = 0
              /\ rings[l][i].value \in Stored \cup {0}
    /\ now \in MinNow .. MaxNow
    /\ pc \in [Writers -> Labels]
    /\ \A w \in Writers :
         /\ upd[w].status \in Statuses
         /\ upd[w].status = "running" <=> pc[w] # "idle"
         /\ upd[w].value \in Stored \cup {0}
         /\ upd[w].wrote \subseteq Levels

\* In every archive the point in slot i is i intervals after the base, give or
\* take whole laps, whatever writers do to slot 0 between another writer's load
\* of the base and its store (wsp_write_points).
RingsAligned ==
    \A l \in Levels : \A i \in Slots(Archives[l]) :
        rings[l][i].timestamp # 0 =>
            /\ rings[l][0].timestamp # 0
            /\ (rings[l][i].timestamp - rings[l][0].timestamp
                    - i * Archives[l].spp) % Retention(Archives[l]) = 0

\* An update that reports an error has stored nothing, in no archive: "on
\* failure, all functions are doing their best to be atomic" (wsp.h).  The one
\* error raised after the first archive has been reached is POINT_OOB.  (Of a mapped
\* database; through WSP_FILE reads fail as well: FailedStoresNothing of WspFileIo.)
FailedUpdateAtomic ==
    \A w \in Writers :
        upd[w].status \notin {"OK", "running", "crashed"} => upd[w].wrote = {}

\* When a lone writer's update is over, each archive it reached returns a point
\* for the update's time, and the last one the value computed for it.
Landed ==
    \A w \in Writers :
        LET u == upd[w]
        IN  pc[w] = "next" /\ u.wrote # {} =>
              /\ u.wrote = u.low .. Max(u.wrote)
              /\ \A l \in u.wrote :
                   LET got == FetchTimePoints(Archives[l], rings[l], u.time, u.time)
                   IN  /\ \E i \in Slots(Archives[l]) : got = <<rings[l][i]>>
                       /\ l = Max(u.wrote) => got[1].value = u.value

\* The points of the finer archive that the point about to be computed covers,
\* as a reader would fetch them.
Bucket(u) ==
    LET from == TimeFloor(u.time, Archives[u.level].spp)
    IN  FetchTimePoints(PrevArc(u), rings[u.level - 1],
                        from, from + Archives[u.level].spp - 1)

\* The bucket starts in the lap that begins with the finer archive's base.
InCurrentLap(u) ==
    LET from == TimeFloor(u.time, Archives[u.level].spp)
        base == rings[u.level - 1][0].timestamp
    IN  base <= from /\ from < base + Retention(PrevArc(u))

\* The window wsp_aggregate_value hands to the aggregation function is the
\* bucket itself, provided the finer archive had a base before this update and
\* the bucket starts in its current lap.  (What happens otherwise is the
\* subject of ChangePropagates.)
WindowExact ==
    \A w \in Writers :
        LET u == upd[w]
        IN  pc[w] = "aggregate" /\ u.base # 0 /\ InCurrentLap(u)
                => u.window = Bucket(u)

\* In any lap, the points that go into an aggregate lie whole laps of the finer
\* archive from the bucket: what comes from elsewhere comes from the same place.
WindowInPlace ==
    \A w \in Writers :
        LET u    == upd[w]
            from == TimeFloor(u.time, Archives[u.level].spp)
        IN  pc[w] = "aggregate" =>
              \A i \in DOMAIN u.window :
                u.window[i].value # NaN =>
                    (u.window[i].timestamp - from) % Retention(PrevArc(u))
                        < Archives[u.level].spp

\* "Propagate changes to lower precision archive" (wsp_update_now): the point just
\* stored is among those that are aggregated for the next archive.
ChangePropagates ==
    \A w \in Writers :
        LET u       == upd[w]
            floored == TimeFloor(u.time, PrevArc(u).spp)
        IN  pc[w] = "aggregate" =>
                \E i \in DOMAIN u.window : u.window[i] = Point(floored, u.value)

\* A store replaces an empty slot or a point that is at most one retention newer
\* than the point stored: the age check of wsp_update_now lets no update reach
\* further into the present of an archive.
OverwriteBounded ==
    [][\A l \in Levels : \A i \in Slots(Archives[l]) :
         rings'[l][i] # rings[l][i] /\ rings[l][i].timestamp # 0 =>
             rings[l][i].timestamp
                 <= rings'[l][i].timestamp + Retention(Archives[l])]_rings

\* Each archive by itself is a round-robin table: all that ever happens to it is
\* that what a writer is about to store is inserted, in the place of the point
\* whole retentions away and no other, even when the base moved between the
\* writer's load and its store.
Table(l) ==
    LET arc == Archives[l]
    IN  [r \in Slots(arc) |->
            IF rings[l][0].timestamp = 0 THEN Blank
            ELSE rings[l][(r - rings[l][0].timestamp \div arc.spp) % arc.count]]

RR(l) == INSTANCE RoundRobin
         WITH Spp <- Archives[l].spp, Count <- Archives[l].count,
              Values <- Stored, Empty <- Blank, table <- Table(l)

ArchivesRoundRobin ==
    [][\A l \in Levels :
         Table(l)' # Table(l) =>
             \E w \in Writers :
                /\ pc[w] = "save" /\ upd[w].level = l
                /\ RR(l)!Insert(upd[w].time, upd[w].value)]_rings

\* A call that is not cut short returns: no chain of archives, skipped aggregate
\* or refused point keeps wsp_update_many from finishing its batch.
CallReturns == \A w \in Writers : pc[w] # "idle" ~> pc[w] = "idle"
=============================================================================
