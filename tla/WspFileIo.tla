----------------------------- MODULE WspFileIo -----------------------------
(***************************************************************************)
(* Points through WSP_FILE: every handle reads and writes the database     *)
(* with a stdio stream of its own.  Reads take the stream's position to be *)
(* the offset wanted and fail otherwise, only writes seek.  The stream     *)
(* keeps what it has read ahead and the store it has not written yet; what *)
(* other streams and processes see is the file.                            *)
(*                                                                         *)
(* Streams are those of the GNU C library.  A call on a handle touches the *)
(* file at most once with a store and once with a read, and a database has *)
(* one writer, so a call is one step.  Of a point only the timestamp       *)
(* matters here: it decides the slots.                                     *)
(***************************************************************************)
EXTENDS WspLayout, WspPoints

CONSTANTS Layout,   \* the archive inputs of the database, already created
          Handles,  \* opened with WSP_READ, the writer with WSP_WRITE too
          Writer,
          Times,    \* of points written and fetched
          NULL

ASSUME LayoutAssumption ==
    /\ Layout \in Seq([spp : Nat, count : Nat])
    /\ Accepted(Layout)
    /\ \A a \in 2 .. Len(Layout) : ValidArchive(Layout[a - 1], Layout[a])

ASSUME WriterAssumption == Writer \in Handles

\* A time that rounds to 0 would mark an empty slot.
ASSUME TimesAssumption ==
    \A t \in Times : t \in Timestamp /\ \A a \in DOMAIN Layout : t >= Layout[a].spp

VARIABLES disk,     \* the points of the file, by their offsets
          stored,   \* the points as the stores that count have left them
          streams   \* the stream of every handle that is open

vars == <<disk, stored, streams>>

Arcs        == DOMAIN Layout
Arc(a)      == Layout[a]
Offset(a, i) == Table(Layout)[a].offset + PointSize * i
Cells        == UNION {{Offset(a, i) : i \in Slots(Arc(a))} : a \in Arcs}

Init ==
    /\ disk = [c \in Cells |-> 0]
    /\ stored = disk
    /\ streams = [h \in Handles |-> NULL]

-----------------------------------------------------------------------------
(* A call: the file and one stream, as far as it has got.  An error ends   *)
(* it: all operators below leave a call alone whose status is not OK.      *)

Begin(h) ==
    [disk |-> disk, stored |-> stored, stream |-> streams[h],
     status |-> "OK", points |-> <<>>, base |-> 0, wrote |-> {}]

End(h, c) ==
    /\ disk' = c.disk
    /\ stored' = c.stored
    /\ streams' = [streams EXCEPT ![h] = c.stream]

Fail(c, error) == [c EXCEPT !.status = error]

\* The buffered store reaches the file.
Flush(c) ==
    IF c.stream.dirty = NULL THEN c
    ELSE [c EXCEPT !.disk[c.stream.dirty.offset] = c.stream.dirty.timestamp,
                   !.stream.dirty = NULL]

Fill(c) ==
    IF c.stream.ahead # NULL THEN c
    ELSE [Flush(c) EXCEPT !.stream.ahead = Flush(c).disk]

\* ftell, then fread of one item, which an item of no bytes is not.
ReadAt(c, offset, n) ==
    IF c.status # "OK" THEN c
    ELSE IF c.stream.pos # offset THEN Fail(c, "OFFSET")
    ELSE IF n = 0 THEN Fail(c, "IO")
    ELSE [Fill(c) EXCEPT
             !.stream.pos = offset + PointSize * n,
             !.points = [i \in 1 .. n |->
                            Fill(c).stream.ahead[offset + PointSize * (i - 1)]]]

WriteAt_NoSeek(h, c, offset, t) ==
    IF c.status # "OK" THEN c
    ELSE IF h # Writer THEN Fail(c, "IO")
    ELSE [Flush(c) EXCEPT
             !.stored[offset] = t,
             !.stream = [pos   |-> c.stream.pos + PointSize,
                         ahead |-> NULL,
                         dirty |-> [offset |-> c.stream.pos, timestamp |-> t]]]

\* fseek writes an earlier store out, fwrite buffers this one.  A stream opened
\* for reading seeks before it refuses.
WriteAt(h, c, offset, t) ==
    IF c.status # "OK" THEN c
    ELSE IF h # Writer THEN Fail([c EXCEPT !.stream.pos = offset], "IO")
    ELSE [Flush(c) EXCEPT
             !.stored[offset] = t,
             !.stream = [pos   |-> offset + PointSize,
                         ahead |-> NULL,
                         dirty |-> [offset |-> offset, timestamp |-> t]]]

-----------------------------------------------------------------------------
(* The functions of wsp.c over these two.                                  *)

LoadBase(c, a) ==
    LET r == ReadAt(c, Offset(a, 0), 1)
    IN  IF r.status = "OK" THEN [r EXCEPT !.base = r.points[1]] ELSE r

Written_Unfloored(h, c, a, t) ==
    LET b    == LoadBase(c, a)
        slot == WriteIndex(Arc(a), Point(b.base, 0), TimeFloor(t, Arc(a).spp))
        w    == WriteAt(h, b, Offset(a, slot), t)
    IN  IF w.status = "OK" THEN [w EXCEPT !.wrote = @ \cup {a}] ELSE w

\* wsp_write_points with one point.
Written(h, c, a, t) ==
    LET b       == LoadBase(c, a)
        floored == TimeFloor(t, Arc(a).spp)
        slot    == WriteIndex(Arc(a), Point(b.base, 0), floored)
        w       == WriteAt(h, b, Offset(a, slot), floored)
    IN  IF b.status # "OK" THEN b
        ELSE IF ~ CanSave(Arc(a), 1) THEN Fail(b, "POINT_OOB")
        ELSE IF w.status # "OK" THEN w
        ELSE [w EXCEPT !.wrote = @ \cup {a}]

\* wsp_fetch_points: the base, then one load, or two around the end of the ring.
Fetched(c, a, offset, size) ==
    LET n     == Capped(size, Arc(a).count)
        from  == PointMod(offset, Arc(a).count)
        until == PointMod(Signed(Wrap(offset + n)), Arc(a).count)
        b     == LoadBase(c, a)
    IN  IF from # 0 /\ until <= from
        THEN ReadAt(ReadAt(b, Offset(a, from), Arc(a).count - from),
                    Offset(a, 0), until)
        ELSE ReadAt(b, Offset(a, from), n)

\* wsp_fetch_time_points of a valid interval.
TimeFetched(c, a, time_from, time_until) ==
    LET b     == LoadBase(c, a)
        from  == TimeFloor(time_from, Arc(a).spp) \div Arc(a).spp
        until == TimeFloor(time_until, Arc(a).spp) \div Arc(a).spp
    IN  Fetched(b, a, Signed(Wrap(from - b.base \div Arc(a).spp)),
                Capped(Wrap(until - from + 1), Arc(a).count))

\* The fetch of the bucket that the point of archive a + 1 stands for.
BucketFetched(c, a, t) ==
    Fetched(c, a,
            PointIndex(Arc(a), Point(c.base, 0), TimeFloor(t, Arc(a + 1).spp)),
            Arc(a + 1).spp \div Arc(a).spp)

\* wsp_update_now from archive low on, when the aggregates up to archive high
\* are not skipped and that of the one after, if there is one, is.
Updated(h, c, low, high, t) ==
    LET chain[a \in low .. high] ==
            Written(h, IF a = low THEN c ELSE BucketFetched(chain[a - 1], a - 1, t),
                    a, t)
    IN  IF high = Len(Layout) THEN chain[high]
        ELSE BucketFetched(chain[high], high, t)

-----------------------------------------------------------------------------
IsOpen(h) == streams[h] # NULL

\* wsp_open reads the metadata and one archive header after the other.
Open(h) ==
    /\ ~ IsOpen(h)
    /\ streams' = [streams EXCEPT ![h] =
           [pos   |-> MetadataSize + ArchiveSize * Len(Layout),
            ahead |-> disk, dirty |-> NULL]]
    /\ UNCHANGED <<disk, stored>>

Load(h, a, i, n) ==
    /\ IsOpen(h)
    /\ End(h, ReadAt(Begin(h), Offset(a, i), n))

Write(h, a, t) ==
    /\ IsOpen(h)
    /\ End(h, Written(h, Begin(h), a, t))

Fetch(h, a, offset, n) ==
    /\ IsOpen(h)
    /\ End(h, Fetched(Begin(h), a, offset, n))

FetchTime(h, a, from, until) ==
    /\ IsOpen(h)
    /\ End(h, TimeFetched(Begin(h), a, from, until))

Update(h, low, high, t) ==
    /\ IsOpen(h)
    /\ End(h, Updated(h, Begin(h), low, high, t))

Close_Unflushed(h) ==
    /\ IsOpen(h)
    /\ streams' = [streams EXCEPT ![h] = NULL]
    /\ UNCHANGED <<disk, stored>>

\* fclose writes the buffered store out.
Close(h) ==
    /\ IsOpen(h)
    /\ disk' = Flush(Begin(h)).disk
    /\ streams' = [streams EXCEPT ![h] = NULL]
    /\ UNCHANGED stored

\* The process dies, or fclose cannot write, which wsp_close does not notice:
\* what was buffered does not count any more.
Lose(h) ==
    /\ IsOpen(h)
    /\ streams' = [streams EXCEPT ![h] = NULL]
    /\ stored' = IF h = Writer THEN disk ELSE stored
    /\ UNCHANGED disk

\* The buffer of a stream ends: what comes next is read from the file again.
BufferEnds(h) ==
    /\ IsOpen(h)
    /\ streams' = [streams EXCEPT ![h].ahead = NULL]
    /\ UNCHANGED <<disk, stored>>

Next ==
    \E h \in Handles :
        \/ Open(h) \/ Close(h) \/ Lose(h) \/ BufferEnds(h)
        \/ \E a \in Arcs :
             \/ \E i \in Slots(Arc(a)) : \E n \in 0 .. Arc(a).count - i :
                  Load(h, a, i, n)
             \/ \E i \in Slots(Arc(a)), n \in 1 .. Arc(a).count :
                  Fetch(h, a, i, n)
             \/ \E from, until \in Times : from <= until /\ FetchTime(h, a, from, until)
             \/ \E t \in Times :
                  \/ Write(h, a, t)
                  \/ \E high \in a .. Len(Layout) : Update(h, a, high, t)

Spec == Init /\ [][Next]_vars

-----------------------------------------------------------------------------
\* What a point of archive a may carry for a timestamp.
Floored(a) == {0} \cup {TimeFloor(t, Arc(a).spp) : t \in Times}

Contents(d) ==
    /\ DOMAIN d = Cells
    /\ \A a \in Arcs : \A i \in Slots(Arc(a)) : d[Offset(a, i)] \in Floored(a)

\* Points carry multiples of their archive's interval, in the file and in every
\* stream, and a stream never has something read ahead and something to write.
TypeOK ==
    /\ Contents(disk)
    /\ Contents(stored)
    /\ \A h \in Handles : IsOpen(h) =>
         /\ streams[h].pos \in Nat
         /\ streams[h].ahead # NULL =>
              Contents(streams[h].ahead) /\ streams[h].dirty = NULL
         /\ streams[h].dirty # NULL =>
              streams[h].dirty.offset \in Cells

\* A load by the writer that succeeds returns what was stored in the slots it
\* asked for, those still in the stream's buffer included: neither the read-ahead
\* nor a position left behind by other calls gets in the way
\* (__wsp_io_read__file, __wsp_io_write__file).
ReadsOwnWrites ==
    IsOpen(Writer) =>
        \A a \in Arcs : \A i \in Slots(Arc(a)) : \A n \in 1 .. Arc(a).count - i :
            LET c == ReadAt(Begin(Writer), Offset(a, i), n)
            IN  c.status = "OK" =>
                    c.points = [k \in 1 .. n |-> stored[Offset(a, i + k - 1)]]

\* Of the stores that were reported as done no more than one is missing in the
\* file, the last one, and only as long as the writer has its stream open: what
\* a crash can lose, and what other processes cannot see yet.
OnlyLastUnflushed ==
    \A c \in Cells : disk[c] # stored[c] =>
        /\ IsOpen(Writer)
        /\ streams[Writer].dirty = [offset |-> c, timestamp |-> stored[c]]

\* In every archive the stored points are where their distance to the base says,
\* although each base came through a stream.
StoredAligned ==
    \A a \in Arcs : \A i \in Slots(Arc(a)) :
        LET base  == stored[Offset(a, 0)]
            point == stored[Offset(a, i)]
        IN  point # 0 =>
                /\ base # 0
                /\ (point - base - i * Arc(a).spp) % Retention(Arc(a)) = 0

\* Any open handle can load the points between two timestamps, from any archive
\* and at any time (wsp_fetch_time_points, of which the header says nothing else
\* for WSP_FILE).
FetchesByTime ==
    \A h \in Handles : IsOpen(h) =>
        \A a \in Arcs, from, until \in Times : from <= until =>
            TimeFetched(Begin(h), a, from, until).status = "OK"

\* An update that reports an error has stored nothing, in no archive
\* (wsp_update_now; FailedUpdateAtomic of WspUpdate is the same through WSP_MMAP).
FailedStoresNothing ==
    \A h \in Handles : IsOpen(h) =>
        \A low \in Arcs, t \in Times : \A high \in low .. Len(Layout) :
            LET c == Updated(h, Begin(h), low, high, t)
            IN  c.status # "OK" => c.wrote = {}

\* Calls through a stream do what the header promises of any mapping.
CallsServed == FetchesByTime /\ FailedStoresNothing

\* A call that reads whole archives, one after the other.
Dumped(c) ==
    LET dump[a \in 0 .. Len(Layout)] ==
            IF a = 0 THEN c
            ELSE ReadAt(dump[a - 1], Offset(a, 0), Arc(a).count)
    IN  dump[Len(Layout)]

\* After wsp_open the archives can be loaded whole, in their order: the header
\* ends where the first archive begins, and each archive where the next one does.
DumpsAfterOpen ==
    [][\A h \in Handles : Open(h) => (Dumped(Begin(h)).status = "OK")']_vars
=============================================================================
