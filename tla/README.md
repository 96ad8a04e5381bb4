# A verification of c-whisper

c-whisper is a C library for whisper databases: files of a fixed size that keep a
time series in several *archives*, rings of points of decreasing resolution. This
directory holds TLA+ models of it, instances of them that TLC checks, and theorems
about them that TLAPS checks. `PROJECT.json` says which lines of the source every
definition stands for, which faulty variant breaks each property, and which hazards
of the code the properties are aimed at. Paths below are relative to the
repository (`src/wsp.c` is the library's main file).

    tlc -config ArchiveBackfill.cfg MCWspArchive      # one run
    tlapm WspArchiveProofs.tla                        # the proofs of one module

## 1. Inventory

### Components

| component | state it keeps | operations |
|---|---|---|
| **archive ring** (`wsp.c`, `wsp_private.c`, `wsp_time.c`) | the points of an archive. The point in slot 0, the *base*, is what all slots are relative to; nothing else tells laps apart | `wsp_write_points`, `wsp_load_points`, `wsp_fetch_points`, `wsp_fetch_time_points` |
| **update path** (`wsp.c`, `wsp_private.c`) | none between calls; local variables during one | `wsp_update`, `wsp_update_many`, `wsp_update_now`, `wsp_aggregate_value`, `__wsp_find_highest_precision` |
| **aggregation** (`wsp_private.c`) | none | average, sum, last, max, min, with `x_files_factor` |
| **create** (`wsp.c` and the three `wsp_io_*.c`) | the file it writes | `wsp_create`, `io->create` |
| **handle lifecycle** (`wsp.c`, `wsp_private.c`) | a `wsp_t`: `io`, `io_mapping`, `io_instance`, `io_manual_buf`, `meta`, `archives` | `wsp_open`, `wsp_close` |
| **mmap io** (`wsp_io_mmap.c`) | descriptor and shared mapping | open, close, read, read_into, write, create |
| **file io** (`wsp_io_file.c`) | a stdio stream with its position and buffer | the same |
| **memory io, memfs** (`wsp_io_memory.c`, `wsp_memfs.c`) | a list of named blocks of memory | the same, find, append, clear |
| **Python binding** (`python/`) | a `Whisper` object with its `wsp_t` | open, update_point, update_points, load_points |
| encoding (`wsp_buffer.c`), input parsing (`wsp.c`), command line tools, debug output | none | conversions, printing |

### How they interact

`wsp_create` checks the archive inputs, computes offsets and hands them to the
`create` function of a mapping. `wsp_open` picks the mapping's function table,
calls its `open`, and reads metadata and archive headers through `io->read`. An
update finds the finest archive that reaches back to the point's time, loads that
archive's base, stores the point in the slot the base implies, and then, for each
coarser archive, fetches the points of the bucket from the archive just written,
aggregates them and stores the result. There is no lock anywhere: with `WSP_MMAP`
any number of processes work on one `MAP_SHARED` mapping, and what one of them has
stored stays when it dies. Handles of one process share the global `memfs_ctx`.

### What is hard

* Slots are relative to a point that is itself overwritten once per lap; distances
  are computed in `uint32_t` in one place and in `int` in another.
* Loads and stores of different processes interleave, and a writer may die between
  any two of them. A base may be a lap old when it is used.
* An update is several writes, and later ones may fail or be skipped.
* Time passes during a batch whose clock was read once.
* A reader takes the base twice, then the points one by one and of each point the
  timestamp and the value, while a writer copies twelve bytes at a time into the same
  mapping.
* Through `WSP_FILE` every read depends on where the call before has left the stream,
  and the last store may still be in its buffer.
* `wsp_open` may fail half-way; handles are reused, with other mappings; files are
  created over existing ones, and creation may stop in between. The Python binding
  adds failures of its own, after which it frees handles that are still in use.

### What makes each component correct

* *Archive ring*: a fetch of an interval returns exactly the stored points of that
  interval and NaN for the others; what was just written is what is read; a write
  replaces only a point whole retentions away.
* *Update path*: a failed update has stored nothing; a finished one can be read
  back in every archive it reached; the aggregate stored is that of the bucket; no
  store destroys a point more than a retention newer; calls return.
* *Readers*: points are labelled with the times asked for, a value belongs to its
  time, and a point that nobody touches during the fetch is not missed.
* *Streams*: a read returns what was stored; a crash loses what is in the buffer and
  nothing else; calls do through `WSP_FILE` what they do through `WSP_MMAP` (they do not).
* *Create, handles*: what was created can be opened; loaded archives are ones the
  update path is written for; memory is neither leaked (the binding leaks) nor used after it was freed;
  a handle can always be brought back into use; a script sees the archives of the
  database its object has open.

`PROJECT.json` lists the places of the code where these can go wrong.

## 2. Modules

    WspPoints                                            arithmetic of one archive
     ├─ WspArchive ── MCWspArchive                       implements RoundRobin
     ├─ WspAggregate ── WspUpdate ─┬─ MCWspUpdate        each archive: RoundRobin
     │                             └─ WspReader ── MCWspReader
     └─ WspFileIo ── MCWspFileIo
    WspLayout                                            layout of a database file
     ├─ WspFileIo
     └─ WspHandle ─┬─ MCWspHandle ──┐
                   └─ WspPython ────┴─ MCWspPython

    WspPointsProofs ─┬─ WspArchiveProofs (with WspArchive)
                     └─ WspUpdateProofs ── WspWindowProofs ── WspReaderProofs
                             (with WspUpdate)                 (with WspReader)
    WspLayoutProofs ── WspHandleProofs (with WspPython)
    WspPointsProofs, WspLayoutProofs ── WspFileIoProofs (with WspFileIo)

**WspPoints**: arithmetic without state. An archive is `[spp, count]`, its points a
function on the slots. `Word` stands for 2^32; `Wrap` reduces unsigned results and
`Signed` reads one as an `int`. `PointIndex`, `WriteIndex` and `WritePoint` are
`wsp_point_index` and `wsp_write_points`; `FetchTimePoints`, `FetchPointsFrom`,
`FetchReadPoints` and `FilterPoints` are the fetch functions, with the split load
around the end of the ring and the comparison of every point's timestamp with the
one its slot should have.

**WspArchive**: one archive; the only action is `wsp_write_points`. `Backfill` says
whether points older than the base are written, `InitialPoints` what the archive
holds at first.

**RoundRobin**: what an archive promises, without a base: for each residue of time
the point inserted last. `WspArchive` implements it under the mapping `Table`, the
ring rotated by the base's time; `WspUpdate!ArchivesRoundRobin` says the same of each
archive of a database, step by step.

**WspAggregate**: the five aggregation functions. Values are integers (the code
computes in `double`); NaN is a value of its own.

**WspUpdate**: `wsp_update_many` of any number of writer processes on one mapped
database. One action per access to the points: `LoadBase`, `SavePoint` (the two
halves of `wsp_write_points`), `FetchBase` and `FetchWindow` (those of
`wsp_fetch_points` called by `wsp_aggregate_value`), and one per decision:
`NextPoint`, `RefusePoint`, `AggregateValue`, `Return`. `pc[w]` and `upd[w]` are the
program counter and the local variables of a writer. `Crash` may cut a call short
at any step; `Tick` moves the clock. `upd[w].wrote` (the archives an update has
stored in) and `upd[w].status` (how the last call ended) are there for the
properties only.

**WspReader** puts readers beside one writer of `WspUpdate`. A reader's
`wsp_fetch_time_points` is five kinds of steps: `FetchTime` loads the base and
computes the offset, `FetchBase2` loads it again for the labels, `LoadHalf` comes to
the next point and loads one of its fields, `LoadRest` the other, and `Done` returns
the points filtered. `io->read` gives a pointer into the mapping and
`__wsp_parse_point` takes the fields from there, so that a whole store may come
between the two. The writer's store to the mapping is split, too: `SaveHalf` puts one field of the point in its place, either one,
`SaveRest` completes it, and `Die` between the two leaves a slot that is half old and
half new. `torn` has the slots that are in this state; of each fetch, `dirty` has the points
that were in it when their load began, or were stored to between the loads of their
two fields, and `kept` the slots that were left alone. Only properties use these.

**WspLayout**: sizes and offsets of the parts of a database file, what `wsp_create`
accepts (`Accepted`) and what `wsp_open` does (`ValidArchive`).

**WspFileIo**: a database through `WSP_FILE`. Each open handle has a stream with its
position, what it has read ahead, and the store it has not written yet. A call of
`wsp.c` (`Load`, `Write`, `Fetch`, `FetchTime`, `Update`) is one step that runs through
the `ReadAt`s and `WriteAt`s the code makes and ends at the first that fails.
`Close` flushes, `Lose` is a crash or a flush that fails, `BufferEnds` makes the
stream read the file again.

**WspHandle**: `wsp_create`, `wsp_open`, `wsp_close` for one path. `handles` holds
each `wsp_t`, `disk` the file that `WSP_FILE` and `WSP_MMAP` share, `memfs` the
memory file, `heap` the live blocks of memory. A header that was not written reads as
zeros, whose aggregation is unknown. `OpenFails` is a failure of `io->open`; `Open`
includes the failures after it, which leave the handle half open. `CreateFails` is a
creation on disk that stops before the header. Handles of a program stay in its
hands; which blocks they own is `Owners`.

**WspPython**: a `Whisper` object on top of `WspHandle`. `WhisperOpen` takes a handle
nobody has used and opens it; then either all objects of the binding are built
(`WhisperBuilt`) or one of them fails (`WhisperBuildFails`), which closes and frees the
handle while the object still refers to it. A handle that `wsp_open` fails on is freed
without being closed, and a new base takes the place of the old one, which nobody
closes either: `InReach` are the handles that are left, and `HeapAccounted` tells what
they own from what the binding has lost. `Elsewhere` lets other handles and
other processes go on, between and, for creations, during the calls of the object.

**MCWsp...**: definitions that the `.cfg` files give to the constants.

An operator whose name ends in `_Something` directly before an operator of the plain
name (`WriteIndex_LateToFront`, `LoadBase_StoreFirst`, ...) is a faulty variant,
used by nothing: put in the place of the plain one it makes a run fail, which shows
that the run's property depends on that code.

## 3. Runs

| run | shows | properties |
|---|---|---|
| `ArchiveBackfill` | points in any order, late ones too, in an archive whose laps divide `Word` | `TypeOK`, `RingAligned`, `FetchExact`, `ReadBack`, `RefinesRoundRobin` |
| `ArchiveInOrder` | points not older than the base, in an archive whose laps do not | the same without `TypeOK` |
| `ArchiveLatePoint` | *violated*: a point older than the base is lost in such an archive | `ReadBack` |
| `UpdateBatch` | batches over three archives, one of which refuses all points, crashes anywhere | `TypeOK`, `RingsAligned`, `WindowExact`, `WindowInPlace`, `Landed`, `FailedUpdateAtomic`, `ArchivesRoundRobin`, `OverwriteBounded`, `CallReturns` |
| `UpdateTwoWriters` | two processes, all interleavings and crashes | `RingsAligned`, `ArchivesRoundRobin` |
| `UpdateSingle` | a reader that loads field by field beside a single writer that stores field by field and dies anywhere | `ReaderTypeOK`, `RingsAligned`, `LabelsInPlace`, `ValuesGenuine`, `NoneMissed` |
| `UpdateSkip` | *violated*: after a gap, an update aggregates another lap and leaves out its own point | `ChangePropagates` |
| `FileStream` | a writer and a reader through `WSP_FILE`, all orders of calls, crashes | `TypeOK`, `ReadsOwnWrites`, `OnlyLastUnflushed`, `StoredAligned`, `DumpsAfterOpen` |
| `FileCalls` | *violated*: fetches by time and updates through `WSP_FILE` | `CallsServed` |
| `HandleLifecycle` | two handles, three mappings, the binding or another user, failures of calls on files | `TypeOK`, `HeapAccounted`, `UsableArchives`, `AttributesMirrorBase`, `Reopens` |
| `PythonLeak` | *violated*: what a failing `Whisper.open` has opened is lost | `NothingLost` |
| `HandleReuse` | *violated*: a handle used for a file, then for memory | `HeapExact` |

### Bounds

* **Word** is 32, 48 or 64 instead of 2^32. What matters is whether `Word \div spp`
  intervals are a whole number of laps: with `Word = 32`, 2-second points and 4 slots
  they are (16 intervals), with `Word = 64` and 3-second points they are not (21).
  In the runs of `WspUpdate`, `WspReader` and `WspFileIo` every retention divides the
  word, so that what they show does not depend on the error of `ArchiveLatePoint`.
  Timestamps stay below `Word / 2`, as real ones did until 2038: fetch reads
  differences as `int`. They are at least the coarsest interval, because a
  timestamp that rounds to 0 marks an empty archive.
* **Times** of the archive runs span three laps of a ring of four: a second lap
  overwrites the base, a third meets points of both laps before it, and reads wrap
  around the end of the ring at every slot.
* **Archives.** `ThreeLevels` (`UpdateBatch`) has retentions 1, 6 and 24; the first
  archive holds a single point, which create and open accept and every write to which
  is refused. Points reach the others when they are too old for it; the middle one
  wraps twice. `TwoSmall` (`UpdateTwoWriters`, `UpdateSingle`), two archives of two
  points, keeps the interleavings few; with two writers the archives have been written
  to once before, so that the base can be replaced between one writer's load and
  store, by either. `TwoLevels` (`UpdateSkip`) starts from a past with a gap,
  `AfterGap`. `FileStream` has two archives of three points: six slots, enough for a
  load that begins at, before and behind each base.
* **Values.** In `UpdateBatch`, `UpdateSingle` and `UpdateSkip` points carry their own
  time as value and aggregates are maxima: a value tells which point it comes from.
  `UpdateTwoWriters` asks about places only.
* **Inputs** of `UpdateBatch` are 5, 6, 8 and 16, with a clock from 5 to 18. The first
  three take three different slots of the middle archive, 5 and 6 one bucket of the
  coarse one, and 16 replaces what 5 left, two laps later. Depending on the clock each
  is refused by the first archive, stored in the second, in the third alone, or lies in
  the future. `MaxBatch` is 2: the clock read at first is old for the second point.
* **Writers**: two is the least number that interleaves, and they are symmetric. The
  reader is alone, because readers do not act on one another.
* **Handles and Blocks** in `HandleLifecycle`: two handles, each of which may be the
  binding's; six blocks are two per handle, one for memfs and one while that is
  replaced. Flags are write and read-write; a handle with read alone differs from
  these only in calls that the run does not contain.
* **Layouts** in `HandleLifecycle`: one archive, two that open, two that wsp_create
  accepts and wsp_open does not, two that wsp_create refuses.

### Fairness

`CallReturns` is checked under weak fairness of `Step(w)`: a process that is inside
`wsp_update_many` goes on executing it. The code is sequential and never waits, so
nothing more is assumed: not that anybody calls, nor that time passes, nor that a
crash happens. No other run needs fairness.

### What the violated runs show

* `ArchiveLatePoint` (`src/wsp.c:377`): the distance of a late point to the base
  wraps modulo 2^32, and the integer part of 2^32 / spp is a multiple of count only
  for some archives (not for a day of 60-second points: 71582788 is no multiple of
  1440). The point goes to a slot that no fetch computes,
  and replaces the one there. `ArchiveBackfill` shows that there is no problem when
  laps do divide the word, `ArchiveInOrder` that there is none without late points.
* `UpdateSkip` (`src/wsp.c:436`): `wsp_aggregate_value` takes the bucket's index modulo
  the finer archive's count, and the fetch then expects the timestamps of the lap that
  begins with the base. After updates at 3, 4, 5, 6 and none at 7, the update at 8
  finds the point of time 5 in its window and not its own, and that is what is stored
  for 8. `WindowExact` is therefore stated for buckets in the current lap and for
  archives that had a base before the update; `WindowInPlace` says what remains true
  in every lap.
* `HandleReuse` (`src/wsp_io_memory.c:36`): `io_manual_buf` survives from
  `WSP_FILE`, so reading the header through `WSP_MEMORY` frees the file's contents.
* `FileCalls` (`src/wsp_io_file.c:149`): reads through `WSP_FILE` take the stream to be
  at the offset they want, and only writes seek. `wsp_fetch_time_points` loads the
  base and `wsp_fetch_points` loads it again: it always fails, although `wsp.h` names
  the mapping and describes the function without a reservation. An update stores its
  point in the first archive and then cannot go back to that archive's base to
  aggregate: it reports an error and has changed the file, where `wsp.h` wants
  failures to be atomic. Right after `wsp_open` both happen. The theorem
  `StreamsDoNotReturn` says how far this goes: no fetch by time ever succeeds, and no
  update stores in two archives.
* `PythonLeak` (`src/python/Whisper.c:48`): `wsp_open` fails on a header it does not
  like and leaves the handle half open; the binding frees the handle without closing
  it, and file, mapping and instance are lost. The header in the run is that of the
  layout of `tests/test_wsp_create.c:50`, which `wsp_create` accepts and `wsp_open`
  does not, since it wants each count to be a multiple of the one before. (The
  base that a second `open` replaces is lost, too.) `HeapAccounted` says that there
  are no other losses, and the theorem about `HeapExact` that programs which keep
  their handles have none.

## 4. Proofs

Everything below holds for every value of the constants that the modules' named
assumptions admit, plus the hypotheses stated; TLC evaluates the assumptions in the
runs. Each hypothesis excludes something the code really gets wrong, or does not
promise.

One of them is far-reaching. `LapsDivideWord` (for one archive `WrapsWhole`) says that
count divides the integer part of Word / spp. With 2^32 that holds of few real
archives, not for instance of a day of 60-second points (71582788 is no multiple of
1440). Without it rings do not stay aligned: updates may be older than the base, and then
`ArchiveLatePoint` happens. For layouts that violate it the theorems about one
archive still hold as long as no late point is written (`WrapsWhole` asks for nothing
then; `ArchiveInOrder` is an instance), and so do those that do not list it; the
theorems about updates, readers and streams that list it say nothing of them.
`LapsFitWord`, of two theorems about readers, is narrower still: retentions divide the
word, so with 2^32 they are powers of two.

| theorem | says | hypotheses |
|---|---|---|
| `WspArchiveProofs!TypeCorrect` | `Spec => []TypeOK` | `ZeroedPoints`, `WrapsWhole` |
| `WspArchiveProofs!RingStaysAligned` | `Spec => []RingAligned` | the same |
| `WspArchiveProofs!ImplementsRoundRobin` | `Spec => RefinesRoundRobin` | the same |
| `WspArchiveProofs!FetchIsExact` | `Spec => []FetchExact` | the same and `LastTimeFits` |
| `WspArchiveProofs!WritesReadBack` | `Spec => ReadBack` | the same and `LastTimeFits` |
| `WspUpdateProofs!FailedUpdatesStoreNothing` | `Spec => []FailedUpdateAtomic` | none |
| `WspUpdateProofs!RingsStayAligned` | `Spec => []RingsAligned` | `SoundStart`, `NoRaceForBase`, `LapsDivideWord` |
| `WspUpdateProofs!ArchivesAreRoundRobin` | `Spec => ArchivesRoundRobin` | the same |
| `WspUpdateProofs!OverwritesAreBounded` | `Spec => OverwriteBounded` | `OneWriter`, `PastStart` |
| `WspWindowProofs!WindowsInPlace` | `Spec => []WindowInPlace` | `SoundStart`, `NoRaceForBase`, `LapsDivideWord`, `BucketsFit`, `NumbersFit` |
| `WspWindowProofs!WindowsAreExact` | `Spec => []WindowExact` | `SoundStart`, `OneWriter`, `LapsDivideWord`, `BucketsFit`, `NumbersFit` |
| `WspWindowProofs!UpdatesLand` | `Spec => []Landed` | the same |
| `WspWindowProofs!UpdatesTypeCorrect` | `Spec => []TypeOK` | `TypedStart`, `CountsFit`, `AggregatesStored` |
| `WspReaderProofs!ReaderRingsAligned` | `ReaderSpec => []RingsAligned` | `PointsStart`, `LapsDivideWord` |
| `WspReaderProofs!LabelsStayInPlace` | `ReaderSpec => []LabelsInPlace` | `PointsStart`, `LapsFitWord` |
| `WspReaderProofs!FetchesMissNone` | `ReaderSpec => []NoneMissed` | `PointsStart`, `LapsFitWord`, `RequestsAfterFirst` |
| `WspReaderProofs!ReaderTypeCorrect` | `ReaderSpec => []ReaderTypeOK` | `GenuineStart`, `LapsDivideWord` |
| `WspReaderProofs!ValuesAreGenuine` | `ReaderSpec => []ValuesGenuine` | `GenuineStart`, `LapsDivideWord`, `Stamped` |
| `WspFileIoProofs!StreamsTypeCorrect` | `Spec => []TypeOK` | `NullDistinct` |
| `WspFileIoProofs!WriterReadsItsWrites` | `Spec => []ReadsOwnWrites` | the same |
| `WspFileIoProofs!LastStoreMissing` | `Spec => []OnlyLastUnflushed` | the same |
| `WspFileIoProofs!StreamsDoNotReturn` | `Spec => []NoReturnToBase`, the extent of what `FileCalls` finds | the same |
| `WspFileIoProofs!OpenedDumps` | `Spec => DumpsAfterOpen` | the same |
| `WspFileIoProofs!StoresStayAligned` | `Spec => []StoredAligned` | the same and `LapsDivideWord` |
| `WspHandleProofs!HandlesTypeCorrect` | `Spec => []TypeOK` | `Plenty` |
| `WspHandleProofs!LoadedArchivesUsable` | `Spec => []UsableArchives` | `Plenty` |
| `WspHandleProofs!BindingArchivesUsable` | `PySpec => [](TypeOK /\ UsableArchives)` | `Plenty` |
| `WspHandleProofs!MemoryIsExact` | `Spec => []HeapExact` | `Plenty`, `NullDistinct`, `Unmixed` |
| `WspHandleProofs!ClosedReopens` | `Spec => Reopens` | the same |
| `WspHandleProofs!BindingMemoryIsAccounted` | `PySpec => []HeapAccounted` | the same |
| `WspHandleProofs!ScriptSeesOpenBase` | `PySpec => []AttributesMirrorBase` | the same |

**WspPointsProofs**: division with remainder, `wsp_time_floor`, and
`PointIndexIsDistance`: the slot of a timestamp of m intervals relative to a base of
n is `(m - n) % count`, when m is not smaller than n or the word is a whole number of
laps. For the update path the same is said of a ring and a base that may be laps old
(`KnownBase`): a store keeps the ring aligned (`StoreKeepsAligned`) and replaces one
entry of the table (`StoreInserts`). Of the fetch functions: the one or two loads of
`__wsp_fetch_read_points` are the slots from the first on, around the end (`ReadTurns`); distances survive the detour over
`uint32_t` and `int` (`SignedDistance`); so a fetch by time looks each interval up in
the slot `(m - n) % count` (`FetchTimeFinds`).

**The archive.** `ZeroedPoints` says that the points are zero-filled, as both file
mappings create them. `WSP_MEMORY` does not: its points are what `malloc` returned
(`src/wsp_io_memory.c:158`), and a leftover in slot 0 counts as a base; nothing is
said of those. `WrapsWhole` says that laps divide the word if late points are written;
`ArchiveLatePoint` is the counterexample without it. `LastTimeFits` excludes the one timestamp
`Word / 2 - 1`, after which the end of an interval is no `int` any more. The inductive
invariant is `IInv == TypeOK /\ RingAligned`: a slot is computed from the timestamps
in the ring, so that `RingAligned` is preserved only where those are known to be whole
intervals. In a step either the base stays, and the new point is where its distance
to it says; or slot 0 is replaced, by a point that is whole laps from the old base,
so that all other distances change by whole laps only. The refinement has the same
two cases: with the base kept, exactly one entry of the table changes; with the base
replaced, the table is rotated by whole laps, that is not at all, and one entry
changes. A fetch is exact because alignment leaves one slot for each interval
(`OnlySlot`), the one it looks into.

**Updates.** `FailedUpdatesStoreNothing` rests on the invariant `FramesOK` of the
writers' local variables: from the first store on every archive an update comes to
accepts points, because counts are multiples of the ones before. The next two
theorems add to it that every base a writer holds is 0 only where the archive is
empty, and otherwise whole laps from the base the archive has by now: it was the base
when it was loaded, and every replacement since moved the base by whole laps. Their
hypotheses are: the rings start aligned and hold whole timestamps (`SoundStart`); they
start with a base, or there is one writer (`NoRaceForBase`; two first writers do
misplace points); laps divide the word (`LapsDivideWord`, since updates may be
late).

`OverwritesAreBounded` has an invariant of its own, `ClockInv`: nothing stored is later
than the clock a call has read, and the point being stored is, at every archive the
update comes to, no older than that archive's retention, since retentions grow from
archive to archive. A point that is replaced is then at most a retention newer, and the
floors of both times lose nothing, because a retention is whole intervals. It needs one
writer (`OneWriter`: the clock of a call that has been asleep may be older than points
others have stored since) and a database without points from the future (`PastStart`);
how slots are computed, and so whether laps divide the word, does not matter.

**Windows.** `WindowInv` adds to that invariant that the times in the rings leave room
for a bucket below the word's end, and, for each writer between the load of a bucket's
base and the aggregation, that both bases it goes by are whole laps from the ring's,
and that what it has fetched lies whole laps from its place. The two bases of one
fetch (the one the offset is computed from, loaded before the store, and the one that
labels the points) may differ, and still every point is in place, since they differ by
laps. With one writer (`ExactInv`) nobody stores between these steps, so what is
fetched is what a reader would be given: the bucket's points, provided the bucket
lies in the lap of the base. `LandedInv` remembers along the update what
every archive below the current one returns, and that a store in a coarser archive
changes none of them. `BucketsFit` says that a bucket has no more points than the finer
archive, for archives that take points at all (the code aggregates uninitialised memory
otherwise), `NumbersFit` that the numbers do: counts are at most a quarter of the word,
timestamps and an interval less than half, and a timestamp, a lap and an interval
together less than all of it. `UpdateBatch` satisfies all of them.

`UpdatesTypeCorrect` follows the values around: from a ring through a fetch, with
the rest of the stack behind it, into a window, an aggregate and the next ring
(`TypedInv`). It needs neither aligned rings nor one writer, only that slot numbers can
be added as ints (`CountsFit`), that what there is at first is of its type
(`TypedStart`), and that `Stored` has room for the aggregates of its values
(`AggregatesStored`). The last holds of any set of integers for `max` and `min` with a
positive `x_files_factor` (`ExtremesStored`), and for `last` if NaN may be stored
(`LastStored`); sums and averages need a set closed under them.

**Readers.** There is one writer (`OneWriterAssumption`), but it stores field by field.
The invariant `RingsInv` is therefore about the timestamps in the rings alone
(`Stamps`), which change at one of the two steps of a store, and knows of a store
under way that its base is the ring's, or was 0 and the time just stored is the new
base. `FetchInv` says what a fetch under way holds: the base that the offset came from
and the one for the labels are whole laps from the ring's base, the slots loaded are
those from the offset on, around the end, and a point of which one field or both were
loaded from a slot that has not been stored to since is the one still there. From that follow places and labels
(`LabelsStayInPlace`) and, with both bases equal, that no point is missed that was left
alone (`FetchesMissNone`). `ValueInv` follows the values: only slots in `torn` hold a
time and a value of different points. A fetch that has come to such a slot has the
point in `dirty`, and so has one whose slot was stored to after the first of its
fields; all other points it has loaded, or is about to complete, are whole.
`PointsStart` and `GenuineStart` say that the database was sound before,
`LapsFitWord` that retentions divide the word, so that a distance computed modulo the
word stays in its lap, `RequestsAfterFirst` that nobody asks for the interval of time
0, which is that of empty slots, and `Stamped` that points carry their times as
values, which is how a value tells where it comes from. `UpdateSingle` satisfies all
of them.

**Streams.** The invariant `Inv` says three things. The file and the points stored hold
only times floored to the interval of their archive and, if laps divide the word, both
are aligned (`FileOK`; both, because a crash makes the file what is stored). Every open
stream is sound (`StreamOK`): read-ahead and an unwritten store exclude one another;
the writer's unwritten store is exactly what the file lacks, and its read-ahead is what
is stored; readers have nothing to write. And with the writer closed the file is what is
stored. A call runs through several reads and writes before its step is over, so the
same is said of a call as far as it has got (`CallOK`), and preserved by each of them.
An update is a recursive function of the archives, which is shown to have values by
going up from the first one (`UpTo` again). That it gets no further than the
first archive it stores in follows from where its stream stands: behind a point of an
archive there is no base of that or a coarser one (`NoBaseBehind`), and neither a
failing read nor the end of the update moves it (`StuckAt`). `NullDistinct` keeps NULL
apart from the records it stands for the absence of; `TimesAssumption`, in the module,
says that nobody updates with a time smaller than the coarsest interval, whose floor
would be the 0 of empty slots.

**Handles.** The invariant `HInv` has, beside `Exact(heap, Owners)`, which says that
blocks and owners correspond one to one, that an open handle's functions are those of
its mapping and that only a handle that was used for `WSP_FILE` frees what it reads.
`Plenty` is the assumption that `malloc` succeeds, `Unmixed` excludes handles used for
both `WSP_FILE` and `WSP_MEMORY` (`HandleReuse` is the counterexample), `NullDistinct`
keeps NULL apart from records. `TypeInv`, which needs neither of the last two, says of
every header that was written that it belongs to a layout `wsp_create` accepts, and
of every open handle that it passed the checks of `wsp_open`. Both check neighbours
only, `UsableArchives` is about all pairs: that counts divide and intervals divide is
transitive, and offsets grow because the header's end plus the sizes before an archive
is where it begins. **WspLayoutProofs** has these facts; that the recursive function
`PointsEnd` has a solution at all is shown by going up from the first archive, with
`UpTo`, an induction over a set of numbers instead of an operator, which follows from
the well-foundedness of `Nat`. For the binding, `PyInv` adds that handles it has
freed are never touched again, and that the base of an object with archives is open.
`HeapAccounted` follows because the owners in reach and the lost ones are all owners
(`ReachOrLost`), to which blocks correspond one to one.

**Only model-checked**: `CallReturns`, as liveness is beyond this prover. Every other
property of a passing run has its theorem.

## 5. Abstractions, and what is not modelled

* In `WspUpdate` one load or store of points is atomic; `WspReader` takes the stores
  of one writer and the loads of readers apart, field by field. A field (the 4 bytes
  of a timestamp, the 8 of a value) is stored and loaded whole, which the code, that
  copies and parses bytes, leaves to the compiler and the processor. Two writers that
  tear one another's stores, or load points another one is storing, are not modelled.
  A writer's own fetch that wraps around the ring is two loads, here one step.
* Streams behave as those of the GNU C library: a read fills the buffer with what
  the file holds, a seek or a close writes out what is buffered, and of several stores
  each is written out by the seek of the next. In `WspFileIo` a call is one step,
  since it touches the file at most once to store and once to read, and the database
  has one writer; points have no values there.
* A `fclose` that fails and is reported as success is, in `WspFileIo`, the same as a
  crash: the store that was buffered is given up.
* `malloc` succeeds. Of the failures inside the create functions, those that leave
  a file behind are modelled, descriptors they forget to close are not.
* `wsp_close` is called on handles that `wsp_open` was called on; the code follows
  a NULL pointer otherwise.
* Flags are one of read, write or both; with neither, `io->open` fails like for a
  missing file.
* `retention` is computed in `uint32_t` by `wsp_create`; layouts are small enough.
* Of the binding, left out: reference counting, archive objects a script keeps beyond
  the open they came from, the metadata object (which comes and goes with the
  archives), the loop of `update_points` over local memory. `load_points` and
  `update_point` are single calls of the library.
* A creation is one step, or stops before the header; the points of a file that is
  created over are not followed. `wsp_memfs_clear`, called by tests only, and several
  names in memfs are left out.
* `wsp_write_points` of several points has no caller in the repository, and
  the two segments of `__wsp_save_points` are modelled for one point only.
* Buckets of more points than the finer archive holds are in the model (`Junk` in
  `FetchWindow`), in no run: what is aggregated then is uninitialised memory, of which
  there is nothing to claim.
* Accesses beyond a mapped file are not modelled: they end the process or
  read whatever is there.
* Out of scope: the byte order of encoding (stateless; models start from parsed
  points), parsing of arguments, command line tools and debug output (straight-line
  callers, printing).

## 6. Plan

Done: the core (`WspPoints`, `WspArchive`, `RoundRobin`, `WspAggregate`, `WspUpdate`,
`WspHandle`), then readers, streams, layout and the binding (`WspReader`,
`WspFileIo`, `WspLayout`, `WspPython`), and the proofs of section 4. What is left:

1. Creation step by step, with crashes and an open in between, and the points of a
   database created over another.
2. Writers that tear one another's stores; `wsp_write_points` with several points,
   once it has a caller.
3. `AggregatesStored` for sums and averages: an induction over folds.
