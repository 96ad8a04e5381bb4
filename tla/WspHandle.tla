----------------------------- MODULE WspHandle -----------------------------
(***************************************************************************)
(* The life of database handles: wsp_create, wsp_open and wsp_close over   *)
(* the three I/O mappings, for one path.  WSP_FILE and WSP_MMAP share the  *)
(* file of that name on disk, WSP_MEMORY has a memfs file of its own.      *)
(*                                                                         *)
(* A handle keeps what WSP_INIT sets up: io (the function table, here the  *)
(* mapping it belongs to), mapping, instance, manual_buf and archives.     *)
(* Memory is a set of live blocks: an instance (with the stream or the     *)
(* mapping it owns), an array of archives and the contents of a memfs file *)
(* are one block each.  malloc succeeds; calls on files may fail.          *)
(***************************************************************************)
EXTENDS WspLayout, FiniteSets

CONSTANTS Handles,
          MappingsOf,  \* the mappings each handle is opened with
          Creators,    \* the mappings databases are created with
          Flags,       \* open flags: "read", "write", "readwrite"
          Layouts,     \* archive inputs given to wsp_create
          Blocks,      \* memory
          NULL

ASSUME MappingsAssumption ==
    /\ Creators \subseteq {"FILE", "MMAP", "MEMORY"}
    /\ MappingsOf \in [Handles -> SUBSET {"FILE", "MMAP", "MEMORY"}]

ASSUME BlocksAssumption == NULL \notin Blocks

VARIABLES handles,  \* the wsp_t of every handle
          disk,     \* the file on disk, NULL when there is none
          memfs,    \* the memfs file, NULL when there is none
          heap      \* live blocks

vars == <<handles, disk, memfs, heap>>

-----------------------------------------------------------------------------
(* Contents of a database file.                                            *)

\* No database is so small that resizing a file to it would cut the header of
\* another one: Resized keeps a header whole.
ASSUME LayoutsAssumption ==
    /\ \A l \in Layouts : l # <<>> /\ l \in Seq([spp : Nat, count : Nat])
    /\ \A l, k \in Layouts : HeaderSize(Len(l)) <= DatabaseSize(k)

\* Aggregation 0, in a header of zeros, is none of wsp_aggregation_t.
Database(layout) ==
    [aggregation |-> 1, archives |-> Table(layout), size |-> DatabaseSize(layout)]

Zeros(n) == [aggregation |-> 0, archives |-> <<>>, size |-> n]

\* A file is resized in place: what it holds of a header stays.
Resized(n) == IF disk = NULL THEN Zeros(n) ELSE [disk EXCEPT !.size = n]

Malloc(n) == CHOOSE b \in [1 .. n -> Blocks \ heap] :
                 \A i, j \in 1 .. n : i # j => b[i] # b[j]

-----------------------------------------------------------------------------
Closed == [io |-> NULL, mapping |-> NULL, instance |-> NULL,
           manual_buf |-> FALSE, archives |-> NULL]

Init ==
    /\ handles = [h \in Handles |-> Closed]   \* WSP_INIT
    /\ disk = NULL
    /\ memfs = NULL
    /\ heap = {}

CreateMmap(layout) ==
    /\ Accepted(layout)
    /\ disk' = Database(layout)
    /\ UNCHANGED <<handles, memfs, heap>>

\* The file is opened for appending: the header goes behind the points, and the
\* place of the header keeps zeros or the header of an earlier database.
CreateFile(layout) ==
    /\ Accepted(layout)
    /\ disk' = Resized(DatabaseSize(layout) + HeaderSize(Len(layout)))
    /\ UNCHANGED <<handles, memfs, heap>>

\* Creation on disk stops after the file was created, or after it was resized.
CreateFails(layout) ==
    /\ Accepted(layout)
    /\ disk' \in {Resized(IF disk = NULL THEN 0 ELSE disk.size),
                  Resized(DatabaseSize(layout))}
    /\ UNCHANGED <<handles, memfs, heap>>

MemfsAppend_KeepOld(b, file) ==
    /\ memfs' = [block |-> b, file |-> file]
    /\ heap' = heap \cup {b}

\* A memfs file of that name keeps its node and gets new memory.
MemfsAppend(b, file) ==
    /\ memfs' = [block |-> b, file |-> file]
    /\ heap' = (IF memfs = NULL THEN heap ELSE heap \ {memfs.block}) \cup {b}

CreateMemory(layout) ==
    /\ Accepted(layout)
    /\ MemfsAppend(Malloc(1)[1], Database(layout))
    /\ UNCHANGED <<handles, disk>>

Create(layout) ==
    \/ "MMAP" \in Creators /\ CreateMmap(layout)
    \/ "FILE" \in Creators /\ CreateFile(layout)
    \/ {"MMAP", "FILE"} \cap Creators # {} /\ CreateFails(layout)
    \/ "MEMORY" \in Creators /\ CreateMemory(layout)

-----------------------------------------------------------------------------
(* wsp_open.                                                               *)

\* The handle once wsp_open has chosen the mapping.
Chosen(w, mapping) == [w EXCEPT !.io = mapping, !.mapping = mapping]

OpenRefused_MappingFirst(h, mapping, flags) ==
    /\ handles[h].instance # NULL
    /\ handles' = [handles EXCEPT ![h].mapping = mapping]
    /\ UNCHANGED <<disk, memfs, heap>>

OpenRefused(h, mapping, flags) ==
    /\ handles[h].instance # NULL
    /\ UNCHANGED vars

\* io->open fails.  On disk it may for any reason; a memfs file is there or not.
OpenFails(h, mapping, flags) ==
    /\ handles[h].instance = NULL
    /\ mapping = "MEMORY" => memfs = NULL
    /\ handles' = [handles EXCEPT ![h] = Chosen(@, mapping)]
    /\ UNCHANGED <<disk, memfs, heap>>

\* The file io->open finds.  For the mode "wb" it empties or creates it; the
\* others need a file, and mmap needs one that can be read and is not empty.
Found(mapping, flags) ==
    CASE mapping = "FILE" /\ flags = "write" -> Zeros(0)
      [] mapping = "FILE" /\ flags # "write" -> disk
      [] mapping = "MMAP" -> IF disk = NULL \/ flags = "write" THEN NULL
                             ELSE IF disk.size = 0 THEN NULL ELSE disk
      [] mapping = "MEMORY" -> IF memfs = NULL THEN NULL ELSE memfs.file

\* A mapped file is read without regard to its size.
Readable(mapping, file, n) == mapping # "MMAP" => file.size >= n

LoadsMetadata_AnyAggregation(mapping, file) ==
    Readable(mapping, file, MetadataSize)

LoadsMetadata(mapping, file) ==
    /\ Readable(mapping, file, MetadataSize)
    /\ file.aggregation # 0

LoadsArchives_Unaligned(mapping, file) ==
    Readable(mapping, file, HeaderSize(Len(file.archives)))

LoadsArchives(mapping, file) ==
    /\ Readable(mapping, file, HeaderSize(Len(file.archives)))
    /\ \A i \in 2 .. Len(file.archives) :
         ValidArchive(file.archives[i - 1], file.archives[i])

\* WSP_FILE and WSP_MMAP say whether a read allocates; WSP_MEMORY does not.
ManualBuf(w, mapping) ==
    CASE mapping = "FILE"   -> TRUE
      [] mapping = "MMAP"   -> FALSE
      [] mapping = "MEMORY" -> w.manual_buf

\* A buffer is freed after it was read when manual_buf says so; only WSP_FILE
\* has allocated it, WSP_MEMORY has returned the contents of the file.
FreedByReading(w) ==
    IF w.manual_buf /\ w.mapping = "MEMORY" THEN {memfs.block} ELSE {}

\* A handle keeps its instance when the header cannot be loaded.
Open(h, mapping, flags) ==
    LET file  == Found(mapping, flags)
        b     == Malloc(2)
        w     == [Chosen(handles[h], mapping) EXCEPT
                     !.instance = b[1],
                     !.manual_buf = ManualBuf(handles[h], mapping)]
        loads == LoadsMetadata(mapping, file) /\ LoadsArchives(mapping, file)
    IN  /\ handles[h].instance = NULL
        /\ file # NULL
        /\ handles' = [handles EXCEPT ![h] =
               IF loads
               THEN [w EXCEPT !.archives = [block |-> b[2], table |-> file.archives]]
               ELSE w]
        /\ heap' = (heap \cup {b[1]} \cup (IF loads THEN {b[2]} ELSE {}))
                       \ FreedByReading(w)
        /\ disk' = IF mapping = "FILE" /\ flags = "write" THEN file ELSE disk
        /\ UNCHANGED memfs

-----------------------------------------------------------------------------
(* wsp_close.                                                              *)

\* WSP_IO_CHECK of the io functions the handle has.
IoCheck(w) == w.instance # NULL /\ w.mapping = w.io

\* The archives go first, then io->close may refuse.  The caller has opened the
\* handle before: the code follows io.  mapping and manual_buf stay as they are.
Close(h) ==
    LET w        == handles[h]
        archives == IF w.archives = NULL THEN {} ELSE {w.archives.block}
    IN  /\ w.io # NULL
        /\ handles' = [handles EXCEPT ![h] =
               IF IoCheck(w)
               THEN [Closed EXCEPT !.mapping = w.mapping, !.manual_buf = w.manual_buf]
               ELSE [w EXCEPT !.archives = NULL]]
        /\ heap' = heap \ (archives \cup IF IoCheck(w) THEN {w.instance} ELSE {})
        /\ UNCHANGED <<disk, memfs>>

\* What a program does with a handle.
Use(h) ==
    \/ \E m \in MappingsOf[h], f \in Flags :
         OpenRefused(h, m, f) \/ OpenFails(h, m, f) \/ Open(h, m, f)
    \/ Close(h)

Next ==
    \/ \E l \in Layouts : Create(l)
    \/ \E h \in Handles : Use(h)

Spec == Init /\ [][Next]_vars

-----------------------------------------------------------------------------
Tables == {Table(l) : l \in {l \in Layouts : Accepted(l)}}

TypeOK ==
    /\ handles \in [Handles ->
          [io : {"FILE", "MMAP", "MEMORY", NULL},
           mapping : {"FILE", "MMAP", "MEMORY", NULL},
           instance : Blocks \cup {NULL},
           manual_buf : BOOLEAN,
           archives : [block : Blocks, table : Tables] \cup {NULL}]]
    /\ heap \subseteq Blocks
    /\ disk # NULL => disk.size \in Nat /\ disk.aggregation \in {0, 1}
    /\ memfs # NULL => memfs.block \in Blocks /\ memfs.file.archives \in Tables

\* Which handle refers to which block.  In Next every handle remains in its
\* program's hands; what is lost with handles that are thrown away is the subject
\* of NothingLost in WspPython.
Owners ==
    {<<h, "instance", handles[h].instance>> :
        h \in {h \in Handles : handles[h].instance # NULL}}
    \cup {<<h, "archives", handles[h].archives.block>> :
        h \in {h \in Handles : handles[h].archives # NULL}}
    \cup (IF memfs = NULL THEN {} ELSE {<<NULL, "memfs", memfs.block>>})

\* As long as a program keeps its handles, through every failure of wsp_open and
\* every order of calls, each live block has exactly one owner and each owner's
\* block is live: nothing is out of reach of wsp_close, freed twice or used after
\* it was freed.
HeapExact ==
    /\ heap = {o[3] : o \in Owners}
    /\ Cardinality(heap) = Cardinality(Owners)

\* Archives a handle has loaded, from whatever file the creations and failures
\* left behind, are the ones the update path is written for: each interval a
\* larger multiple of those before it, each count a multiple, and the points of one
\* archive end before those of the next begin.
UsableArchives ==
    \A h \in Handles :
        handles[h].archives # NULL =>
            LET t == handles[h].archives.table
            IN  /\ \A i \in DOMAIN t : t[i].spp > 0 /\ t[i].count > 0
                /\ \A i, j \in DOMAIN t :
                     i < j => /\ t[i].spp < t[j].spp
                              /\ t[j].spp % t[i].spp = 0
                              /\ t[j].count % t[i].count = 0
                              /\ t[i].offset + PointSize * t[i].count <= t[j].offset

\* Whatever wsp_open did before, and whether wsp_close succeeds or not, a handle
\* that was given to wsp_close can be opened again.
Reopens == [][\A h \in Handles : Close(h) => handles'[h].instance = NULL]_vars
=============================================================================
