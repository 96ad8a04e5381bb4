----------------------------- MODULE WspLayout -----------------------------
(***************************************************************************)
(* The layout of a database file: a header of metadata and archive headers *)
(* (wsp_buffer.h), then the points of the archives one after the other, at *)
(* the offsets wsp_create computes.  A layout is the sequence of archive   *)
(* inputs, records [spp, count].                                           *)
(***************************************************************************)
EXTENDS Integers, Sequences

MetadataSize == 16
ArchiveSize  == 12
PointSize    == 12

HeaderSize(n) == MetadataSize + ArchiveSize * n

PointsEnd_NoHeaders(layout) ==
    LET end[i \in 0 .. Len(layout)] ==
            IF i = 0 THEN MetadataSize
            ELSE end[i - 1] + PointSize * layout[i].count
    IN  end

\* Where the points of archive i + 1 begin: end[0] is the end of the header.
PointsEnd(layout) ==
    LET end[i \in 0 .. Len(layout)] ==
            IF i = 0 THEN HeaderSize(Len(layout))
            ELSE end[i - 1] + PointSize * layout[i].count
    IN  end

DatabaseSize(layout) == PointsEnd(layout)[Len(layout)]

\* The archive headers wsp_create writes.
Table(layout) ==
    [i \in DOMAIN layout |->
        [offset |-> PointsEnd(layout)[i - 1],
         spp    |-> layout[i].spp,
         count  |-> layout[i].count]]

\* What wsp_create demands of its archive inputs.
Accepted(layout) ==
    /\ \A i \in DOMAIN layout : layout[i].count > 0 /\ layout[i].spp > 0
    /\ \A i \in 2 .. Len(layout) :
         /\ layout[i].spp > layout[i - 1].spp
         /\ layout[i].spp % layout[i - 1].spp = 0
         /\ layout[i - 1].spp * layout[i - 1].count < layout[i].spp * layout[i].count

\* What wsp_open demands of two consecutive archives.
ValidArchive(prev, cur) ==
    /\ cur.spp % prev.spp = 0
    /\ cur.count % prev.count = 0
=============================================================================
