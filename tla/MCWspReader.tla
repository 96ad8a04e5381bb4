---------------------------- MODULE MCWspReader ----------------------------
(***************************************************************************)
(* An instance of WspReader for TLC.                                       *)
(***************************************************************************)
EXTENDS WspReader

Blanks == [l \in Levels |-> [i \in Slots(Archives[l]) |-> Blank]]

\* Two archives of two points, retentions 2 and 4.
TwoSmall == <<[spp |-> 1, count |-> 2], [spp |-> 2, count |-> 2]>>

\* Points that carry their time as value.
StampedFrom3To5 == {Point(t, t) : t \in 3 .. 5}

\* Two points, one, and the bucket of these two.
Requests345 == {[level |-> 1, from |-> 3, until |-> 4],
                [level |-> 1, from |-> 5, until |-> 5],
                [level |-> 2, from |-> 4, until |-> 5]}

\* Buckets are aggregated when all their points are known.
Whole == [num |-> 1, den |-> 1]
=============================================================================
