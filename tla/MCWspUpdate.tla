---------------------------- MODULE MCWspUpdate ----------------------------
(***************************************************************************)
(* Instances of WspUpdate for TLC.                                         *)
(***************************************************************************)
EXTENDS WspUpdate, TLC

Blanks == [l \in Levels |-> [i \in Slots(Archives[l]) |-> Blank]]

\* Two archives of four points: retentions 4 and 8.
TwoLevels == <<[spp |-> 1, count |-> 4], [spp |-> 2, count |-> 4]>>

\* Two archives of two points, retentions 2 and 4, to which somebody has written
\* at time 2.
TwoSmall == <<[spp |-> 1, count |-> 2], [spp |-> 2, count |-> 2]>>

WrittenAt2 ==
    [l \in Levels |-> [i \in Slots(Archives[l]) |->
        IF i = 0 THEN Point(2, 1) ELSE Blank]]

\* TwoLevels, written to at 3, 4, 5 and 6, each point on time: the base of the
\* finer archive is 3.  The update at 7, which would replace it, never comes.
AfterGap ==
    <<[i \in 0 .. 3 |-> Point(3 + i, 3 + i)],
      [i \in 0 .. 3 |-> CASE i = 0 -> Point(4, 5)
                          [] i = 1 -> Point(6, 6)
                          [] OTHER -> Blank]>>

\* Three archives, retentions 1, 6 and 24.  The finest has a single slot:
\* wsp_create and wsp_open accept it, every write to it is refused, and only
\* points too old for it are stored.
ThreeLevels == <<[spp |-> 1, count |-> 1], [spp |-> 2, count |-> 3],
                 [spp |-> 4, count |-> 6]>>

\* Points of value 1: a sum tells how many went into it.
Ones(times) == [timestamp : times, value : {1}]
OnesFrom2To6 == Ones(2 .. 6)

\* Points that carry their time as value: an aggregate tells where it is from.
Stamped(times) == {Point(t, t) : t \in times}
StampedTimes   == {5, 6, 8, 16}
StampedPoints  == Stamped(StampedTimes)
StampedFrom3To9 == Stamped({3, 4, 5, 6, 8, 9})

\* Writers are interchangeable.
WriterSymmetry == Permutations(Writers)

Half == [num |-> 1, den |-> 2]
=============================================================================
