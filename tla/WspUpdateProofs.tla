-------------------------- MODULE WspUpdateProofs --------------------------
(***************************************************************************)
(* Theorems about WspUpdate, for any number of archives and of writers.    *)
(***************************************************************************)
EXTENDS WspUpdate, WspPointsProofs, SequenceTheorems, WellFoundedInduction

-----------------------------------------------------------------------------
(* Archives.                                                               *)

\* Archives have intervals and counts, and there are as many as levels.
LEMMA ArchiveFacts ==
    /\ Len(Archives) \in Nat
    /\ \A l \in Levels : Archives[l].spp \in Nat \ {0} /\ Archives[l].count \in Nat \ {0}
<1>1. Archives \in Seq([spp : Nat \ {0}, count : Nat \ {0}])
  BY UpdateAssumption DEF ArchivesAssumption
<1>2. /\ Len(Archives) \in Nat
      /\ \A l \in 1 .. Len(Archives) : Archives[l] \in [spp : Nat \ {0}, count : Nat \ {0}]
  BY <1>1, LenProperties, ElementOfSeq
<1> QED
  BY <1>2 DEF Levels

\* An archive after one that can be written to can be written to: its count is
\* a multiple of the other one's.
LEMMA CoarserCanSave ==
    ASSUME NEW l \in Levels, l # Len(Archives), CanSave(Archives[l], 1)
    PROVE  l + 1 \in Levels /\ CanSave(Archives[l + 1], 1)
<1>1. l + 1 \in 2 .. Len(Archives) /\ l + 1 \in Levels /\ (l + 1) - 1 = l
  BY ArchiveFacts DEF Levels
<1>2. Archives[l + 1].count % Archives[l].count = 0
  BY <1>1, UpdateAssumption DEF ArchivesAssumption
<1>3. PICK C \in Nat \ {0}, D \in Nat \ {0} : C = Archives[l].count /\ D = Archives[l + 1].count
  BY <1>1, ArchiveFacts
<1>4. D = C * (D \div C) + (D % C) /\ D \div C \in Int
  BY DivMod
<1>5. PICK q \in Int : q = D \div C
  BY <1>4
<1>6. D = C * q
  BY <1>2, <1>3, <1>4, <1>5
<1>7. q >= 1
  <2>1. SUFFICES ASSUME q <= 0 PROVE FALSE
    OBVIOUS
  <2>2. C * q <= 0
    BY <2>1
  <2> QED
    BY <2>2, <1>6
<1>8. C * q >= C
  BY <1>7
<1> QED
  BY <1>1, <1>3, <1>6, <1>8 DEF CanSave

\* The least of a set of levels is one of them.
LEMMA LeastLevel ==
    ASSUME NEW T \in SUBSET Levels, T # {}
    PROVE  Min(T) \in T
<1>1. T \subseteq Nat
  BY DEF Levels
<1>2. PICK x \in T : \A y \in T : ~ (<<y, x>> \in OpToRel(<, Nat))
  BY <1>1, NatLessThanWellFounded, WFMin
<1>3. ASSUME NEW y \in T PROVE x <= y
  <2>1. ~ (<<y, x>> \in {ss \in Nat \X Nat : ss[1] < ss[2]})
    BY <1>2 DEF OpToRel
  <2> QED
    BY <2>1, <1>1
<1> QED
  BY <1>3 DEF Min

\* A point is written under a positive number of intervals.
LEMMA FlooredTime ==
    ASSUME NEW t \in Times, NEW l \in Levels
    PROVE  \E m \in Nat \ {0} :
             /\ m = t \div Archives[l].spp
             /\ TimeFloor(t, Archives[l].spp) = Archives[l].spp * m
             /\ Archives[l].spp * m \in Timestamp
<1>1. PICK S \in Nat \ {0} : S = Archives[l].spp
  BY ArchiveFacts
<1>2. l \in DOMAIN Archives
  BY UpdateAssumption DEF ArchivesAssumption, Levels
<1>3. t \in Nat /\ t < Word /\ t >= S
  BY <1>1, <1>2, UpdateAssumption, WordAssumption DEF InputsAssumption, Times, Timestamp
<1>4. /\ TimeFloor(t, S) = S * (t \div S)
      /\ t \div S \in Nat
      /\ TimeFloor(t, S) <= t
      /\ TimeFloor(t, S) >= S
      /\ TimeFloor(t, S) \in Nat
  BY <1>3, TimeFloorFacts
<1>5. t \div S # 0
  <2>1. S * 0 = 0
    OBVIOUS
  <2> QED
    BY <2>1, <1>4
<1>6. S * (t \div S) \in Timestamp
  BY <1>3, <1>4, WordAssumption DEF Timestamp
<1>7. PICK m \in Nat \ {0} : m = t \div S
  BY <1>4, <1>5
<1> QED
  BY <1>1, <1>4, <1>6, <1>7

-----------------------------------------------------------------------------
(* The frames of the writers.                                              *)

Fields == {"clock", "todo", "time", "low", "level", "value", "base",
           "bucketBase", "window", "wrote", "status"}

IsFrame(u) == DOMAIN u = Fields /\ u = [f \in Fields |-> u[f]]

\* Labels between the choice of an archive and the end of the update.
Updating == {"loadBase", "save", "fetchBase", "fetch", "aggregate"}

\* A writer with label p and frame u is where it can be.  From the first store on,
\* every archive it comes to accepts points: only the first can refuse.
FrameOK(p, u) ==
    /\ p \in Labels
    /\ IsFrame(u)
    /\ u.todo \in Seq(Inputs)
    /\ p \in Updating => u.level \in Levels /\ u.time \in Times
    /\ p \in {"fetchBase", "fetch", "aggregate"} =>
         u.level - 1 \in Levels /\ CanSave(Archives[u.level], 1)
    /\ p = "loadBase" /\ u.wrote # {} => CanSave(Archives[u.level], 1)
    /\ p = "save" => CanSave(Archives[u.level], 1)
    /\ u.status \notin {"OK", "running", "crashed"} => u.wrote = {}
    /\ p # "idle" => u.status = "running"

FramesOK ==
    /\ pc = [w \in Writers |-> pc[w]]
    /\ upd = [w \in Writers |-> upd[w]]
    /\ \A w \in Writers : FrameOK(pc[w], upd[w])

LEMMA IdleOK ==
    ASSUME NEW status
    PROVE  FrameOK("idle", Idle(status))
<1> DEFINE u == Idle(status)
<1>1. IsFrame(u)
  BY DEF IsFrame, Fields, Idle
<1>2. u.todo \in Seq(Inputs) /\ u.wrote = {}
  BY DEF Idle
<1>3. FrameOK("idle", u)
  <2> HIDE DEF u
  <2> QED
    BY <1>1, <1>2 DEF FrameOK, Updating, Labels
<1> QED
  BY <1>3

LEMMA InitFrames == Init => FramesOK
BY IdleOK DEF Init, FramesOK

\* To go where a frame fits keeps all frames in order.
LEMMA GoOK ==
    ASSUME FramesOK, NEW w \in Writers, NEW p, NEW u, FrameOK(p, u), Go(w, p, u)
    PROVE  /\ FramesOK'
           /\ pc'[w] = p /\ upd'[w] = u
           /\ \A x \in Writers : x # w => pc'[x] = pc[x] /\ upd'[x] = upd[x]
BY DEF FramesOK, Go

LEMMA NextPointFrames ==
    ASSUME FramesOK, NEW w \in Writers, NextPoint(w)
    PROVE  FramesOK'
<1> DEFINE u == upd[w]
           p == Head(u.todo)
           low == Min(Reaching(u.clock - p.timestamp))
           new == [u EXCEPT !.todo = Tail(@), !.time = p.timestamp,
                            !.value = p.value, !.low = low, !.level = low,
                            !.wrote = {}]
<1>1. /\ FrameOK("next", u) /\ u.todo # <<>>
      /\ Refusal(u.clock, p.timestamp) = "none"
      /\ Go(w, "loadBase", new)
  BY DEF NextPoint, FramesOK
<1>2. u.todo \in Seq(Inputs) /\ IsFrame(u) /\ u.status = "running"
  BY <1>1 DEF FrameOK
<1>3. p \in Inputs /\ Tail(u.todo) \in Seq(Inputs)
  BY <1>1, <1>2, HeadTailProperties
<1>4. low \in Levels
  <2>1. Reaching(u.clock - p.timestamp) # {}
    BY <1>1 DEF Refusal
  <2>2. Reaching(u.clock - p.timestamp) \in SUBSET Levels
    BY DEF Reaching
  <2> QED
    BY <2>1, <2>2, LeastLevel
<1>5. /\ new.todo = Tail(u.todo) /\ new.time = p.timestamp /\ new.level = low
      /\ new.wrote = {} /\ new.status = u.status /\ IsFrame(new)
  BY <1>2 DEF IsFrame, Fields
<1>6. FrameOK("loadBase", new)
  <2> HIDE DEF new, low
  <2>1. new.time \in Times
    BY <1>3, <1>5 DEF Times
  <2> QED
    BY <2>1, <1>2, <1>3, <1>4, <1>5 DEF FrameOK, Updating, Labels
<1> QED
  BY <1>1, <1>6, GoOK

LEMMA LoadBaseFrames ==
    ASSUME FramesOK, NEW w \in Writers, LoadBase(w)
    PROVE  FramesOK'
<1> DEFINE u == upd[w]
           new == [u EXCEPT !.base = rings[u.level][0].timestamp]
           failed == [Idle("POINT_OOB") EXCEPT !.wrote = u.wrote]
<1>1. FrameOK("loadBase", u) /\ IsFrame(u)
  BY DEF LoadBase, FramesOK, FrameOK
<1>2. CASE CanSave(Archives[u.level], 1)
  <2>1. Go(w, "save", new)
    BY <1>2 DEF LoadBase
  <2>2. /\ new.todo = u.todo /\ new.level = u.level /\ new.time = u.time
        /\ new.status = u.status /\ new.wrote = u.wrote /\ IsFrame(new)
    BY <1>1 DEF IsFrame, Fields
  <2>3. FrameOK("save", new)
    <3> HIDE DEF new
    <3> QED
      BY <2>2, <1>1, <1>2 DEF FrameOK, Updating, Labels
  <2> QED
    BY <2>1, <2>3, GoOK
<1>3. CASE ~ CanSave(Archives[u.level], 1)
  <2>1. Go(w, "idle", failed)
    BY <1>3 DEF LoadBase
  <2>2. u.wrote = {}
    BY <1>1, <1>3 DEF FrameOK
  <2>3. IsFrame(failed) /\ failed.todo = <<>> /\ failed.wrote = {}
    BY <2>2 DEF IsFrame, Fields, Idle
  <2>4. FrameOK("idle", failed)
    <3>1. <<>> \in Seq(Inputs)
      OBVIOUS
    <3> HIDE DEF failed
    <3> QED
      BY <2>3, <3>1 DEF FrameOK, Updating, Labels
  <2> QED
    BY <2>1, <2>4, GoOK
<1> QED
  BY <1>2, <1>3

LEMMA SavePointFrames ==
    ASSUME FramesOK, NEW w \in Writers, SavePoint(w)
    PROVE  FramesOK'
<1> DEFINE u == upd[w]
           done == [u EXCEPT !.wrote = @ \cup {u.level}]
           last == [done EXCEPT !.base = 0]
           new == [done EXCEPT !.level = @ + 1]
<1>1. FrameOK("save", u) /\ IsFrame(u)
  BY DEF SavePoint, FramesOK, FrameOK
<1>2. u.level \in Levels /\ u.time \in Times /\ CanSave(Archives[u.level], 1)
  BY <1>1 DEF FrameOK, Updating
<1>3. CASE u.level = Len(Archives)
  <2>1. Go(w, "next", last)
    BY <1>3 DEF SavePoint
  <2>2. IsFrame(last) /\ last.todo = u.todo /\ last.status = u.status
    BY <1>1 DEF IsFrame, Fields
  <2>3. FrameOK("next", last)
    <3> HIDE DEF last
    <3> QED
      BY <2>2, <1>1 DEF FrameOK, Updating, Labels
  <2> QED
    BY <2>1, <2>3, GoOK
<1>4. CASE u.level # Len(Archives)
  <2>1. Go(w, "fetchBase", new)
    BY <1>4 DEF SavePoint
  <2>2. /\ IsFrame(new) /\ new.todo = u.todo /\ new.status = u.status
        /\ new.level = u.level + 1 /\ new.time = u.time
    BY <1>1 DEF IsFrame, Fields
  <2>3. u.level + 1 \in Levels /\ CanSave(Archives[u.level + 1], 1)
    BY <1>2, <1>4, CoarserCanSave
  <2>4. (u.level + 1) - 1 = u.level
    BY <1>2 DEF Levels
  <2>5. FrameOK("fetchBase", new)
    <3> HIDE DEF new
    <3> QED
      BY <2>2, <2>3, <2>4, <1>1, <1>2 DEF FrameOK, Updating, Labels
  <2> QED
    BY <2>1, <2>5, GoOK
<1> QED
  BY <1>3, <1>4

LEMMA FetchBaseFrames ==
    ASSUME FramesOK, NEW w \in Writers, FetchBase(w)
    PROVE  FramesOK'
<1> DEFINE u == upd[w]
           new == [u EXCEPT !.bucketBase = rings[u.level - 1][0].timestamp]
<1>1. FrameOK("fetchBase", u) /\ IsFrame(u) /\ Go(w, "fetch", new)
  BY DEF FetchBase, FramesOK, FrameOK
<1>2. /\ IsFrame(new) /\ new.todo = u.todo /\ new.status = u.status
      /\ new.level = u.level /\ new.time = u.time
  BY <1>1 DEF IsFrame, Fields
<1>3. FrameOK("fetch", new)
  <2> HIDE DEF new
  <2> QED
    BY <1>1, <1>2 DEF FrameOK, Updating, Labels
<1> QED
  BY <1>1, <1>3, GoOK

LEMMA FetchWindowFrames ==
    ASSUME FramesOK, NEW w \in Writers, FetchWindow(w)
    PROVE  FramesOK'
<1> DEFINE u == upd[w]
<1>1. FrameOK("fetch", u) /\ IsFrame(u)
  BY DEF FetchWindow, FramesOK, FrameOK
<1>2. PICK window : Go(w, "aggregate", [u EXCEPT !.bucketBase = 0, !.window = window])
  BY DEF FetchWindow
<1> DEFINE new == [u EXCEPT !.bucketBase = 0, !.window = window]
<1>3. /\ IsFrame(new) /\ new.todo = u.todo /\ new.status = u.status
      /\ new.level = u.level /\ new.time = u.time
  BY <1>1 DEF IsFrame, Fields
<1>4. FrameOK("aggregate", new)
  <2> HIDE DEF new
  <2> QED
    BY <1>1, <1>3 DEF FrameOK, Updating, Labels
<1> QED
  BY <1>2, <1>4, GoOK

LEMMA AggregateValueFrames ==
    ASSUME FramesOK, NEW w \in Writers, AggregateValue(w)
    PROVE  FramesOK'
<1> DEFINE u == upd[w]
           a == Aggregate(u.window)
           skipped == [u EXCEPT !.base = 0, !.window = <<>>]
           new == [u EXCEPT !.base = 0, !.window = <<>>, !.value = a.value]
<1>1. FrameOK("aggregate", u) /\ IsFrame(u)
  BY DEF AggregateValue, FramesOK, FrameOK
<1>2. CASE a.skip
  <2>1. Go(w, "next", skipped)
    BY <1>2 DEF AggregateValue
  <2>2. IsFrame(skipped) /\ skipped.todo = u.todo /\ skipped.status = u.status
    BY <1>1 DEF IsFrame, Fields
  <2>3. FrameOK("next", skipped)
    <3> HIDE DEF skipped
    <3> QED
      BY <2>2, <1>1 DEF FrameOK, Updating, Labels
  <2> QED
    BY <2>1, <2>3, GoOK
<1>3. CASE ~ a.skip
  <2>1. Go(w, "loadBase", new)
    BY <1>3 DEF AggregateValue
  <2>2. /\ IsFrame(new) /\ new.todo = u.todo /\ new.status = u.status
        /\ new.level = u.level /\ new.time = u.time
    BY <1>1 DEF IsFrame, Fields
  <2>3. FrameOK("loadBase", new)
    <3> HIDE DEF new
    <3> QED
      BY <2>2, <1>1 DEF FrameOK, Updating, Labels
  <2> QED
    BY <2>1, <2>3, GoOK
<1> QED
  BY <1>2, <1>3

\* Every step keeps the frames in order.
LEMMA NextFrames ==
    ASSUME FramesOK, [Next]_vars
    PROVE  FramesOK'
<1>1. ASSUME NEW w \in Writers, Call(w) PROVE FramesOK'
  <2>1. PICK batch \in Batches :
           Go(w, "next", [Idle("running") EXCEPT !.clock = now, !.todo = batch])
    BY <1>1 DEF Call
  <2>2. batch \in Seq(Inputs)
    BY DEF Batches
  <2>3. FrameOK("next", [Idle("running") EXCEPT !.clock = now, !.todo = batch])
    BY <2>2 DEF FrameOK, IsFrame, Fields, Idle, Updating, Labels
  <2> QED
    BY <2>1, <2>3, GoOK
<1>2. ASSUME NEW w \in Writers, RefusePoint(w) PROVE FramesOK'
  BY <1>2, IdleOK, GoOK DEF RefusePoint, Finish
<1>3. ASSUME NEW w \in Writers, Return(w) \/ Crash(w) PROVE FramesOK'
  BY <1>3, IdleOK, GoOK DEF Return, Crash, Finish
<1>4. CASE Tick \/ UNCHANGED vars
  BY <1>4 DEF Tick, vars, FramesOK
<1> QED
  BY <1>1, <1>2, <1>3, <1>4, NextPointFrames, LoadBaseFrames, SavePointFrames,
     FetchBaseFrames, FetchWindowFrames, AggregateValueFrames DEF Next, Step

\* An update that reports an error has stored nothing, whatever the archives, the
\* values and the interleaving: an archive behind one that took the point cannot
\* refuse it, since wsp_open has seen that its count is a multiple of the other's.
THEOREM FailedUpdatesStoreNothing == Spec => []FailedUpdateAtomic
<1>1. Init => FramesOK
  BY InitFrames
<1>2. FramesOK /\ [Next]_vars => FramesOK'
  BY NextFrames
<1>3. FramesOK => FailedUpdateAtomic
  BY DEF FramesOK, FrameOK, FailedUpdateAtomic
<1> QED
  BY <1>1, <1>2, <1>3, PTL DEF Spec

-----------------------------------------------------------------------------
(* The rings.                                                              *)

\* The database was sound before.
SoundStart ==
    /\ InitialRings = [l \in Levels |-> InitialRings[l]]
    /\ \A l \in Levels :
         /\ WholeRing(Archives[l], InitialRings[l])
         /\ AlignedRing(Archives[l], InitialRings[l])

\* Late points do no harm in any archive.
LapsDivideWord == \A l \in Levels : (Word \div Archives[l].spp) % Archives[l].count = 0

OneWriter == \E w \in Writers : Writers = {w}

\* Nobody writes the first point of an archive while somebody else does.
NoRaceForBase ==
    OneWriter \/ \A l \in Levels : InitialRings[l][0].timestamp # 0

RingsOK ==
    /\ rings = [l \in Levels |-> rings[l]]
    /\ \A l \in Levels :
         WholeRing(Archives[l], rings[l]) /\ AlignedRing(Archives[l], rings[l])
    /\ OneWriter \/ \A l \in Levels : rings[l][0].timestamp # 0

\* The base a writer is about to use may be old, but it is still good.
BasesKnown ==
    \A w \in Writers :
        pc[w] = "save" =>
            KnownBase(Archives[upd[w].level], rings[upd[w].level], upd[w].base)

\* Slots depend on the timestamps in the rings and on what writers have loaded
\* before, so none of these is inductive by itself.
IInv == FramesOK /\ RingsOK /\ BasesKnown

LEMMA InitInv == SoundStart /\ NoRaceForBase /\ Init => IInv
<1> SUFFICES ASSUME SoundStart, NoRaceForBase, Init PROVE IInv
  OBVIOUS
<1>1. RingsOK
  BY DEF SoundStart, NoRaceForBase, Init, RingsOK
<1>2. BasesKnown
  BY DEF Init, BasesKnown
<1> QED
  BY <1>1, <1>2, InitFrames DEF IInv

LEMMA LoadBaseRings ==
    ASSUME IInv, NEW w \in Writers, LoadBase(w)
    PROVE  RingsOK' /\ BasesKnown'
<1> DEFINE u == upd[w]
           l == u.level
<1>1. RingsOK'
  BY DEF LoadBase, IInv, RingsOK
<1>2. IsFrame(u) /\ l \in Levels
  BY DEF LoadBase, IInv, FramesOK, FrameOK, Updating
<1>3. \A x \in Writers : x # w => pc'[x] = pc[x] /\ upd'[x] = upd[x]
  BY DEF LoadBase, Go, IInv, FramesOK
<1>4. ASSUME pc'[w] = "save"
      PROVE  KnownBase(Archives[upd'[w].level], rings'[upd'[w].level], upd'[w].base)
  <2>1. upd'[w] = [u EXCEPT !.base = rings[l][0].timestamp]
    BY <1>4 DEF LoadBase, Go, IInv, FramesOK
  <2>2. upd'[w].level = l /\ upd'[w].base = rings[l][0].timestamp
    BY <2>1, <1>2 DEF IsFrame, Fields
  <2>3. 0 \in Slots(Archives[l]) /\ Retention(Archives[l]) \in Nat \ {0}
    <3>1. Archives[l].spp \in Nat \ {0} /\ Archives[l].count \in Nat \ {0}
      BY <1>2, ArchiveFacts
    <3> QED
      BY <3>1 DEF Slots, Retention
  <2>4. \E n \in Nat : /\ rings[l][0].timestamp = Archives[l].spp * n
                       /\ Archives[l].spp * n \in Timestamp
    BY <2>3, <1>2 DEF IInv, RingsOK, WholeRing
  <2>5. rings[l][0].timestamp - rings[l][0].timestamp = 0
    BY <2>4 DEF Timestamp
  <2>6. 0 % Retention(Archives[l]) = 0
    BY <2>3, ModSmall
  <2>7. KnownBase(Archives[l], rings[l], rings[l][0].timestamp)
    BY <2>4, <2>5, <2>6 DEF KnownBase
  <2> QED
    BY <2>2, <2>7 DEF LoadBase
<1>5. ASSUME NEW x \in Writers, x # w, pc'[x] = "save"
      PROVE  KnownBase(Archives[upd'[x].level], rings'[upd'[x].level], upd'[x].base)
  BY <1>3, <1>5 DEF LoadBase, IInv, BasesKnown
<1> QED
  BY <1>1, <1>4, <1>5 DEF BasesKnown

\* What SavePoint stores in which ring.
LEMMA Stores ==
    ASSUME LapsDivideWord, IInv, NEW w \in Writers, SavePoint(w)
    PROVE  LET u == upd[w]
               l == u.level
           IN  /\ l \in Levels
               /\ WholeRing(Archives[l], rings'[l])
               /\ AlignedRing(Archives[l], rings'[l])
               /\ rings'[l][0].timestamp # 0
               /\ BasesKept(Archives[l], rings[l], rings'[l])
               /\ rings' = [k \in Levels |-> rings'[k]]
               /\ \A k \in Levels : k # l => rings'[k] = rings[k]
<1> DEFINE u == upd[w]
           l == u.level
           arc == Archives[l]
           slot == WriteIndex(arc, Point(u.base, 0), TimeFloor(u.time, arc.spp))
<1>1. l \in Levels /\ u.time \in Times
  BY DEF SavePoint, IInv, FramesOK, FrameOK, Updating
<1>2. rings' = [rings EXCEPT ![l][slot] = Point(TimeFloor(u.time, arc.spp), u.value)]
  BY DEF SavePoint
<1>3. PICK m \in Nat \ {0} :
         TimeFloor(u.time, arc.spp) = arc.spp * m /\ arc.spp * m \in Timestamp
  BY <1>1, FlooredTime
<1>4. /\ rings'[l] = [rings[l] EXCEPT ![slot] = Point(TimeFloor(u.time, arc.spp), u.value)]
      /\ rings' = [k \in Levels |-> rings'[k]]
      /\ \A k \in Levels : k # l => rings'[k] = rings[k]
  BY <1>1, <1>2 DEF IInv, RingsOK
<1>5. rings'[l] = [rings[l] EXCEPT ![WriteIndex(arc, Point(u.base, 0), arc.spp * m)] =
                       Point(arc.spp * m, u.value)]
  BY <1>3, <1>4
<1>6. /\ arc.spp \in Nat \ {0} /\ arc.count \in Nat \ {0}
      /\ (Word \div arc.spp) % arc.count = 0
  BY <1>1, ArchiveFacts DEF LapsDivideWord
<1>7. /\ WholeRing(arc, rings[l]) /\ AlignedRing(arc, rings[l])
      /\ KnownBase(arc, rings[l], u.base)
  BY <1>1 DEF SavePoint, IInv, RingsOK, BasesKnown
<1>8. /\ WholeRing(arc, rings'[l]) /\ AlignedRing(arc, rings'[l])
      /\ rings'[l][0].timestamp # 0
      /\ BasesKept(arc, rings[l], rings'[l])
  <2> DEFINE ring == rings[l]
             new == rings'[l]
             b == u.base
             v == u.value
  <2>1. /\ arc.spp * m \in Timestamp
        /\ new = [ring EXCEPT ![WriteIndex(arc, Point(b, 0), arc.spp * m)] =
                      Point(arc.spp * m, v)]
        /\ WholeRing(arc, ring) /\ AlignedRing(arc, ring) /\ KnownBase(arc, ring, b)
    BY <1>3, <1>5, <1>7
  <2>2. /\ WholeRing(arc, new) /\ AlignedRing(arc, new)
        /\ new[0].timestamp # 0
        /\ BasesKept(arc, ring, new)
    <3> HIDE DEF arc, ring, new, b, v
    <3> QED
      BY <2>1, <1>6, StoreKeepsAligned
  <2> QED
    BY <2>2
<1> QED
  BY <1>1, <1>4, <1>8

LEMMA SavePointRings ==
    ASSUME LapsDivideWord, IInv, NEW w \in Writers, SavePoint(w)
    PROVE  RingsOK' /\ BasesKnown'
<1> DEFINE l == upd[w].level
<1>1. /\ l \in Levels
      /\ WholeRing(Archives[l], rings'[l])
      /\ AlignedRing(Archives[l], rings'[l])
      /\ rings'[l][0].timestamp # 0
      /\ BasesKept(Archives[l], rings[l], rings'[l])
      /\ rings' = [k \in Levels |-> rings'[k]]
      /\ \A k \in Levels : k # l => rings'[k] = rings[k]
  BY Stores
<1>2. RingsOK'
  <2>1. ASSUME NEW k \in Levels
        PROVE  /\ WholeRing(Archives[k], rings'[k])
               /\ AlignedRing(Archives[k], rings'[k])
               /\ OneWriter \/ rings'[k][0].timestamp # 0
    <3>1. CASE k = l
      BY <3>1, <1>1
    <3>2. CASE k # l
      <4>1. rings'[k] = rings[k]
        BY <3>2, <1>1
      <4> QED
        BY <4>1 DEF IInv, RingsOK
    <3> QED
      BY <3>1, <3>2
  <2> QED
    BY <2>1, <1>1 DEF RingsOK
<1>3. pc'[w] # "save" /\ \A x \in Writers : x # w => pc'[x] = pc[x] /\ upd'[x] = upd[x]
  BY DEF SavePoint, Go, IInv, FramesOK
<1>4. ASSUME NEW x \in Writers, pc'[x] = "save"
      PROVE  KnownBase(Archives[upd'[x].level], rings'[upd'[x].level], upd'[x].base)
  <2> DEFINE k == upd[x].level
             b == upd[x].base
  <2>1. x # w /\ pc[x] = "save" /\ upd'[x] = upd[x]
    BY <1>3, <1>4
  <2>2. KnownBase(Archives[k], rings[k], b) /\ k \in Levels
    BY <2>1 DEF IInv, BasesKnown, FramesOK, FrameOK, Updating
  <2>3. CASE k = l
    <3>1. \A j \in Levels : rings[j][0].timestamp # 0
      BY <2>1 DEF IInv, RingsOK, OneWriter
    <3>2. b # 0
      BY <3>1, <2>2 DEF KnownBase
    <3> QED
      BY <3>2, <2>1, <2>2, <2>3, <1>1 DEF BasesKept
  <2>4. CASE k # l
    BY <2>1, <2>2, <2>4, <1>1
  <2> QED
    BY <2>3, <2>4
<1> QED
  BY <1>2, <1>4 DEF BasesKnown

LEMMA NextInv ==
    ASSUME LapsDivideWord, IInv, [Next]_vars
    PROVE  IInv'
<1>1. FramesOK'
  BY NextFrames DEF IInv
<1>2. ASSUME NEW w \in Writers,
             \/ Call(w) \/ NextPoint(w) \/ RefusePoint(w) \/ Return(w) \/ Crash(w)
             \/ FetchBase(w) \/ FetchWindow(w) \/ AggregateValue(w)
      PROVE  RingsOK' /\ BasesKnown'
  <2>1. rings' = rings /\ \E p, u : p # "save" /\ Go(w, p, u)
    BY <1>2 DEF Call, NextPoint, RefusePoint, Return, Crash, FetchBase, FetchWindow,
                AggregateValue, Finish
  <2>2. /\ pc'[w] # "save"
        /\ \A x \in Writers : x # w => pc'[x] = pc[x] /\ upd'[x] = upd[x]
    BY <2>1 DEF Go, IInv, FramesOK
  <2> QED
    BY <2>1, <2>2 DEF IInv, RingsOK, BasesKnown
<1>3. ASSUME Tick \/ UNCHANGED vars PROVE RingsOK' /\ BasesKnown'
  BY <1>3 DEF Tick, vars, IInv, RingsOK, BasesKnown
<1>4. RingsOK' /\ BasesKnown'
  BY <1>2, <1>3, LoadBaseRings, SavePointRings DEF Next, Step
<1> QED
  BY <1>1, <1>4 DEF IInv

\* Whatever the number of archives and of writers, whichever of them replaces the
\* base while others are about to store by the old one, and whoever dies: points
\* stay where fetches look for them.
THEOREM RingsStayAligned ==
    ASSUME SoundStart, NoRaceForBase, LapsDivideWord
    PROVE  Spec => []RingsAligned
<1>1. Init => IInv
  BY InitInv
<1>2. IInv /\ [Next]_vars => IInv'
  BY NextInv
<1>3. IInv => RingsAligned
  BY DEF IInv, RingsOK, RingsAligned, AlignedRing
<1> QED
  BY <1>1, <1>2, <1>3, PTL DEF Spec

-----------------------------------------------------------------------------
(* The rings as round-robin tables.                                        *)

LEMMA SavePointInserts ==
    ASSUME LapsDivideWord, IInv, NEW w \in Writers, SavePoint(w),
           NEW l \in Levels, l = upd[w].level
    PROVE  RR(l)!Insert(upd[w].time, upd[w].value)
<1> DEFINE u == upd[w]
           arc == Archives[l]
           slot == WriteIndex(arc, Point(u.base, 0), TimeFloor(u.time, arc.spp))
<1>1. l \in Levels /\ u.time \in Times
  BY DEF SavePoint, IInv, FramesOK, FrameOK, Updating
<1>2. rings' = [rings EXCEPT ![l][slot] = Point(TimeFloor(u.time, arc.spp), u.value)]
  BY DEF SavePoint
<1>3. PICK m \in Nat \ {0} :
         /\ m = u.time \div arc.spp
         /\ TimeFloor(u.time, arc.spp) = arc.spp * m
         /\ arc.spp * m \in Timestamp
  BY <1>1, FlooredTime
<1>4. rings'[l] = [rings[l] EXCEPT ![slot] = Point(TimeFloor(u.time, arc.spp), u.value)]
  BY <1>1, <1>2 DEF IInv, RingsOK
<1>5. /\ arc.spp \in Nat \ {0} /\ arc.count \in Nat \ {0}
      /\ (Word \div arc.spp) % arc.count = 0
  BY <1>1, ArchiveFacts DEF LapsDivideWord
<1>6. Inserted(arc, rings[l], rings'[l], m % arc.count, Point(arc.spp * m, u.value))
  <2> DEFINE ring == rings[l]
             new == rings'[l]
             b == u.base
             v == u.value
             place == m % arc.count
  <2>1. /\ arc.spp * m \in Timestamp
        /\ new = [ring EXCEPT ![WriteIndex(arc, Point(b, 0), arc.spp * m)] =
                      Point(arc.spp * m, v)]
        /\ WholeRing(arc, ring) /\ AlignedRing(arc, ring) /\ KnownBase(arc, ring, b)
    BY <1>1, <1>3, <1>4 DEF SavePoint, IInv, RingsOK, BasesKnown
  <2>2. Inserted(arc, ring, new, place, Point(arc.spp * m, v))
    <3>1. place = m % arc.count
      OBVIOUS
    <3> HIDE DEF arc, ring, new, b, v, place
    <3> QED
      BY <2>1, <3>1, <1>5, StoreInserts
  <2> QED
    BY <2>2
<1>7. /\ Table(l) = RingTable(arc, rings[l])
      /\ Table(l)' = RingTable(arc, rings'[l])
  BY DEF Table, RingTable
<1>8. /\ m % arc.count = (u.time \div arc.spp) % arc.count
      /\ Point(arc.spp * m, u.value)
           = [timestamp |-> u.time - (u.time % arc.spp), value |-> u.value]
  BY <1>3 DEF Point, TimeFloor
<1> QED
  BY <1>6, <1>7, <1>8 DEF Inserted, RR!Insert, RR!Place

\* To its readers each archive is the round-robin table, though writers compute
\* slots from bases that others have replaced since: whoever wins the race for
\* slot 0, the point goes where its time belongs.
THEOREM ArchivesAreRoundRobin ==
    ASSUME SoundStart, NoRaceForBase, LapsDivideWord
    PROVE  Spec => ArchivesRoundRobin
<1> DEFINE InsertOnly ==
             \A l \in Levels :
               Table(l)' # Table(l) =>
                 \E w \in Writers :
                    /\ pc[w] = "save" /\ upd[w].level = l
                    /\ RR(l)!Insert(upd[w].time, upd[w].value)
<1>1. Init => IInv
  BY InitInv
<1>2. IInv /\ [Next]_vars => IInv'
  BY NextInv
<1>3. ASSUME IInv, [Next]_vars, NEW l \in Levels, Table(l)' # Table(l)
      PROVE  \E w \in Writers :
                /\ pc[w] = "save" /\ upd[w].level = l
                /\ RR(l)!Insert(upd[w].time, upd[w].value)
  <2>1. rings'[l] # rings[l]
    BY <1>3 DEF Table
  <2>2. PICK w \in Writers : SavePoint(w)
    BY <1>3, <2>1 DEF Next, Step, Call, NextPoint, RefusePoint, Return, Crash, LoadBase,
                      FetchBase, FetchWindow, AggregateValue, Tick, vars
  <2>3. l = upd[w].level
    BY <1>3, <2>1, <2>2, Stores
  <2> QED
    BY <1>3, <2>2, <2>3, SavePointInserts DEF SavePoint
<1>4. IInv /\ [Next]_vars => [InsertOnly]_rings
  BY <1>3
<1> QED
  BY <1>1, <1>2, <1>4, PTL DEF Spec, ArchivesRoundRobin
-----------------------------------------------------------------------------
(* What a lone writer overwrites.                                          *)

\* The database holds points up to the present, at whole intervals.
PastStart ==
    /\ MinNow \in Nat
    /\ InitialRings = [l \in Levels |-> InitialRings[l]]
    /\ \A l \in Levels :
         /\ InitialRings[l] = [i \in Slots(Archives[l]) |-> InitialRings[l][i]]
         /\ \A i \in Slots(Archives[l]) :
              /\ \E n \in Nat : InitialRings[l][i].timestamp = Archives[l].spp * n
              /\ InitialRings[l][i].timestamp <= MinNow

StoredUntil(t) ==
    \A l \in Levels : \A i \in Slots(Archives[l]) : rings[l][i].timestamp <= t

WholePoints ==
    /\ rings = [l \in Levels |-> rings[l]]
    /\ \A l \in Levels :
         /\ rings[l] = [i \in Slots(Archives[l]) |-> rings[l][i]]
         /\ \A i \in Slots(Archives[l]) :
              \E n \in Nat : rings[l][i].timestamp = Archives[l].spp * n

\* A call has read the clock after everything in the archives was stored, and
\* judges its points by it.
Judged(p, u) ==
    /\ p # "idle" => u.clock \in Nat /\ u.clock <= now /\ StoredUntil(u.clock)
    /\ p \in Updating =>
         u.time <= u.clock /\ u.clock - u.time <= Retention(Archives[u.level])

ClockInv ==
    /\ FramesOK
    /\ WholePoints
    /\ now \in Nat /\ StoredUntil(now)
    /\ \A w \in Writers : Judged(pc[w], upd[w])

LEMMA InitClock == PastStart /\ Init => ClockInv
BY InitFrames DEF PastStart, Init, ClockInv, WholePoints, StoredUntil, Judged, Updating

\* A coarser archive keeps its points for at least as long.
LEMMA CoarserKeepsLonger ==
    ASSUME NEW l \in Levels, l + 1 \in Levels
    PROVE  Retention(Archives[l]) <= Retention(Archives[l + 1])
<1>1. l + 1 \in 2 .. Len(Archives) /\ (l + 1) - 1 = l
  BY ArchiveFacts DEF Levels
<1>2. /\ Archives[l + 1].spp > Archives[l].spp
      /\ Archives[l + 1].count % Archives[l].count = 0
  BY <1>1, UpdateAssumption DEF ArchivesAssumption
<1>3. PICK S \in Nat \ {0}, T \in Nat \ {0}, C \in Nat \ {0}, D \in Nat \ {0} :
         /\ S = Archives[l].spp /\ T = Archives[l + 1].spp
         /\ C = Archives[l].count /\ D = Archives[l + 1].count
  BY ArchiveFacts
<1>4. D = C * (D \div C) + (D % C) /\ D \div C \in Int
  BY DivMod
<1>5. PICK q \in Int : D = C * q
  BY <1>2, <1>3, <1>4
<1>6. q >= 1
  <2>1. SUFFICES ASSUME q <= 0 PROVE FALSE
    OBVIOUS
  <2>2. C * q <= 0
    BY <2>1
  <2> QED
    BY <2>2, <1>5
<1>7. D >= C
  BY <1>5, <1>6
<1>8. S * C <= T * C /\ T * C <= T * D
  <2>1. T >= S
    BY <1>2, <1>3
  <2>2. S * C <= T * C
    BY <2>1
  <2>3. T * C <= T * D
    BY <1>7
  <2> QED
    BY <2>2, <2>3
<1>9. S * C \in Int /\ T * C \in Int /\ T * D \in Int
  OBVIOUS
<1> QED
  BY <1>3, <1>8, <1>9 DEF Retention

\* The retention of an archive is a number.
LEMMA RetentionFacts ==
    ASSUME NEW l \in Levels
    PROVE  Retention(Archives[l]) \in Nat \ {0}
<1>1. Archives[l].spp \in Nat \ {0} /\ Archives[l].count \in Nat \ {0}
  BY ArchiveFacts
<1> QED
  BY <1>1 DEF Retention

\* Submitted times are numbers.
LEMMA TimesAreNumbers == Times \subseteq Nat
BY UpdateAssumption, WordAssumption DEF InputsAssumption, Times, Timestamp

\* A step that stores nothing, and after which the writer's point is judged by
\* the same clock as before, if it is in a call at all.
LEMMA KeptJudgement ==
    ASSUME ClockInv, FramesOK', NEW w \in Writers, NEW p, NEW u,
           Go(w, p, u), rings' = rings, now' = now, Judged(p, u)
    PROVE  ClockInv'
<1>1. /\ pc'[w] = p /\ upd'[w] = u
      /\ \A x \in Writers : x # w => pc'[x] = pc[x] /\ upd'[x] = upd[x]
  BY DEF Go, ClockInv, FramesOK
<1>2. \A q, v : Judged(q, v)' <=> Judged(q, v)
  BY DEF Judged, StoredUntil
<1>3. ASSUME NEW x \in Writers PROVE Judged(pc'[x], upd'[x])
  BY <1>1 DEF ClockInv
<1> QED
  BY <1>1, <1>3 DEF ClockInv, WholePoints, StoredUntil, Judged

LEMMA CallClock ==
    ASSUME ClockInv, FramesOK', NEW w \in Writers, Call(w)
    PROVE  ClockInv'
<1>1. PICK batch \in Batches :
         Go(w, "next", [Idle("running") EXCEPT !.clock = now, !.todo = batch])
  BY DEF Call
<1> DEFINE new == [Idle("running") EXCEPT !.clock = now, !.todo = batch]
<1>2. new.clock = now
  BY DEF Idle
<1>3. Judged("next", new)
  <2> HIDE DEF new
  <2> QED
    BY <1>2 DEF Judged, ClockInv, Updating
<1> QED
  BY <1>1, <1>3, KeptJudgement DEF Call

LEMMA NextPointClock ==
    ASSUME ClockInv, FramesOK', NEW w \in Writers, NextPoint(w)
    PROVE  ClockInv'
<1> DEFINE u == upd[w]
           p == Head(u.todo)
           low == Min(Reaching(u.clock - p.timestamp))
           new == [u EXCEPT !.todo = Tail(@), !.time = p.timestamp,
                            !.value = p.value, !.low = low, !.level = low,
                            !.wrote = {}]
<1>1. /\ Refusal(u.clock, p.timestamp) = "none"
      /\ Go(w, "loadBase", new)
      /\ IsFrame(u) /\ u.todo \in Seq(Inputs) /\ u.todo # <<>>
      /\ Judged("next", u)
  BY DEF NextPoint, ClockInv, FramesOK, FrameOK
<1>2. new.clock = u.clock /\ new.time = p.timestamp /\ new.level = low
  BY <1>1 DEF IsFrame, Fields
<1>3. p.timestamp \in Nat
  <2>1. p \in Inputs
    BY <1>1, HeadTailProperties
  <2> QED
    BY <2>1, TimesAreNumbers DEF Times
<1>4. u.clock \in Nat
  BY <1>1 DEF Judged
<1>5. p.timestamp <= u.clock
  BY <1>1, <1>3, <1>4 DEF Refusal
<1>6. low \in Reaching(u.clock - p.timestamp)
  <2>1. Reaching(u.clock - p.timestamp) # {}
    BY <1>1 DEF Refusal
  <2>2. Reaching(u.clock - p.timestamp) \in SUBSET Levels
    BY DEF Reaching
  <2> QED
    BY <2>1, <2>2, LeastLevel
<1>7. /\ u.clock - p.timestamp <= Retention(Archives[low])
      /\ low \in Levels
  <2>1. low \in Levels /\ Retention(Archives[low]) >= u.clock - p.timestamp
    BY <1>6 DEF Reaching
  <2>2. Retention(Archives[low]) \in Nat
    BY <2>1, RetentionFacts
  <2> HIDE DEF low
  <2> QED
    BY <2>1, <2>2, <1>3, <1>4
<1>8. Judged("loadBase", new)
  <2> HIDE DEF new, low
  <2> QED
    BY <1>1, <1>2, <1>5, <1>7 DEF Judged
<1> QED
  BY <1>1, <1>8, KeptJudgement DEF NextPoint

\* The steps between two stores judge by the same clock and keep the archive.
LEMMA BetweenClock ==
    ASSUME ClockInv, FramesOK', NEW w \in Writers,
           LoadBase(w) \/ FetchBase(w) \/ FetchWindow(w) \/ AggregateValue(w)
    PROVE  ClockInv'
<1> DEFINE u == upd[w]
<1>1. /\ IsFrame(u) /\ pc[w] \in Updating /\ Judged(pc[w], u)
      /\ rings' = rings /\ now' = now
  BY DEF LoadBase, FetchBase, FetchWindow, AggregateValue, ClockInv, FramesOK, FrameOK,
         Updating
<1>2. PICK p, v : /\ Go(w, p, v)
                  /\ \/ p = "idle"
                     \/ v.clock = u.clock /\ v.time = u.time /\ v.level = u.level
  <2>1. CASE LoadBase(w)
    BY <2>1, <1>1 DEF LoadBase, IsFrame, Fields
  <2>2. CASE FetchBase(w)
    BY <2>2, <1>1 DEF FetchBase, IsFrame, Fields
  <2>3. CASE FetchWindow(w)
    <3>1. PICK window : Go(w, "aggregate", [u EXCEPT !.bucketBase = 0, !.window = window])
      BY <2>3 DEF FetchWindow
    <3> DEFINE new == [u EXCEPT !.bucketBase = 0, !.window = window]
    <3>2. new.clock = u.clock /\ new.time = u.time /\ new.level = u.level
      BY <1>1 DEF IsFrame, Fields
    <3> QED
      BY <3>1, <3>2
  <2>4. CASE AggregateValue(w)
    <3> DEFINE a == Aggregate(u.window)
               skipped == [u EXCEPT !.base = 0, !.window = <<>>]
               new == [u EXCEPT !.base = 0, !.window = <<>>, !.value = a.value]
    <3>1. Go(w, "next", skipped) \/ Go(w, "loadBase", new)
      BY <2>4 DEF AggregateValue
    <3>2. /\ skipped.clock = u.clock /\ skipped.time = u.time /\ skipped.level = u.level
          /\ new.clock = u.clock /\ new.time = u.time /\ new.level = u.level
      BY <1>1 DEF IsFrame, Fields
    <3> QED
      BY <3>1, <3>2
  <2> QED
    BY <2>1, <2>2, <2>3, <2>4
<1>3. Judged(p, v)
  BY <1>1, <1>2 DEF Judged, Updating
<1> QED
  BY <1>1, <1>2, <1>3, KeptJudgement

\* The points a store changes are in one ring and get the floored time.
LEMMA StoresPast ==
    ASSUME ClockInv, NEW w \in Writers, SavePoint(w)
    PROVE  LET u == upd[w]
               l == u.level
           IN  /\ l \in Levels
               /\ \A k \in Levels : k # l => rings'[k] = rings[k]
               /\ rings' = [k \in Levels |-> rings'[k]]
               /\ rings'[l] = [i \in Slots(Archives[l]) |-> rings'[l][i]]
               /\ \A i \in Slots(Archives[l]) : rings'[l][i] # rings[l][i] =>
                    rings'[l][i].timestamp = TimeFloor(u.time, Archives[l].spp)
<1> DEFINE u == upd[w]
           l == u.level
           arc == Archives[l]
           slot == WriteIndex(arc, Point(u.base, 0), TimeFloor(u.time, arc.spp))
           point == Point(TimeFloor(u.time, arc.spp), u.value)
<1>1. l \in Levels
  BY DEF SavePoint, ClockInv, FramesOK, FrameOK, Updating
<1>2. rings' = [rings EXCEPT ![l][slot] = point]
  BY DEF SavePoint
<1>3. point.timestamp = TimeFloor(u.time, arc.spp)
  BY DEF Point
<1>4. /\ rings = [k \in Levels |-> rings[k]]
      /\ rings[l] = [i \in Slots(arc) |-> rings[l][i]]
  BY <1>1 DEF ClockInv, WholePoints
<1> HIDE DEF point, slot
<1>5. /\ rings'[l] = [rings[l] EXCEPT ![slot] = point]
      /\ rings' = [k \in Levels |-> rings'[k]]
      /\ \A k \in Levels : k # l => rings'[k] = rings[k]
  BY <1>1, <1>2, <1>4
<1>6. /\ rings'[l] = [i \in Slots(arc) |-> rings'[l][i]]
      /\ \A i \in Slots(arc) : rings'[l][i] # rings[l][i] => rings'[l][i] = point
  BY <1>4, <1>5
<1> QED
  BY <1>1, <1>3, <1>5, <1>6

LEMMA SavePointClock ==
    ASSUME OneWriter, ClockInv, FramesOK', NEW w \in Writers, SavePoint(w)
    PROVE  ClockInv'
<1> DEFINE u == upd[w]
           l == u.level
           stored == TimeFloor(u.time, Archives[l].spp)
<1>1. /\ IsFrame(u) /\ u.time \in Times /\ l \in Levels
      /\ u.clock \in Nat /\ u.clock <= now /\ StoredUntil(u.clock)
      /\ u.time <= u.clock /\ u.clock - u.time <= Retention(Archives[l])
      /\ now' = now
  BY DEF SavePoint, ClockInv, Judged, FramesOK, FrameOK, Updating
<1>2. u.time \in Nat
  BY <1>1, TimesAreNumbers
<1>3. stored <= u.clock /\ \E n \in Nat : stored = Archives[l].spp * n
  <2>1. PICK S \in Nat \ {0} : S = Archives[l].spp
    BY <1>1, ArchiveFacts
  <2>2. /\ TimeFloor(u.time, S) \in Nat /\ TimeFloor(u.time, S) <= u.time
        /\ TimeFloor(u.time, S) = S * (u.time \div S) /\ u.time \div S \in Nat
    BY <1>2, TimeFloorFacts
  <2>3. u.clock \in Nat /\ u.time <= u.clock /\ stored = TimeFloor(u.time, S)
    BY <2>1, <1>1
  <2> HIDE DEF u, stored, l
  <2>4. stored <= u.clock
    BY <2>2, <2>3, <1>2
  <2>5. stored = S * (u.time \div S)
    BY <2>2, <2>3
  <2> QED
    BY <2>1, <2>2, <2>4, <2>5
<1>4. /\ \A k \in Levels : k # l => rings'[k] = rings[k]
      /\ rings' = [k \in Levels |-> rings'[k]]
      /\ rings'[l] = [i \in Slots(Archives[l]) |-> rings'[l][i]]
      /\ \A i \in Slots(Archives[l]) : rings'[l][i] # rings[l][i] =>
           rings'[l][i].timestamp = stored
  BY StoresPast
<1>5. ASSUME NEW k \in Levels, NEW i \in Slots(Archives[k])
      PROVE  /\ rings'[k][i].timestamp <= u.clock
             /\ \E n \in Nat : rings'[k][i].timestamp = Archives[k].spp * n
  <2>1. CASE rings'[k][i] = rings[k][i]
    BY <2>1, <1>1 DEF StoredUntil, ClockInv, WholePoints
  <2>2. CASE rings'[k][i] # rings[k][i]
    <3>1. k = l
      BY <2>2, <1>4
    <3>2. rings'[k][i].timestamp = stored
      BY <3>1, <2>2, <1>4
    <3> HIDE DEF stored
    <3> QED
      BY <3>1, <3>2, <1>3
  <2> QED
    BY <2>1, <2>2
<1>6. ASSUME NEW k \in Levels
      PROVE  rings'[k] = [i \in Slots(Archives[k]) |-> rings'[k][i]]
  <2>1. CASE k = l
    BY <2>1, <1>4
  <2>2. CASE k # l
    BY <2>2, <1>4 DEF ClockInv, WholePoints
  <2> QED
    BY <2>1, <2>2
<1>7. WholePoints'
  BY <1>4, <1>5, <1>6 DEF WholePoints
<1>8. StoredUntil(now)'
  <2>1. ASSUME NEW k \in Levels, NEW i \in Slots(Archives[k])
        PROVE  rings'[k][i].timestamp <= now
    <3>1. PICK n \in Nat, S \in Nat : rings'[k][i].timestamp = S * n
      BY <1>5, ArchiveFacts
    <3>2. rings'[k][i].timestamp \in Nat
      BY <3>1
    <3> QED
      BY <3>2, <1>1, <1>5 DEF ClockInv
  <2> QED
    BY <2>1, <1>1 DEF StoredUntil
<1>9. \A x \in Writers : x = w
  BY DEF OneWriter
<1>10. Judged(pc[w], upd[w])'
  <2> DEFINE done == [u EXCEPT !.wrote = @ \cup {u.level}]
             last == [done EXCEPT !.base = 0]
             new == [done EXCEPT !.level = @ + 1]
  <2>1. /\ last.clock = u.clock
        /\ new.clock = u.clock /\ new.time = u.time /\ new.level = l + 1
    BY <1>1 DEF IsFrame, Fields
  <2>2. CASE l = Len(Archives)
    <3>1. pc'[w] = "next" /\ upd'[w] = last
      BY <2>2 DEF SavePoint, Go, ClockInv, FramesOK
    <3>2. upd'[w].clock = u.clock
      BY <3>1, <2>1
    <3> QED
      BY <3>1, <3>2, <1>1, <1>5 DEF Judged, Updating, StoredUntil
  <2>3. CASE l # Len(Archives)
    <3>1. pc'[w] = "fetchBase" /\ upd'[w] = new
      BY <2>3 DEF SavePoint, Go, ClockInv, FramesOK
    <3>2. upd'[w].clock = u.clock /\ upd'[w].time = u.time /\ upd'[w].level = l + 1
      BY <3>1, <2>1
    <3>3. l + 1 \in Levels
      BY <1>1, <2>3, ArchiveFacts DEF Levels
    <3>4. Retention(Archives[l]) <= Retention(Archives[l + 1])
      BY <1>1, <3>3, CoarserKeepsLonger
    <3>5. Retention(Archives[l]) \in Nat /\ Retention(Archives[l + 1]) \in Nat
      BY <1>1, <3>3, RetentionFacts
    <3>6. u.clock - u.time <= Retention(Archives[l + 1])
      BY <1>1, <1>2, <3>4, <3>5
    <3> QED
      BY <3>1, <3>2, <3>6, <1>1, <1>5 DEF Judged, Updating, StoredUntil
  <2> QED
    BY <2>2, <2>3
<1> QED
  BY <1>1, <1>7, <1>8, <1>9, <1>10 DEF ClockInv

LEMMA TickClock ==
    ASSUME ClockInv, FramesOK', Tick
    PROVE  ClockInv'
<1>1. now' = now + 1 /\ rings' = rings /\ pc' = pc /\ upd' = upd /\ now \in Nat
  BY DEF Tick, ClockInv
<1>2. ASSUME NEW l \in Levels, NEW i \in Slots(Archives[l])
      PROVE  rings[l][i].timestamp <= now + 1
  <2>1. PICK n \in Nat, S \in Nat : rings[l][i].timestamp = S * n
    BY ArchiveFacts DEF ClockInv, WholePoints
  <2>2. rings[l][i].timestamp \in Nat /\ rings[l][i].timestamp <= now
    BY <2>1 DEF ClockInv, StoredUntil
  <2> QED
    BY <2>2, <1>1
<1>3. ASSUME NEW w \in Writers, pc[w] # "idle" PROVE upd[w].clock <= now + 1
  <2>1. upd[w].clock \in Nat /\ upd[w].clock <= now
    BY <1>3 DEF ClockInv, Judged
  <2> QED
    BY <2>1, <1>1
<1> QED
  BY <1>1, <1>2, <1>3 DEF ClockInv, WholePoints, StoredUntil, Judged

LEMMA NextClock ==
    ASSUME OneWriter, ClockInv, [Next]_vars
    PROVE  ClockInv'
<1>1. FramesOK'
  BY NextFrames DEF ClockInv
<1>2. ASSUME NEW w \in Writers, RefusePoint(w) \/ Return(w) \/ Crash(w) PROVE ClockInv'
  <2>1. PICK u : Go(w, "idle", u) /\ rings' = rings /\ now' = now
    BY <1>2 DEF RefusePoint, Return, Crash, Finish
  <2>2. Judged("idle", u)
    BY DEF Judged, Updating
  <2> QED
    BY <1>1, <2>1, <2>2, KeptJudgement
<1>3. CASE UNCHANGED vars
  BY <1>1, <1>3 DEF vars, ClockInv, WholePoints, StoredUntil, Judged
<1> QED
  BY <1>1, <1>2, <1>3, CallClock, NextPointClock, BetweenClock, SavePointClock, TickClock
     DEF Next, Step

\* However late its updates and its clock, a lone writer never replaces a point
\* that is more than a retention newer than the one it stores.
THEOREM OverwritesAreBounded ==
    ASSUME OneWriter, PastStart
    PROVE  Spec => OverwriteBounded
<1> DEFINE Bounded ==
             \A l \in Levels : \A i \in Slots(Archives[l]) :
               rings'[l][i] # rings[l][i] /\ rings[l][i].timestamp # 0 =>
                   rings[l][i].timestamp
                       <= rings'[l][i].timestamp + Retention(Archives[l])
<1>1. Init => ClockInv
  BY InitClock
<1>2. ClockInv /\ [Next]_vars => ClockInv'
  BY NextClock
<1>3. ASSUME ClockInv, [Next]_vars, NEW l \in Levels, NEW i \in Slots(Archives[l]),
             rings'[l][i] # rings[l][i]
      PROVE  rings[l][i].timestamp <= rings'[l][i].timestamp + Retention(Archives[l])
  <2>1. PICK w \in Writers : SavePoint(w)
    BY <1>3 DEF Next, Step, Call, NextPoint, RefusePoint, Return, Crash, LoadBase,
                FetchBase, FetchWindow, AggregateValue, Tick, vars
  <2> DEFINE u == upd[w]
  <2>2. l = u.level /\ rings'[l][i].timestamp = TimeFloor(u.time, Archives[l].spp)
    BY <1>3, <2>1, StoresPast
  <2>3. /\ u.time \in Times /\ u.clock \in Nat
        /\ rings[l][i].timestamp <= u.clock
        /\ u.clock - u.time <= Retention(Archives[l])
    BY <1>3, <2>1, <2>2
    DEF SavePoint, ClockInv, Judged, StoredUntil, FramesOK, FrameOK, Updating
  <2>4. PICK S \in Nat \ {0}, C \in Nat \ {0} : S = Archives[l].spp /\ C = Archives[l].count
    BY <1>3, ArchiveFacts
  <2>5. PICK t \in Nat, m \in Nat :
           /\ t = u.time /\ m = t \div S
           /\ TimeFloor(t, S) = S * m /\ t < S * m + S
    <3>1. u.time \in Nat
      BY <2>3, TimesAreNumbers
    <3> QED
      BY <3>1, TimeFloorFacts
  <2>6. PICK n \in Nat : rings[l][i].timestamp = S * n
    BY <1>3, <2>4 DEF ClockInv, WholePoints
  <2>7. S * n < S * (m + C + 1)
    <3>1. S * n <= u.clock /\ u.clock - t <= S * C
      BY <2>3, <2>4, <2>5, <2>6 DEF Retention
    <3>2. S * n \in Int /\ S * C \in Int /\ S * m \in Int
      OBVIOUS
    <3>3. S * n < S * m + S + S * C
      BY <3>1, <3>2, <2>3, <2>5
    <3>4. S * (m + C + 1) = S * m + S + S * C
      OBVIOUS
    <3> QED
      BY <3>3, <3>4
  <2>8. n <= m + C
    <3>1. SUFFICES ASSUME n >= m + C + 1 PROVE FALSE
      OBVIOUS
    <3>2. S * n >= S * (m + C + 1)
      BY <3>1
    <3>3. S * n \in Int /\ S * (m + C + 1) \in Int
      OBVIOUS
    <3> QED
      BY <3>2, <3>3, <2>7
  <2>9. S * n <= S * m + S * C
    <3>1. S * n <= S * (m + C)
      BY <2>8
    <3>2. S * (m + C) = S * m + S * C
      OBVIOUS
    <3> QED
      BY <3>1, <3>2
  <2> QED
    BY <2>2, <2>4, <2>5, <2>6, <2>9 DEF Retention
<1>4. ClockInv /\ [Next]_vars => [Bounded]_rings
  BY <1>3
<1> QED
  BY <1>1, <1>2, <1>4, PTL DEF Spec, OverwriteBounded
=============================================================================
