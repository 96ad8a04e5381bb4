-------------------------- MODULE WspLayoutProofs --------------------------
(***************************************************************************)
(* Lemmas about the layout of a database file: the points of the archives  *)
(* lie one behind the other, and what holds of consecutive archives of a   *)
(* table that wsp_open accepts holds of any two.                           *)
(***************************************************************************)
EXTENDS WspLayout, SequenceTheorems, WellFoundedInduction, TLAPS

-----------------------------------------------------------------------------
(* Induction over a set of numbers, which takes the place of a property.   *)

LEMMA UpTo ==
    ASSUME NEW n \in Int, NEW m \in Int, NEW P,
           n \in P,
           \A i \in n .. m - 1 : i \in P => i + 1 \in P
    PROVE  \A i \in n .. m : i \in P
<1> DEFINE T == {d \in Nat : n + d <= m /\ n + d \notin P}
<1>1. SUFFICES ASSUME T # {} PROVE FALSE
  <2>1. ASSUME NEW i \in n .. m, i \notin P PROVE i - n \in T
    <3>1. i - n \in Nat /\ n + (i - n) = i
      OBVIOUS
    <3> QED
      BY <2>1, <3>1
  <2> QED
    BY <2>1
<1>2. PICK x \in T : \A y \in T : ~ (<<y, x>> \in OpToRel(<, Nat))
  BY <1>1, NatLessThanWellFounded, WFMin
<1>3. x \in Nat /\ n + x <= m /\ n + x \notin P
  OBVIOUS
<1>4. x # 0
  <2>1. n + 0 = n
    OBVIOUS
  <2> QED
    BY <1>3, <2>1
<1>5. x - 1 \in Nat /\ n + (x - 1) \in n .. m - 1 /\ (n + (x - 1)) + 1 = n + x
  BY <1>3, <1>4
<1>6. x - 1 \notin T
  <2>1. x - 1 < x
    BY <1>3
  <2>2. <<x - 1, x>> \in {ss \in Nat \X Nat : ss[1] < ss[2]}
    BY <2>1, <1>3, <1>5
  <2> QED
    BY <2>2, <1>2 DEF OpToRel
<1>7. n + (x - 1) \in P
  BY <1>3, <1>5, <1>6
<1> QED
  BY <1>3, <1>5, <1>7

-----------------------------------------------------------------------------
(* Where the points of an archive are.                                     *)

IsLayout(layout) == layout \in Seq([spp : Nat, count : Nat])

\* What PointsEnd is defined to compute, as far as archive n.
EndsTo(layout, n, f) ==
    /\ f \in [0 .. n -> Nat]
    /\ f = [i \in 0 .. n |-> IF i = 0 THEN HeaderSize(Len(layout))
                             ELSE f[i - 1] + PointSize * layout[i].count]

LEMMA LayoutFacts ==
    ASSUME NEW layout, IsLayout(layout)
    PROVE  /\ Len(layout) \in Nat /\ DOMAIN layout = 1 .. Len(layout)
           /\ HeaderSize(Len(layout)) \in Nat
           /\ \A i \in 1 .. Len(layout) :
                layout[i].spp \in Nat /\ layout[i].count \in Nat
<1>1. layout \in [1 .. Len(layout) -> [spp : Nat, count : Nat]] /\ Len(layout) \in Nat
  BY LenProperties DEF IsLayout
<1>2. PICK n \in Nat : n = Len(layout)
  BY <1>1
<1>3. HeaderSize(n) \in Nat
  BY DEF HeaderSize, MetadataSize, ArchiveSize
<1>4. \A i \in 1 .. Len(layout) : layout[i].spp \in Nat /\ layout[i].count \in Nat
  BY <1>1
<1> QED
  BY <1>1, <1>2, <1>3, <1>4

\* One archive more.
LEMMA EndsFurther ==
    ASSUME NEW layout, IsLayout(layout), NEW n \in Nat, n + 1 \in 1 .. Len(layout),
           NEW f, EndsTo(layout, n, f)
    PROVE  \E g : EndsTo(layout, n + 1, g)
<1>1. PICK x \in Nat : x = f[n] + PointSize * layout[n + 1].count
  <2>1. f[n] \in Nat /\ layout[n + 1].count \in Nat
    BY LayoutFacts DEF EndsTo
  <2> QED
    BY <2>1 DEF PointSize
<1> DEFINE g == [i \in 0 .. n + 1 |-> IF i = n + 1 THEN x ELSE f[i]]
<1>2. g \in [0 .. n + 1 -> Nat]
  <2>1. ASSUME NEW i \in 0 .. n + 1, i # n + 1 PROVE f[i] \in Nat
    <3>1. i \in 0 .. n
      BY <2>1
    <3> QED
      BY <3>1 DEF EndsTo
  <2> QED
    BY <2>1
<1>3. ASSUME NEW i \in 0 .. n + 1
      PROVE  g[i] = IF i = 0 THEN HeaderSize(Len(layout))
                    ELSE g[i - 1] + PointSize * layout[i].count
  <2>1. CASE i = n + 1
    <3>1. g[i] = x /\ i # 0 /\ i - 1 \in 0 .. n + 1 /\ i - 1 # n + 1 /\ i - 1 = n
      BY <2>1
    <3>2. g[i - 1] = f[n]
      BY <3>1
    <3> HIDE DEF g
    <3> QED
      BY <3>1, <3>2, <1>1, <2>1
  <2>2. CASE i # n + 1 /\ i # 0
    <3>1. g[i] = f[i] /\ g[i - 1] = f[i - 1] /\ i \in 0 .. n
      BY <2>2
    <3> HIDE DEF g
    <3> QED
      BY <3>1, <2>2 DEF EndsTo
  <2>3. CASE i = 0
    <3>1. g[i] = f[i] /\ i \in 0 .. n
      BY <2>3
    <3> HIDE DEF g
    <3> QED
      BY <3>1, <2>3 DEF EndsTo
  <2> QED
    BY <2>1, <2>2, <2>3
<1>4. g = [i \in 0 .. n + 1 |-> g[i]]
  OBVIOUS
<1> HIDE DEF g
<1>5. EndsTo(layout, n + 1, g)
  BY <1>2, <1>3, <1>4 DEF EndsTo
<1> QED
  BY <1>5

LEMMA EndsExist ==
    ASSUME NEW layout, IsLayout(layout)
    PROVE  EndsTo(layout, Len(layout), PointsEnd(layout))
<1> DEFINE P == {n \in Nat : \E f : EndsTo(layout, n, f)}
<1>1. PICK N \in Nat : N = Len(layout)
  BY LayoutFacts
<1>2. 0 \in P
  <2> DEFINE f == [i \in 0 .. 0 |-> HeaderSize(Len(layout))]
  <2>1. EndsTo(layout, 0, f)
    <3>1. f \in [0 .. 0 -> Nat]
      BY LayoutFacts
    <3>2. \A i \in 0 .. 0 : i = 0
      OBVIOUS
    <3>3. f = [i \in 0 .. 0 |-> IF i = 0 THEN HeaderSize(Len(layout))
                                ELSE f[i - 1] + PointSize * layout[i].count]
      BY <3>2
    <3> QED
      BY <3>1, <3>3 DEF EndsTo
  <2> HIDE DEF f
  <2> QED
    BY <2>1
<1>3. ASSUME NEW n \in 0 .. N - 1, n \in P PROVE n + 1 \in P
  <2>1. PICK f : EndsTo(layout, n, f)
    BY <1>3
  <2>2. n \in Nat /\ n + 1 \in Nat /\ n + 1 \in 1 .. N
    OBVIOUS
  <2>3. \E g : EndsTo(layout, n + 1, g)
    BY <2>1, <2>2, <1>1, EndsFurther
  <2> QED
    BY <2>2, <2>3
<1>4. N \in P
  <2> HIDE DEF P
  <2>1. 0 \in Int /\ N \in Int /\ N \in 0 .. N
    OBVIOUS
  <2> QED
    BY <2>1, <1>2, <1>3, UpTo
<1>5. PICK f : EndsTo(layout, Len(layout), f)
  BY <1>1, <1>4
<1> DEFINE E(e) == e = [i \in 0 .. Len(layout) |->
                          IF i = 0 THEN HeaderSize(Len(layout))
                          ELSE e[i - 1] + PointSize * layout[i].count]
<1>6. PointsEnd(layout) = CHOOSE e : E(e)
  BY DEF PointsEnd
<1>7. E(f)
  BY <1>5 DEF EndsTo
<1>8. E(PointsEnd(layout))
  BY <1>6, <1>7
\* Two solutions agree up to every n.
<1>9. PointsEnd(layout) = f
  <2> DEFINE e == PointsEnd(layout)
             Q == {n \in 0 .. N : e[n] = f[n]}
  <2>1. 0 \in Q
    BY <1>1, <1>7, <1>8
  <2>2. ASSUME NEW n \in 0 .. N - 1, n \in Q PROVE n + 1 \in Q
    <3>1. n + 1 \in 0 .. Len(layout) /\ n + 1 # 0 /\ (n + 1) - 1 = n
      BY <1>1
    <3>2. /\ e[n + 1] = e[n] + PointSize * layout[n + 1].count
          /\ f[n + 1] = f[n] + PointSize * layout[n + 1].count
      BY <3>1, <1>7, <1>8
    <3> QED
      BY <3>1, <3>2, <2>2, <1>1
  <2>3. \A n \in 0 .. N : n \in Q
    <3> HIDE DEF Q
    <3>1. 0 \in Int /\ N \in Int
      OBVIOUS
    <3> QED
      BY <3>1, <2>1, <2>2, UpTo
  <2>4. e = [i \in 0 .. N |-> e[i]] /\ f = [i \in 0 .. N |-> f[i]]
    BY <1>1, <1>7, <1>8
  <2> QED
    BY <2>3, <2>4
<1> QED
  BY <1>5, <1>9

\* The points of one archive begin where those of the one before end.
LEMMA TableFacts ==
    ASSUME NEW layout, IsLayout(layout), NEW i \in 1 .. Len(layout)
    PROVE  /\ Table(layout)[i].spp = layout[i].spp
           /\ Table(layout)[i].count = layout[i].count
           /\ Table(layout)[i].offset = PointsEnd(layout)[i - 1]
           /\ PointsEnd(layout)[i - 1] \in Nat
           /\ PointsEnd(layout)[i] = PointsEnd(layout)[i - 1] + PointSize * layout[i].count
<1>1. EndsTo(layout, Len(layout), PointsEnd(layout))
  BY EndsExist
<1>2. DOMAIN layout = 1 .. Len(layout) /\ Len(layout) \in Nat
  BY LayoutFacts
<1>3. i \in 0 .. Len(layout) /\ i - 1 \in 0 .. Len(layout) /\ i # 0
  BY <1>2
<1> QED
  BY <1>1, <1>2, <1>3 DEF EndsTo, Table

\* The size of the file is that of its header and all its points.
LEMMA PointsEndGrows ==
    ASSUME NEW layout, IsLayout(layout),
           NEW i \in 0 .. Len(layout), NEW j \in i .. Len(layout)
    PROVE  /\ PointsEnd(layout)[i] \in Nat /\ PointsEnd(layout)[j] \in Nat
           /\ PointsEnd(layout)[i] <= PointsEnd(layout)[j]
<1> DEFINE E == PointsEnd(layout)
           P == {n \in i .. Len(layout) : E[i] <= E[n]}
<1>1. PICK N \in Nat : N = Len(layout)
  BY LayoutFacts
<1>2. \A n \in 0 .. N : E[n] \in Nat
  BY <1>1, EndsExist DEF EndsTo
<1>3. i \in P
  BY <1>1, <1>2
<1>4. ASSUME NEW n \in i .. N - 1, n \in P PROVE n + 1 \in P
  <2>1. n + 1 \in 1 .. Len(layout) /\ n \in Nat /\ n + 1 \in i .. Len(layout) /\ (n + 1) - 1 = n
    BY <1>1
  <2>2. E[n + 1] = E[n] + PointSize * layout[n + 1].count /\ layout[n + 1].count \in Nat
    BY <2>1, TableFacts, LayoutFacts
  <2>3. E[n] \in Nat /\ E[i] \in Nat
    BY <1>1, <1>2, <2>1
  <2>4. E[n] <= E[n + 1]
    <3> HIDE DEF E
    <3> QED
      BY <2>2, <2>3 DEF PointSize
  <2>5. E[n + 1] \in Nat
    BY <1>1, <1>2, <2>1
  <2>6. E[i] <= E[n + 1]
    <3>1. E[i] <= E[n]
      BY <1>4
    <3> HIDE DEF E, P
    <3> QED
      BY <3>1, <2>3, <2>4, <2>5
  <2> QED
    BY <2>1, <2>6
<1>5. \A n \in i .. N : n \in P
  <2> HIDE DEF P
  <2>1. i \in Int /\ N \in Int
    OBVIOUS
  <2> QED
    BY <2>1, <1>3, <1>4, UpTo
<1> QED
  BY <1>1, <1>2, <1>5

-----------------------------------------------------------------------------
(* From neighbours to any two archives.                                    *)

\* A multiple of a multiple is a multiple.
LEMMA MultipleOfMultiple ==
    ASSUME NEW x \in Nat \ {0}, NEW y \in Nat \ {0}, NEW z \in Nat,
           y % x = 0, z % y = 0
    PROVE  z % x = 0
<1>1. PICK p \in Int : y = x * p
  OBVIOUS
<1>2. PICK q \in Int : z = y * q
  OBVIOUS
<1>3. z = x * (p * q)
  BY <1>1, <1>2
<1>4. PICK r \in Int : z = x * r
  BY <1>3
<1>5. z = x * (z \div x) + (z % x) /\ z \div x \in Int /\ z % x \in 0 .. x - 1
  OBVIOUS
<1>6. PICK c \in Int : c = z \div x
  BY <1>5
<1>7. PICK d \in Int : d = r - c
  OBVIOUS
<1>8. x * d = z % x
  <2>1. x * (r - c) = x * r - x * c
    OBVIOUS
  <2> QED
    BY <2>1, <1>4, <1>5, <1>6, <1>7
<1>9. ~ d > 0
  <2>1. d > 0 => x * d >= x
    OBVIOUS
  <2> QED
    BY <2>1, <1>5, <1>8
<1>10. ~ d < 0
  <2>1. d < 0 => x * d < 0
    OBVIOUS
  <2> QED
    BY <2>1, <1>5, <1>8
<1> QED
  BY <1>8, <1>9, <1>10

\* How a later archive of a table follows an earlier one.
Follows(prev, cur) ==
    /\ prev.spp < cur.spp
    /\ cur.spp % prev.spp = 0
    /\ cur.count % prev.count = 0
    /\ prev.offset + PointSize * prev.count <= cur.offset

\* What wsp_create and wsp_open have checked of neighbours holds of any two archives.
LEMMA ArchivesFollow ==
    ASSUME NEW layout, IsLayout(layout), Accepted(layout),
           \A i \in 2 .. Len(layout) :
              ValidArchive(Table(layout)[i - 1], Table(layout)[i]),
           NEW i \in 1 .. Len(layout), NEW j \in i + 1 .. Len(layout)
    PROVE  Follows(Table(layout)[i], Table(layout)[j])
<1> DEFINE t == Table(layout)
           Multiples(n) == /\ t[i].spp < t[n].spp
                           /\ t[n].spp % t[i].spp = 0
                           /\ t[n].count % t[i].count = 0
           P == {n \in i + 1 .. Len(layout) : Multiples(n)}
<1>1. PICK N \in Nat : N = Len(layout) /\ DOMAIN layout = 1 .. N
  BY LayoutFacts
<1>2. ASSUME NEW n \in 1 .. N
      PROVE  t[n].spp \in Nat \ {0} /\ t[n].count \in Nat \ {0}
  <2>1. layout[n].spp \in Nat /\ layout[n].count \in Nat
    BY <1>1, LayoutFacts
  <2>2. layout[n].spp > 0 /\ layout[n].count > 0
    BY <1>1 DEF Accepted
  <2>3. t[n].spp = layout[n].spp /\ t[n].count = layout[n].count
    BY <1>1, TableFacts
  <2> HIDE DEF t
  <2> QED
    BY <2>1, <2>2, <2>3
<1>3. ASSUME NEW n \in 2 .. N
      PROVE  /\ t[n - 1].spp < t[n].spp
             /\ t[n].spp % t[n - 1].spp = 0
             /\ t[n].count % t[n - 1].count = 0
  <2>1. layout[n].spp > layout[n - 1].spp
    BY <1>1 DEF Accepted
  <2>2. ValidArchive(t[n - 1], t[n])
    BY <1>1
  <2>3. n \in 1 .. N /\ n - 1 \in 1 .. N
    OBVIOUS
  <2>4. t[n].spp = layout[n].spp /\ t[n - 1].spp = layout[n - 1].spp
    BY <2>3, <1>1, TableFacts
  <2>5. t[n].spp \in Nat /\ t[n - 1].spp \in Nat
    BY <2>3, <1>2
  <2> HIDE DEF t
  <2> QED
    BY <2>1, <2>2, <2>4, <2>5 DEF ValidArchive
<1>4. i + 1 \in P
  <2>1. i + 1 \in 2 .. N /\ (i + 1) - 1 = i
    BY <1>1
  <2>2. Multiples(i + 1)
    <3> HIDE DEF t
    <3> QED
      BY <2>1, <1>3
  <2> HIDE DEF Multiples
  <2> QED
    BY <2>1, <2>2, <1>1
<1>5. ASSUME NEW n \in i + 1 .. N - 1, n \in P PROVE n + 1 \in P
  <2>1. n + 1 \in 2 .. N /\ (n + 1) - 1 = n /\ n \in 1 .. N /\ n + 1 \in 1 .. N /\ i \in 1 .. N
    BY <1>1
  <2>2. Multiples(n)
    BY <1>5
  <2>3. PICK s \in Nat \ {0}, c \in Nat \ {0} : s = t[i].spp /\ c = t[i].count
    BY <2>1, <1>2
  <2>4. PICK sn \in Nat \ {0}, cn \in Nat \ {0} : sn = t[n].spp /\ cn = t[n].count
    BY <2>1, <1>2
  <2>5. PICK sm \in Nat \ {0}, cm \in Nat \ {0} : sm = t[n + 1].spp /\ cm = t[n + 1].count
    BY <2>1, <1>2
  <2>6. sn < sm /\ sm % sn = 0 /\ cm % cn = 0
    BY <2>1, <2>4, <2>5, <1>3
  <2>7. s < sn /\ sn % s = 0 /\ cn % c = 0
    BY <2>2, <2>3, <2>4
  <2>8. sm % s = 0 /\ cm % c = 0
    BY <2>6, <2>7, MultipleOfMultiple
  <2>9. s < sm
    BY <2>6, <2>7
  <2>10. Multiples(n + 1)
    BY <2>3, <2>5, <2>8, <2>9
  <2>11. n + 1 \in i + 1 .. Len(layout)
    BY <1>1
  <2> HIDE DEF Multiples
  <2> QED
    BY <2>10, <2>11
<1>6. Multiples(j)
  <2>1. \A n \in i + 1 .. N : n \in P
    <3> HIDE DEF P
    <3>1. i + 1 \in Int /\ N \in Int
      OBVIOUS
    <3> QED
      BY <3>1, <1>4, <1>5, UpTo
  <2> QED
    BY <2>1, <1>1
<1>7. t[i].offset + PointSize * t[i].count <= t[j].offset
  <2>1. i \in 0 .. N /\ i \in 1 .. N /\ j - 1 \in i .. N /\ j \in 1 .. N
    BY <1>1
  <2>2. PointsEnd(layout)[i] <= PointsEnd(layout)[j - 1]
    BY <2>1, <1>1, PointsEndGrows
  <2>3. /\ t[i].offset = PointsEnd(layout)[i - 1] /\ t[i].count = layout[i].count
        /\ PointsEnd(layout)[i] = PointsEnd(layout)[i - 1] + PointSize * layout[i].count
    BY <2>1, <1>1, TableFacts
  <2>4. t[j].offset = PointsEnd(layout)[j - 1]
    BY <2>1, <1>1, TableFacts
  <2> HIDE DEF t
  <2> QED
    BY <2>2, <2>3, <2>4
<1> QED
  BY <1>6, <1>7 DEF Follows

LEMMA TableIsSequence ==
    ASSUME NEW layout, IsLayout(layout)
    PROVE  Len(Table(layout)) = Len(layout) /\ DOMAIN Table(layout) = 1 .. Len(layout)
<1> DEFINE t == Table(layout)
<1>1. PICK N \in Nat : N = Len(layout) /\ DOMAIN layout = 1 .. N
  BY LayoutFacts
<1>2. DOMAIN t = 1 .. N
  BY <1>1 DEF Table
<1>3. t = [i \in 1 .. N |-> t[i]]
  BY <1>1 DEF Table
<1>4. t \in [1 .. N -> {t[i] : i \in 1 .. N}]
  <2> HIDE DEF t
  <2> QED
    BY <1>3
<1>5. t \in Seq({t[i] : i \in 1 .. N})
  <2> HIDE DEF t
  <2> QED
    BY <1>4, SeqDef
<1>6. DOMAIN t = 1 .. Len(t) /\ Len(t) \in Nat
  <2> HIDE DEF t
  <2> QED
    BY <1>5, LenProperties
<1> HIDE DEF t
<1> QED
  BY <1>1, <1>2, <1>6 DEF t
=============================================================================
