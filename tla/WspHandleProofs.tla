-------------------------- MODULE WspHandleProofs --------------------------
(***************************************************************************)
(* Theorems about WspHandle and WspPython: the memory behind any number of *)
(* handles has exactly its owners, wsp_close always makes a handle fit for *)
(* wsp_open, and all that the binding leaks are handles of its own.        *)
(***************************************************************************)
EXTENDS WspPython, WspLayoutProofs, FiniteSetTheorems

\* malloc succeeds whatever is in use.
Plenty == ~ IsFiniteSet(Blocks)

\* NULL is told from what it stands for the absence of.
NullDistinct ==
    /\ NULL \notin Handles
    /\ \A b, x : NULL # [block |-> b, file |-> x] /\ NULL # [block |-> b, table |-> x]

\* No handle is used for WSP_FILE and for WSP_MEMORY (see the run HandleReuse).
Unmixed == \A h \in Handles : ~ {"FILE", "MEMORY"} \subseteq MappingsOf[h]

-----------------------------------------------------------------------------
(* Blocks and owners, as sets.                                             *)

\* The blocks H are those of the owners O, each of one owner only.
Exact(H, O) ==
    /\ H = {o[3] : o \in O}
    /\ \A o, q \in O : o[3] = q[3] => o = q

LEMMA ExactAdds ==
    ASSUME NEW H, NEW O, Exact(H, O), NEW t, t[3] \notin H
    PROVE  Exact(H \cup {t[3]}, O \cup {t})
<1>1. H \cup {t[3]} = {o[3] : o \in O \cup {t}}
  BY DEF Exact
<1>2. \A o \in O : o[3] # t[3]
  BY DEF Exact
<1>3. \A o, q \in O \cup {t} : o[3] = q[3] => o = q
  BY <1>2 DEF Exact
<1> QED
  BY <1>1, <1>3 DEF Exact

LEMMA ExactRemoves ==
    ASSUME NEW H, NEW O, Exact(H, O), NEW o \in O
    PROVE  Exact(H \ {o[3]}, O \ {o})
BY DEF Exact

\* Where each block has one owner, there are as many of one as of the other.
LEMMA ExactCardinality ==
    ASSUME NEW H, IsFiniteSet(H), NEW O, Exact(H, O)
    PROVE  Cardinality(H) = Cardinality(O)
<1> DEFINE f == [b \in H |-> CHOOSE o \in O : o[3] = b]
<1>1. \A b \in H : f[b] \in O /\ f[b][3] = b
  BY DEF Exact
<1>2. \A o \in O : o[3] \in H /\ f[o[3]] = o
  BY <1>1 DEF Exact
<1>3. f \in [H -> O]
  BY <1>1
<1>4. \A a, b \in H : f[a] = f[b] => a = b
  BY <1>1
<1>5. f \in Bijection(H, O)
  <2> HIDE DEF f
  <2> QED
    BY <1>2, <1>3, <1>4 DEF Bijection, Injection, Surjection, IsInjective
<1> QED
  BY <1>5, FS_Bijection DEF ExistsBijection

\* malloc returns blocks that are not in use, and different ones.
LEMMA MallocFresh ==
    ASSUME Plenty, IsFiniteSet(heap), NEW n \in {1, 2}
    PROVE  /\ Malloc(n) \in [1 .. n -> Blocks \ heap]
           /\ \A i, j \in 1 .. n : i # j => Malloc(n)[i] # Malloc(n)[j]
<1>1. PICK x \in Blocks : x \notin heap
  <2>1. SUFFICES ASSUME Blocks \subseteq heap PROVE FALSE
    OBVIOUS
  <2> QED
    BY <2>1, FS_Subset DEF Plenty
<1>2. PICK y \in Blocks : y \notin heap \cup {x}
  <2>1. IsFiniteSet(heap \cup {x})
    BY FS_AddElement
  <2>2. SUFFICES ASSUME Blocks \subseteq heap \cup {x} PROVE FALSE
    OBVIOUS
  <2> QED
    BY <2>1, <2>2, FS_Subset DEF Plenty
<1> DEFINE b == [i \in 1 .. n |-> IF i = 1 THEN x ELSE y]
<1>3. b \in [1 .. n -> Blocks \ heap] /\ \A i, j \in 1 .. n : i # j => b[i] # b[j]
  BY <1>1, <1>2
<1> QED
  BY <1>3 DEF Malloc

-----------------------------------------------------------------------------
(* Handles.                                                                *)

Fields == {"io", "mapping", "instance", "manual_buf", "archives"}

\* An open handle has the functions of its mapping, a handle has archives only
\* while it is open, and it frees what it reads only if WSP_FILE is among its
\* mappings.
HandleOK(h, w) ==
    /\ DOMAIN w = Fields /\ w = [f \in Fields |-> w[f]]
    /\ w.instance # NULL => w.mapping = w.io
    /\ w.instance = NULL => w.archives = NULL
    /\ w.manual_buf => "FILE" \in MappingsOf[h]

HandlesOK ==
    /\ handles = [h \in Handles |-> handles[h]]
    /\ \A h \in Handles : HandleOK(h, handles[h])

\* HeapExact by itself says nothing of which mapping frees what.
HInv == HandlesOK /\ IsFiniteSet(heap) /\ Exact(heap, Owners)

MemfsOwners == IF memfs = NULL THEN {} ELSE {<<NULL, "memfs", memfs.block>>}

InstanceOwners ==
    {<<h, "instance", handles[h].instance>> :
        h \in {h \in Handles : handles[h].instance # NULL}}

ArchivesOwners ==
    {<<h, "archives", handles[h].archives.block>> :
        h \in {h \in Handles : handles[h].archives # NULL}}

LEMMA OwnersByPart ==
    /\ Owners = InstanceOwners \cup ArchivesOwners \cup MemfsOwners
    /\ Owners' = InstanceOwners' \cup ArchivesOwners' \cup MemfsOwners'
BY DEF Owners, InstanceOwners, ArchivesOwners, MemfsOwners

LEMMA InitHandles == Init => HInv
<1> SUFFICES ASSUME Init PROVE HInv
  OBVIOUS
<1>1. HandlesOK
  BY DEF Init, HandlesOK, HandleOK, Closed, Fields
<1>2. Owners = {}
  BY DEF Init, Owners, Closed
<1>3. Exact(heap, Owners) /\ IsFiniteSet(heap)
  BY <1>2, FS_EmptySet DEF Init, Exact
<1> QED
  BY <1>1, <1>3 DEF HInv

LEMMA CreateHandles ==
    ASSUME Plenty, NullDistinct, HInv, NEW l \in Layouts, Create(l)
    PROVE  HInv'
<1>1. handles' = handles
  BY DEF Create, CreateMmap, CreateFile, CreateFails, CreateMemory
<1>2. CASE UNCHANGED <<memfs, heap>>
  <2>1. Owners' = Owners
    BY <1>1, <1>2 DEF Owners
  <2> QED
    BY <1>1, <1>2, <2>1 DEF HInv, HandlesOK
<1>3. CASE CreateMemory(l)
  <2> DEFINE b == Malloc(1)[1]
             rest == Owners \ MemfsOwners
             kept == IF memfs = NULL THEN heap ELSE heap \ {memfs.block}
  <2>1. b \notin heap /\ b \in Blocks
    BY MallocFresh DEF HInv
  <2>2. heap' = kept \cup {b} /\ memfs'.block = b /\ memfs' # NULL
    BY <1>3 DEF CreateMemory, MemfsAppend, NullDistinct
  <2>3. Exact(kept, rest) /\ IsFiniteSet(kept)
    <3>1. CASE memfs = NULL
      BY <3>1 DEF HInv, MemfsOwners
    <3>2. CASE memfs # NULL
      <4>1. <<NULL, "memfs", memfs.block>> \in Owners
        BY <3>2 DEF Owners
      <4> QED
        BY <3>2, <4>1, ExactRemoves, FS_RemoveElement DEF HInv, MemfsOwners
    <3> QED
      BY <3>1, <3>2
  <2>4. Owners' = rest \cup {<<NULL, "memfs", b>>}
    BY <1>1, <2>2 DEF Owners, MemfsOwners
  <2>5. Exact(heap', Owners')
    <3> DEFINE t == <<NULL, "memfs", b>>
    <3>1. t[3] = b
      OBVIOUS
    <3>2. t[3] \notin kept
      BY <3>1, <2>1
    <3> HIDE DEF b, rest, kept, t
    <3>3. Exact(kept \cup {t[3]}, rest \cup {t})
      BY <3>2, <2>3, ExactAdds
    <3> QED
      BY <3>1, <3>3, <2>2, <2>4 DEF t
  <2>6. IsFiniteSet(heap')
    BY <2>2, <2>3, FS_AddElement
  <2> QED
    BY <1>1, <2>5, <2>6 DEF HInv, HandlesOK
<1> QED
  BY <1>2, <1>3 DEF Create, CreateMmap, CreateFile, CreateFails

\* wsp_open and wsp_close touch one handle; the others own what they owned.
LEMMA OthersKept ==
    ASSUME HandlesOK, NEW h \in Handles, NEW w, HandleOK(h, w),
           handles' = [handles EXCEPT ![h] = w]
    PROVE  /\ HandlesOK'
           /\ handles'[h] = w
           /\ \A k \in Handles : k # h => handles'[k] = handles[k]
BY DEF HandlesOK

LEMMA OpenFailsHandles ==
    ASSUME HInv, NEW h \in Handles, NEW mapping, NEW flags, OpenFails(h, mapping, flags)
    PROVE  HInv'
<1> DEFINE w == Chosen(handles[h], mapping)
<1>1. HandleOK(h, handles[h]) /\ HandlesOK
  BY DEF HInv, HandlesOK
<1>2. /\ DOMAIN w = Fields /\ w = [f \in Fields |-> w[f]]
      /\ w.io = mapping /\ w.mapping = mapping
      /\ w.instance = handles[h].instance /\ w.archives = handles[h].archives
      /\ w.manual_buf = handles[h].manual_buf
  BY <1>1 DEF Chosen, HandleOK, Fields
<1>3. handles' = [handles EXCEPT ![h] = w]
  BY DEF OpenFails
<1> HIDE DEF w
<1>4. HandleOK(h, w)
  BY <1>1, <1>2 DEF HandleOK
<1>5. /\ HandlesOK' /\ handles'[h] = w
      /\ \A k \in Handles : k # h => handles'[k] = handles[k]
  BY <1>1, <1>3, <1>4, OthersKept
<1>6. /\ memfs' = memfs /\ heap' = heap
      /\ \A k \in Handles : /\ handles'[k].instance = handles[k].instance
                          /\ handles'[k].archives = handles[k].archives
  BY <1>2, <1>5 DEF OpenFails
<1>7. Owners' = Owners
  BY <1>6 DEF Owners
<1> QED
  BY <1>5, <1>6, <1>7 DEF HInv

LEMMA OpenHandles ==
    ASSUME Plenty, NullDistinct, Unmixed, HInv,
           NEW h \in Handles, NEW mapping \in MappingsOf[h], NEW flags,
           Open(h, mapping, flags)
    PROVE  HInv'
<1> DEFINE old == handles[h]
           b == Malloc(2)
           file == Found(mapping, flags)
           loads == LoadsMetadata(mapping, file) /\ LoadsArchives(mapping, file)
           w == [Chosen(old, mapping) EXCEPT
                    !.instance = b[1], !.manual_buf = ManualBuf(old, mapping)]
           new == IF loads
                  THEN [w EXCEPT !.archives = [block |-> b[2], table |-> file.archives]]
                  ELSE w
<1>1. /\ HandleOK(h, old) /\ HandlesOK
      /\ old.instance = NULL /\ old.archives = NULL
  BY DEF HInv, HandlesOK, HandleOK, Open
<1>2. /\ b[1] \in Blocks /\ b[1] \notin heap /\ b[1] # NULL
      /\ b[2] \in Blocks /\ b[2] \notin heap /\ b[2] # b[1]
  BY MallocFresh, BlocksAssumption DEF HInv
<1>3. mapping \in {"FILE", "MMAP", "MEMORY"}
  BY MappingsAssumption
<1>4. /\ DOMAIN w = Fields /\ w = [f \in Fields |-> w[f]]
      /\ w.io = mapping /\ w.mapping = mapping
      /\ w.instance = b[1] /\ w.archives = NULL
      /\ w.manual_buf = ManualBuf(old, mapping)
  BY <1>1 DEF Chosen, HandleOK, Fields
<1>5. w.manual_buf => "FILE" \in MappingsOf[h]
  BY <1>1, <1>3, <1>4 DEF ManualBuf, HandleOK
<1>6. FreedByReading(w) = {}
  BY <1>4, <1>5 DEF FreedByReading, Unmixed
<1>7. /\ handles' = [handles EXCEPT ![h] = new]
      /\ heap' = heap \cup {b[1]} \cup (IF loads THEN {b[2]} ELSE {})
      /\ memfs' = memfs
  BY <1>6 DEF Open
<1> HIDE DEF w
<1>8. /\ DOMAIN new = Fields /\ new = [f \in Fields |-> new[f]]
      /\ new.io = mapping /\ new.mapping = mapping
      /\ new.instance = b[1] /\ new.manual_buf = w.manual_buf
      /\ loads => new.archives # NULL /\ new.archives.block = b[2]
      /\ ~ loads => new.archives = NULL
  BY <1>4 DEF Fields, NullDistinct
<1> HIDE DEF new, loads, b
<1>9. HandleOK(h, new)
  BY <1>2, <1>5, <1>8 DEF HandleOK
<1>10. /\ HandlesOK' /\ handles'[h] = new
       /\ \A k \in Handles : k # h => handles'[k] = handles[k]
  BY <1>1, <1>7, <1>9, OthersKept
<1> DEFINE i == <<h, "instance", b[1]>>
           a == <<h, "archives", b[2]>>
<1>11. Exact(heap \cup {b[1]}, Owners \cup {i}) /\ IsFiniteSet(heap \cup {b[1]})
  <2>1. i[3] = b[1]
    OBVIOUS
  <2> HIDE DEF i
  <2> QED
    BY <2>1, <1>2, ExactAdds, FS_AddElement DEF HInv
<1>12. CASE loads
  <2>1. Exact(heap \cup {b[1]} \cup {b[2]}, Owners \cup {i} \cup {a})
    <3>1. a[3] = b[2] /\ b[2] \notin heap \cup {b[1]}
      BY <1>2
    <3> HIDE DEF a, i
    <3> QED
      BY <3>1, <1>11, ExactAdds
  <2>2. Owners' = Owners \cup {i} \cup {a}
    BY <1>1, <1>2, <1>7, <1>8, <1>10, <1>12 DEF Owners
  <2>3. IsFiniteSet(heap \cup {b[1]} \cup {b[2]})
    BY <1>11, FS_AddElement
  <2> QED
    BY <2>1, <2>2, <2>3, <1>7, <1>10, <1>12 DEF HInv
<1>13. CASE ~ loads
  <2>1. InstanceOwners' = InstanceOwners \cup {i}
    BY <1>1, <1>2, <1>8, <1>10 DEF InstanceOwners
  <2>2. ArchivesOwners' = ArchivesOwners
    BY <1>1, <1>8, <1>10, <1>13 DEF ArchivesOwners
  <2>3. MemfsOwners' = MemfsOwners
    BY <1>7 DEF MemfsOwners
  <2>4. Owners' = Owners \cup {i}
    BY <2>1, <2>2, <2>3, OwnersByPart
  <2> QED
    BY <2>4, <1>7, <1>10, <1>11, <1>13 DEF HInv
<1> QED
  BY <1>12, <1>13


\* By the time io->close is asked, a handle that is open has the functions of its
\* mapping: wsp_close cannot refuse it.
LEMMA CloseHandles ==
    ASSUME HInv, NEW h \in Handles, Close(h)
    PROVE  HInv' /\ handles'[h].instance = NULL
<1> DEFINE old == handles[h]
           w == IF IoCheck(old)
                THEN [Closed EXCEPT !.mapping = old.mapping,
                                    !.manual_buf = old.manual_buf]
                ELSE [old EXCEPT !.archives = NULL]
           archives == IF old.archives = NULL THEN {} ELSE {old.archives.block}
<1>1. HandleOK(h, old) /\ HandlesOK
  BY DEF HInv, HandlesOK
<1>2. /\ handles' = [handles EXCEPT ![h] = w]
      /\ heap' = heap \ (archives \cup IF IoCheck(old) THEN {old.instance} ELSE {})
      /\ memfs' = memfs
  BY DEF Close
<1>3. /\ DOMAIN w = Fields /\ w = [f \in Fields |-> w[f]]
      /\ w.instance = NULL /\ w.archives = NULL
      /\ w.manual_buf = old.manual_buf
  BY <1>1 DEF HandleOK, IoCheck, Closed, Fields
<1> HIDE DEF w
<1>4. HandleOK(h, w)
  BY <1>1, <1>3 DEF HandleOK
<1>5. /\ HandlesOK' /\ handles'[h] = w
      /\ \A k \in Handles : k # h => handles'[k] = handles[k]
  BY <1>1, <1>2, <1>4, OthersKept
<1>6. IsFiniteSet(heap')
  BY <1>2, FS_Subset DEF HInv
<1>7. MemfsOwners' = MemfsOwners
  BY <1>2 DEF MemfsOwners
<1>8. Exact(heap', Owners')
  <2>1. CASE ~ IoCheck(old)
    <3>1. old.instance = NULL /\ old.archives = NULL
      BY <2>1, <1>1 DEF IoCheck, HandleOK
    <3>2. InstanceOwners' = InstanceOwners /\ ArchivesOwners' = ArchivesOwners
      BY <3>1, <1>3, <1>5 DEF InstanceOwners, ArchivesOwners
    <3>3. Owners' = Owners
      BY <3>2, <1>7, OwnersByPart
    <3>4. heap' = heap
      BY <2>1, <3>1, <1>2
    <3> QED
      BY <3>3, <3>4 DEF HInv
  <2>2. CASE IoCheck(old)
    <3> DEFINE i == <<h, "instance", old.instance>>
               a == <<h, "archives", old.archives.block>>
    <3>1. i \in Owners /\ i[3] = old.instance /\ i \in InstanceOwners
      BY <2>2 DEF IoCheck, Owners, InstanceOwners
    <3>2. Exact(heap \ {old.instance}, Owners \ {i})
      <4>1. Exact(heap \ {i[3]}, Owners \ {i})
        BY <3>1, ExactRemoves DEF HInv
      <4> QED
        BY <4>1, <3>1
    <3>3. InstanceOwners' = InstanceOwners \ {i}
      BY <1>3, <1>5 DEF InstanceOwners
    <3>4. i \notin ArchivesOwners /\ i \notin MemfsOwners
      BY DEF ArchivesOwners, MemfsOwners
    <3>5. CASE old.archives = NULL
      <4>1. ArchivesOwners' = ArchivesOwners
        BY <3>5, <1>3, <1>5 DEF ArchivesOwners
      <4>2. Owners' = Owners \ {i}
        BY <4>1, <3>3, <3>4, <1>7, OwnersByPart
      <4>3. heap' = heap \ {old.instance}
        BY <3>5, <2>2, <1>2
      <4> QED
        BY <4>2, <4>3, <3>2
    <3>6. CASE old.archives # NULL
      <4>1. a \in ArchivesOwners /\ a \in Owners \ {i} /\ a[3] = old.archives.block
        BY <3>6 DEF ArchivesOwners, Owners
      <4>2. Exact((heap \ {old.instance}) \ {old.archives.block}, (Owners \ {i}) \ {a})
        <5>1. Exact((heap \ {old.instance}) \ {a[3]}, (Owners \ {i}) \ {a})
          <6> HIDE DEF a, i
          <6> QED
            BY <4>1, <3>2, ExactRemoves
        <5> QED
          BY <5>1, <4>1
      <4>3. ArchivesOwners' = ArchivesOwners \ {a}
        BY <1>3, <1>5 DEF ArchivesOwners
      <4>4. a \notin InstanceOwners /\ a \notin MemfsOwners
        BY DEF InstanceOwners, MemfsOwners
      <4>5. Owners' = (Owners \ {i}) \ {a}
        BY <4>3, <4>4, <3>3, <3>4, <1>7, OwnersByPart
      <4>6. heap' = (heap \ {old.instance}) \ {old.archives.block}
        BY <3>6, <2>2, <1>2
      <4> QED
        BY <4>2, <4>5, <4>6
    <3> QED
      BY <3>5, <3>6
  <2> QED
    BY <2>1, <2>2
<1> QED
  BY <1>3, <1>5, <1>6, <1>8 DEF HInv

-----------------------------------------------------------------------------
(* Steps and theorems.                                                     *)

LEMMA UseHandles ==
    ASSUME Plenty, NullDistinct, Unmixed, HInv, NEW h \in Handles, Use(h)
    PROVE  HInv'
<1>1. ASSUME NEW m \in MappingsOf[h], NEW f \in Flags, OpenRefused(h, m, f)
      PROVE  HInv'
  BY <1>1 DEF OpenRefused, vars, HInv, HandlesOK, Owners
<1> QED
  BY <1>1, OpenFailsHandles, OpenHandles, CloseHandles DEF Use

LEMMA IdleHandles ==
    ASSUME HInv, UNCHANGED <<handles, memfs, heap>>
    PROVE  HInv'
BY DEF HInv, HandlesOK, Owners

LEMMA NextHandles ==
    ASSUME Plenty, NullDistinct, Unmixed, HInv, [Next]_vars
    PROVE  HInv'
BY CreateHandles, UseHandles, IdleHandles DEF Next, vars

\* Whatever the handles, the databases and the order of calls, every block in use
\* has one owner and every owner's block is in use.
THEOREM MemoryIsExact ==
    ASSUME Plenty, NullDistinct, Unmixed
    PROVE  Spec => []HeapExact
<1>1. Init => HInv
  BY InitHandles
<1>2. HInv /\ [Next]_vars => HInv'
  BY NextHandles
<1>3. HInv => HeapExact
  BY ExactCardinality DEF HInv, Exact, HeapExact
<1> QED
  BY <1>1, <1>2, <1>3, PTL DEF Spec

\* A handle given to wsp_close can be opened again.
THEOREM ClosedReopens ==
    ASSUME Plenty, NullDistinct, Unmixed
    PROVE  Spec => Reopens
<1>1. Init => HInv
  BY InitHandles
<1>2. HInv /\ [Next]_vars => HInv'
  BY NextHandles
<1>3. HInv /\ [Next]_vars
        => [\A h \in Handles : Close(h) => handles'[h].instance = NULL]_vars
  BY CloseHandles
<1> QED
  BY <1>1, <1>2, <1>3, PTL DEF Spec, Reopens

-----------------------------------------------------------------------------
(* Files, types, and the archives that handles have loaded.                *)

Mappings == {"FILE", "MMAP", "MEMORY"}

\* Tables that both wsp_create and wsp_open have checked.
Loadable == {t \in Tables : \A i \in 2 .. Len(t) : ValidArchive(t[i - 1], t[i])}

\* A header that was written has the table of a layout that was accepted.
FileOK(file) ==
    /\ file = [aggregation |-> file.aggregation,
               archives |-> file.archives, size |-> file.size]
    /\ file.aggregation \in {0, 1} /\ file.size \in Nat
    /\ file.aggregation = 1 => file.archives \in Tables

FilesOK ==
    /\ disk # NULL => FileOK(disk)
    /\ memfs # NULL => /\ memfs = [block |-> memfs.block, file |-> memfs.file]
                       /\ memfs.block \in Blocks
                       /\ FileOK(memfs.file) /\ memfs.file.aggregation = 1

WspT == [io : Mappings \cup {NULL}, mapping : Mappings \cup {NULL},
         instance : Blocks \cup {NULL}, manual_buf : BOOLEAN,
         archives : [block : Blocks, table : Loadable] \cup {NULL}]

\* What TypeOK says of files is not enough for what is loaded from them.
TypeInv ==
    /\ handles \in [Handles -> WspT]
    /\ heap \subseteq Blocks /\ IsFiniteSet(heap)
    /\ FilesOK

LEMMA DatabaseFile ==
    ASSUME NEW l \in Layouts, Accepted(l)
    PROVE  /\ FileOK(Database(l)) /\ Database(l).aggregation = 1
           /\ DatabaseSize(l) \in Nat /\ HeaderSize(Len(l)) \in Nat
<1>1. IsLayout(l)
  BY LayoutsAssumption DEF IsLayout
<1>2. Len(l) \in Nat /\ HeaderSize(Len(l)) \in Nat
  BY <1>1, LayoutFacts
<1>3. Len(l) \in 0 .. Len(l)
  BY <1>2
<1>4. DatabaseSize(l) \in Nat
  BY <1>1, <1>2, <1>3, PointsEndGrows DEF DatabaseSize
<1>5. Table(l) \in Tables
  BY DEF Tables
<1> QED
  BY <1>2, <1>4, <1>5 DEF FileOK, Database

LEMMA ResizedFile ==
    ASSUME FilesOK, NEW n \in Nat
    PROVE  FileOK(Resized(n))
BY DEF FilesOK, FileOK, Resized, Zeros

LEMMA CreateTypes ==
    ASSUME Plenty, TypeInv, NEW l \in Layouts, Create(l)
    PROVE  TypeInv'
<1>1. handles' = handles
  BY DEF Create, CreateMmap, CreateFile, CreateFails, CreateMemory
<1>2. Accepted(l)
  BY DEF Create, CreateMmap, CreateFile, CreateFails, CreateMemory
<1>3. CASE CreateMemory(l)
  <2> DEFINE b == Malloc(1)[1]
  <2>1. b \in Blocks
    BY MallocFresh DEF TypeInv
  <2>2. memfs' = [block |-> b, file |-> Database(l)] /\ disk' = disk
    BY <1>3 DEF CreateMemory, MemfsAppend
  <2>3. FilesOK'
    BY <1>2, <2>1, <2>2, DatabaseFile DEF TypeInv, FilesOK, FileOK, Tables
  <2>4. heap' \subseteq Blocks /\ IsFiniteSet(heap')
    <3> DEFINE kept == IF memfs = NULL THEN heap ELSE heap \ {memfs.block}
    <3>1. kept \subseteq Blocks /\ IsFiniteSet(kept)
      BY FS_RemoveElement DEF TypeInv
    <3>2. heap' = kept \cup {b}
      BY <1>3 DEF CreateMemory, MemfsAppend
    <3> HIDE DEF kept, b
    <3> QED
      BY <3>1, <3>2, <2>1, FS_AddElement
  <2> QED
    BY <1>1, <2>3, <2>4 DEF TypeInv, WspT, Loadable, Tables
<1>4. CASE CreateMmap(l) \/ CreateFile(l) \/ CreateFails(l)
  <2>1. memfs' = memfs /\ heap' = heap
    BY <1>4 DEF CreateMmap, CreateFile, CreateFails
  <2>2. FileOK(disk')
    <3>1. CASE CreateMmap(l)
      BY <3>1, <1>2, DatabaseFile DEF CreateMmap
    <3>2. CASE CreateFile(l)
      <4>1. DatabaseSize(l) + HeaderSize(Len(l)) \in Nat
        BY <1>2, DatabaseFile
      <4> QED
        BY <3>2, <4>1, ResizedFile DEF CreateFile, TypeInv
    <3>3. CASE CreateFails(l)
      <4>1. (IF disk = NULL THEN 0 ELSE disk.size) \in Nat
        BY DEF TypeInv, FilesOK, FileOK
      <4> QED
        BY <3>3, <4>1, <1>2, DatabaseFile, ResizedFile DEF CreateFails, TypeInv
    <3> QED
      BY <1>4, <3>1, <3>2, <3>3
  <2>3. FilesOK'
    BY <2>1, <2>2 DEF TypeInv, FilesOK, FileOK, Tables
  <2> QED
    BY <1>1, <2>1, <2>3 DEF TypeInv, WspT, Loadable, Tables
<1> QED
  BY <1>3, <1>4 DEF Create

LEMMA OpenFailsTypes ==
    ASSUME TypeInv, NEW h \in Handles, NEW m \in MappingsOf[h], NEW flags,
           OpenFails(h, m, flags)
    PROVE  TypeInv'
<1>1. m \in Mappings
  BY MappingsAssumption DEF Mappings
<1>2. handles[h] \in WspT
  BY DEF TypeInv
<1>3. Chosen(handles[h], m) \in WspT
  BY <1>1, <1>2 DEF Chosen, WspT
<1>4. handles' \in [Handles -> WspT]
  BY <1>3 DEF OpenFails, TypeInv
<1> QED
  BY <1>4 DEF OpenFails, TypeInv, FilesOK, FileOK, Tables, WspT, Loadable

\* What wsp_open finds is a file; one it can load from has a header.
LEMMA FoundFile ==
    ASSUME FilesOK, NEW m \in Mappings, NEW flags, Found(m, flags) # NULL
    PROVE  /\ FileOK(Found(m, flags))
           /\ LoadsMetadata(m, Found(m, flags)) => Found(m, flags).aggregation = 1
<1>1. FileOK(Zeros(0))
  BY DEF Zeros, FileOK
<1>2. FileOK(Found(m, flags))
  <2>1. CASE m = "FILE"
    BY <2>1, <1>1 DEF Found, FilesOK
  <2>2. CASE m = "MMAP"
    BY <2>2 DEF Found, FilesOK
  <2>3. CASE m = "MEMORY"
    BY <2>3 DEF Found, FilesOK
  <2> QED
    BY <2>1, <2>2, <2>3 DEF Mappings
<1> QED
  BY <1>2 DEF FileOK, LoadsMetadata

LEMMA OpenTypes ==
    ASSUME Plenty, TypeInv, NEW h \in Handles, NEW m \in MappingsOf[h], NEW flags,
           Open(h, m, flags)
    PROVE  TypeInv'
<1> DEFINE old == handles[h]
           file == Found(m, flags)
           b == Malloc(2)
           w == [Chosen(old, m) EXCEPT
                    !.instance = b[1], !.manual_buf = ManualBuf(old, m)]
           loads == LoadsMetadata(m, file) /\ LoadsArchives(m, file)
           new == IF loads
                  THEN [w EXCEPT !.archives = [block |-> b[2], table |-> file.archives]]
                  ELSE w
<1>1. m \in Mappings
  BY MappingsAssumption DEF Mappings
<1>2. old \in WspT
  BY DEF TypeInv
<1>3. b[1] \in Blocks /\ b[2] \in Blocks
  BY MallocFresh DEF TypeInv
<1>4. ManualBuf(old, m) \in BOOLEAN
  BY <1>1, <1>2 DEF ManualBuf, Mappings, WspT
<1>5. w \in WspT
  <2> HIDE DEF b
  <2> QED
    BY <1>1, <1>2, <1>3, <1>4 DEF Chosen, WspT
<1>6. FileOK(file) /\ (LoadsMetadata(m, file) => file.aggregation = 1)
  BY <1>1, FoundFile DEF Open, TypeInv
<1>7. loads => file.archives \in Loadable
  <2> HIDE DEF file
  <2> QED
    BY <1>6 DEF FileOK, LoadsArchives, Loadable
<1>8. new \in WspT
  <2> HIDE DEF w, b, loads, file
  <2> QED
    BY <1>3, <1>5, <1>7 DEF WspT
<1>9. handles' = [handles EXCEPT ![h] = new]
  BY DEF Open
<1>10. handles' \in [Handles -> WspT]
  <2> HIDE DEF new
  <2> QED
    BY <1>8, <1>9 DEF TypeInv
<1>11. heap' \subseteq Blocks /\ IsFiniteSet(heap')
  <2>1. heap' \subseteq heap \cup {b[1]} \cup {b[2]}
    <3>1. heap' = (heap \cup {b[1]} \cup (IF loads THEN {b[2]} ELSE {})) \ FreedByReading(w)
      BY DEF Open
    <3> HIDE DEF b, loads, w
    <3> QED
      BY <3>1
  <2>2. IsFiniteSet(heap \cup {b[1]} \cup {b[2]})
    <3>1. IsFiniteSet(heap \cup {b[1]})
      BY FS_AddElement DEF TypeInv
    <3> QED
      BY <3>1, FS_AddElement
  <2>3. IsFiniteSet(heap')
    BY <2>1, <2>2, FS_Subset
  <2> HIDE DEF b
  <2> QED
    BY <2>1, <2>3, <1>3 DEF TypeInv
<1>12. FilesOK'
  <2>1. disk' \in {disk, file} /\ memfs' = memfs
    BY DEF Open
  <2> HIDE DEF file
  <2> QED
    BY <2>1, <1>6 DEF TypeInv, FilesOK, FileOK, Tables
<1> QED
  BY <1>10, <1>11, <1>12 DEF TypeInv, WspT, Loadable, Tables

LEMMA CloseTypes ==
    ASSUME TypeInv, NEW h \in Handles, Close(h)
    PROVE  TypeInv'
<1> DEFINE old == handles[h]
           new == IF IoCheck(old)
                  THEN [Closed EXCEPT !.mapping = old.mapping,
                                      !.manual_buf = old.manual_buf]
                  ELSE [old EXCEPT !.archives = NULL]
<1>1. old \in WspT
  BY DEF TypeInv
<1>2. new \in WspT
  BY <1>1 DEF WspT, Closed
<1>3. handles' = [handles EXCEPT ![h] = new]
  BY DEF Close
<1>4. handles' \in [Handles -> WspT]
  <2> HIDE DEF new
  <2> QED
    BY <1>2, <1>3 DEF TypeInv
<1>5. heap' \subseteq heap
  BY DEF Close
<1>6. heap' \subseteq Blocks /\ IsFiniteSet(heap')
  BY <1>5, FS_Subset DEF TypeInv
<1>7. disk' = disk /\ memfs' = memfs
  BY DEF Close
<1> QED
  BY <1>4, <1>6, <1>7 DEF TypeInv, FilesOK, FileOK, WspT, Loadable, Tables

LEMMA IdleTypes ==
    ASSUME TypeInv, UNCHANGED vars
    PROVE  TypeInv'
BY DEF vars, TypeInv, FilesOK, FileOK, WspT, Loadable, Tables

LEMMA UseTypes ==
    ASSUME Plenty, TypeInv, NEW h \in Handles, Use(h)
    PROVE  TypeInv'
BY OpenFailsTypes, OpenTypes, CloseTypes, IdleTypes DEF Use, OpenRefused

LEMMA InitTypes == Init => TypeInv
<1> SUFFICES ASSUME Init PROVE TypeInv
  OBVIOUS
<1>1. Closed \in WspT
  BY DEF Closed, WspT
<1>2. handles \in [Handles -> WspT]
  BY <1>1 DEF Init
<1> QED
  BY <1>2, FS_EmptySet DEF Init, TypeInv, FilesOK

LEMMA NextTypes ==
    ASSUME Plenty, TypeInv, [Next]_vars
    PROVE  TypeInv'
BY CreateTypes, UseTypes, IdleTypes DEF Next

LEMMA TypesTyped == TypeInv => TypeOK
BY DEF TypeInv, TypeOK, WspT, Loadable, Mappings, FilesOK, FileOK

LEMMA TypesUsable == TypeInv => UsableArchives
<1> SUFFICES ASSUME TypeInv, NEW h \in Handles, handles[h].archives # NULL,
                    NEW t, t = handles[h].archives.table
             PROVE  /\ \A i \in DOMAIN t : t[i].spp > 0 /\ t[i].count > 0
                    /\ \A i, j \in DOMAIN t : i < j => Follows(t[i], t[j])
  BY DEF UsableArchives, Follows
<1>1. t \in Loadable
  BY DEF TypeInv, WspT
<1>2. PICK l \in Layouts : Accepted(l) /\ t = Table(l)
  BY <1>1 DEF Loadable, Tables
<1>3. IsLayout(l)
  BY LayoutsAssumption DEF IsLayout
<1>4. PICK N \in Nat : N = Len(l) /\ DOMAIN l = 1 .. N /\ Len(t) = N /\ DOMAIN t = 1 .. N
  BY <1>2, <1>3, LayoutFacts, TableIsSequence
<1>5. ASSUME NEW i \in 1 .. N
      PROVE  t[i].spp > 0 /\ t[i].count > 0
  <2>1. t[i].spp = l[i].spp /\ t[i].count = l[i].count
    BY <1>2, <1>3, <1>4, TableFacts
  <2> QED
    BY <2>1, <1>2, <1>4 DEF Accepted
<1>6. ASSUME NEW i \in 1 .. N, NEW j \in 1 .. N, i < j
      PROVE  Follows(t[i], t[j])
  <2>1. j \in i + 1 .. N
    BY <1>6
  <2>2. \A k \in 2 .. Len(l) : ValidArchive(Table(l)[k - 1], Table(l)[k])
    BY <1>1, <1>2, <1>4 DEF Loadable
  <2> QED
    BY <2>1, <2>2, <1>2, <1>3, <1>4, ArchivesFollow
<1> QED
  BY <1>4, <1>5, <1>6

\* Handles, files and memory hold what the types say.
THEOREM HandlesTypeCorrect ==
    ASSUME Plenty
    PROVE  Spec => []TypeOK
<1>1. Init => TypeInv
  BY InitTypes
<1>2. TypeInv /\ [Next]_vars => TypeInv'
  BY NextTypes
<1>3. TypeInv => TypeOK
  BY TypesTyped
<1> QED
  BY <1>1, <1>2, <1>3, PTL DEF Spec

\* Archives are loaded only from headers that wsp_create has written and wsp_open
\* has checked, and what these check of neighbours makes all pairs fit.
THEOREM LoadedArchivesUsable ==
    ASSUME Plenty
    PROVE  Spec => []UsableArchives
<1>1. Init => TypeInv
  BY InitTypes
<1>2. TypeInv /\ [Next]_vars => TypeInv'
  BY NextTypes
<1>3. TypeInv => UsableArchives
  BY TypesUsable
<1> QED
  BY <1>1, <1>2, <1>3, PTL DEF Spec

-----------------------------------------------------------------------------
(* The binding.                                                            *)

\* What becomes of a handle that has nothing to do with a step: nothing.
LEMMA OtherHandles ==
    ASSUME HandlesOK, NEW h \in Handles,
           \/ Use(h)
           \/ Close(h)
           \/ \E m \in MappingsOf[h] : OpenBase(h, m),
           NEW k \in Handles, k # h
    PROVE  handles'[k] = handles[k]
<1>1. \/ handles' = handles
      \/ \E w : handles' = [handles EXCEPT ![h] = w]
  BY DEF Use, OpenBase, OpenRefused, OpenFails, Open, Close, vars
<1> QED
  BY <1>1 DEF HandlesOK

\* The base and the objects built for it: while they are being built there are no
\* archives to see.
WhisperOK ==
    /\ whisper = [base |-> whisper.base, archives |-> whisper.archives]
    /\ freed \subseteq given /\ given \subseteq Handles
    /\ opening # NULL =>
         /\ opening = whisper.base /\ whisper.archives = NULL
         /\ opening \in given \ freed
         /\ handles[opening].instance # NULL /\ handles[opening].archives # NULL

PyInv == HInv /\ WhisperOK /\ AttributesMirrorBase

LEMMA PyInitInv == PyInit => PyInv
BY InitHandles DEF PyInit, PyInv, WhisperOK, AttributesMirrorBase, NewWhisper

\* Steps that leave the object and its handle alone.
LEMMA BaseKept ==
    ASSUME PyInv, UNCHANGED pyvars,
           whisper.base \in given => handles'[whisper.base] = handles[whisper.base]
    PROVE  WhisperOK' /\ AttributesMirrorBase'
BY DEF PyInv, pyvars, WhisperOK, AttributesMirrorBase

LEMMA WhisperOpenInv ==
    ASSUME Plenty, NullDistinct, Unmixed, PyInv,
           NEW h \in Handles, NEW m \in MappingsOf[h], WhisperOpen(h, m)
    PROVE  PyInv'
<1>1. HInv'
  BY OpenFailsHandles, OpenHandles DEF PyInv, WhisperOpen, OpenBase
<1>2. CASE handles'[h].archives = NULL
  <2>1. whisper' = [base |-> whisper.base, archives |-> NULL] /\ opening' = NULL
    BY <1>2 DEF WhisperOpen, PyInv, WhisperOK
  <2> QED
    BY <1>1, <2>1 DEF WhisperOpen, PyInv, WhisperOK, AttributesMirrorBase
<1>3. CASE handles'[h].archives # NULL
  <2>1. whisper' = [base |-> h, archives |-> NULL] /\ opening' = h
    BY <1>3 DEF WhisperOpen
  <2>2. handles'[h].instance # NULL
    BY <1>1, <1>3 DEF HInv, HandlesOK, HandleOK
  <2>3. h \in given' /\ given' \subseteq Handles /\ freed' = freed /\ freed' \subseteq given'
    BY <1>3 DEF WhisperOpen, PyInv, WhisperOK
  <2>4. h \notin freed
    BY DEF WhisperOpen, Fresh, PyInv, WhisperOK
  <2> QED
    BY <1>1, <1>3, <2>1, <2>2, <2>3, <2>4 DEF PyInv, WhisperOK, AttributesMirrorBase
<1> QED
  BY <1>2, <1>3

LEMMA WhisperBuiltInv ==
    ASSUME PyInv, WhisperBuilt
    PROVE  PyInv'
<1> DEFINE base == handles[whisper.base]
           seen == [i \in DOMAIN base.archives.table |-> Reloaded(base.archives.table[i])]
<1>1. HInv'
  BY IdleHandles DEF WhisperBuilt, PyInv
<1>2. whisper' = [base |-> whisper.base, archives |-> seen]
  BY DEF WhisperBuilt, PyInv, WhisperOK
<1>3. /\ opening' = NULL /\ handles' = handles /\ given' = given /\ freed' = freed
      /\ whisper.base \in given \ freed
      /\ base.instance # NULL /\ base.archives # NULL
  BY DEF WhisperBuilt, PyInv, WhisperOK
<1>4. WhisperOK'
  BY <1>2, <1>3 DEF PyInv, WhisperOK
<1>5. seen = [i \in DOMAIN base.archives.table |->
                 [spp   |-> base.archives.table[i].spp,
                  count |-> base.archives.table[i].count]]
  BY DEF Reloaded
<1>6. AttributesMirrorBase'
  BY <1>2, <1>3, <1>5 DEF AttributesMirrorBase
<1> QED
  BY <1>1, <1>4, <1>6 DEF PyInv

LEMMA WhisperBuildFailsInv ==
    ASSUME PyInv, WhisperBuildFails
    PROVE  PyInv'
<1>1. opening \in Handles /\ whisper.archives = NULL
  BY DEF WhisperBuildFails, PyInv, WhisperOK
<1>2. HInv'
  BY <1>1, CloseHandles DEF WhisperBuildFails, PyInv
<1> QED
  BY <1>1, <1>2 DEF WhisperBuildFails, PyInv, WhisperOK, AttributesMirrorBase

LEMMA ElsewhereInv ==
    ASSUME Plenty, NullDistinct, Unmixed, PyInv, Elsewhere
    PROVE  PyInv'
<1>1. CASE \E l \in Layouts : Create(l)
  <2>1. HInv'
    BY <1>1, CreateHandles DEF PyInv
  <2>2. handles' = handles
    BY <1>1 DEF Create, CreateMmap, CreateFile, CreateFails, CreateMemory
  <2> QED
    BY <2>1, <2>2, BaseKept DEF Elsewhere, PyInv
<1>2. CASE \E h \in Handles \ given : Use(h)
  <2>1. PICK h \in Handles \ given : Use(h)
    BY <1>2
  <2>2. HInv'
    BY <2>1, UseHandles DEF PyInv
  <2>3. whisper.base \in given => handles'[whisper.base] = handles[whisper.base]
    BY <2>1, OtherHandles DEF PyInv, HInv, WhisperOK
  <2> QED
    BY <2>2, <2>3, BaseKept DEF Elsewhere, PyInv
<1> QED
  BY <1>1, <1>2 DEF Elsewhere

LEMMA PyNextInv ==
    ASSUME Plenty, NullDistinct, Unmixed, PyInv, [PyNext]_<<vars, pyvars>>
    PROVE  PyInv'
<1>1. ASSUME UNCHANGED <<vars, pyvars>> PROVE PyInv'
  <2>1. HInv'
    BY <1>1, IdleHandles DEF PyInv, vars
  <2> QED
    BY <1>1, <2>1, BaseKept DEF vars, PyInv
<1> QED
  BY <1>1, WhisperOpenInv, WhisperBuiltInv, WhisperBuildFailsInv, ElsewhereInv DEF PyNext

\* Whichever opens fail and wherever they fail, a script sees the archives of a base
\* that is open.
THEOREM ScriptSeesOpenBase ==
    ASSUME Plenty, NullDistinct, Unmixed
    PROVE  PySpec => []AttributesMirrorBase
<1>1. PyInit => PyInv
  BY PyInitInv
<1>2. PyInv /\ [PyNext]_<<vars, pyvars>> => PyInv'
  BY PyNextInv
<1>3. PyInv => AttributesMirrorBase
  BY DEF PyInv
<1> QED
  BY <1>1, <1>2, <1>3, PTL DEF PySpec

\* The owners in reach and the lost ones are all.
LEMMA ReachOrLost ==
    ASSUME WhisperOK
    PROVE  Owners = OwnersInReach \cup OwnersLost
<1>1. \A o \in Owners : o[1] \in Handles \cup {NULL}
  BY DEF Owners
<1> QED
  BY <1>1 DEF WhisperOK, OwnersInReach, OwnersLost, InReach

\* The binding frees handles without closing them and forgets others: what these
\* held is all that is lost, and no memory is freed under a handle or shared.
THEOREM BindingMemoryIsAccounted ==
    ASSUME Plenty, NullDistinct, Unmixed
    PROVE  PySpec => []HeapAccounted
<1>1. PyInit => PyInv
  BY PyInitInv
<1>2. PyInv /\ [PyNext]_<<vars, pyvars>> => PyInv'
  BY PyNextInv
<1>3. PyInv => HeapAccounted
  BY ReachOrLost DEF PyInv, HInv, Exact, HeapAccounted
<1> QED
  BY <1>1, <1>2, <1>3, PTL DEF PySpec

\* The handle a Whisper object is being built for is one of the handles.
PyTypeInv == TypeInv /\ (opening # NULL => opening \in Handles)

LEMMA PyNextTypes ==
    ASSUME Plenty, PyTypeInv, [PyNext]_<<vars, pyvars>>
    PROVE  PyTypeInv'
<1>1. ASSUME UNCHANGED <<vars, pyvars>> PROVE PyTypeInv'
  BY <1>1, IdleTypes DEF pyvars, PyTypeInv
<1>2. ASSUME NEW h \in Handles, NEW m \in MappingsOf[h], WhisperOpen(h, m)
      PROVE  PyTypeInv'
  <2>1. TypeInv'
    BY <1>2, OpenFailsTypes, OpenTypes DEF WhisperOpen, OpenBase, PyTypeInv
  <2> QED
    BY <2>1, <1>2 DEF WhisperOpen, PyTypeInv
<1>3. ASSUME WhisperBuilt PROVE PyTypeInv'
  <2>1. UNCHANGED vars /\ opening' = NULL
    BY <1>3 DEF WhisperBuilt, vars
  <2> QED
    BY <2>1, IdleTypes DEF PyTypeInv
<1>4. ASSUME WhisperBuildFails PROVE PyTypeInv'
  BY <1>4, CloseTypes DEF WhisperBuildFails, PyTypeInv
<1>5. ASSUME Elsewhere PROVE PyTypeInv'
  <2>1. TypeInv'
    BY <1>5, CreateTypes, UseTypes DEF Elsewhere, PyTypeInv
  <2>2. opening' = opening
    BY <1>5 DEF Elsewhere, pyvars
  <2> QED
    BY <2>1, <2>2 DEF PyTypeInv
<1> QED
  BY <1>1, <1>2, <1>3, <1>4, <1>5 DEF PyNext

\* The same of programs that open databases through the binding: neither its
\* failures nor the handles it frees make wsp_open load anything else.
THEOREM BindingArchivesUsable ==
    ASSUME Plenty
    PROVE  PySpec => [](TypeOK /\ UsableArchives)
<1>1. PyInit => PyTypeInv
  BY InitTypes DEF PyInit, PyTypeInv
<1>2. PyTypeInv /\ [PyNext]_<<vars, pyvars>> => PyTypeInv'
  BY PyNextTypes
<1>3. PyTypeInv => TypeOK /\ UsableArchives
  BY TypesTyped, TypesUsable DEF PyTypeInv
<1> QED
  BY <1>1, <1>2, <1>3, PTL DEF PySpec
=============================================================================
