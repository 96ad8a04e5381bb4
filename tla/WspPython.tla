----------------------------- MODULE WspPython -----------------------------
(***************************************************************************)
(* The Whisper object of the python binding on top of the handles of       *)
(* WspHandle.  Whisper.open allocates a wsp_t of its own for every call,   *)
(* opens it and then builds the objects a script sees: one WhisperArchive  *)
(* per archive, holding copies of its spp and count, and the metadata,     *)
(* which comes and goes with them and is left out.  Each of these objects  *)
(* may fail to be built.  Nothing the object has opened is ever closed by  *)
(* it otherwise.  Other users of the library in the same process have      *)
(* handles of their own.                                                   *)
(***************************************************************************)
EXTENDS WspHandle

VARIABLES whisper,  \* the object: base (a handle) and archives, NULL for None
          opening,  \* the handle that open is building objects for, or NULL
          given,    \* the handles the binding has allocated
          freed     \* those among them it has freed

pyvars == <<whisper, opening, given, freed>>

\* Whisper_init.
NewWhisper == [base |-> NULL, archives |-> NULL]

PyInit ==
    /\ Init
    /\ whisper = NewWhisper
    /\ opening = NULL
    /\ given = {}
    /\ freed = {}

\* What PyMem_Malloc and WSP_INIT give: nobody has used this handle before.
Fresh(h) == h \notin given /\ handles[h] = Closed

\* wsp_open as the binding calls it; it has succeeded when archives are loaded.
OpenBase(h, mapping) ==
    \/ OpenFails(h, mapping, "readwrite")
    \/ Open(h, mapping, "readwrite")

WhisperOpen_KeepAttributes(h, mapping) ==
    /\ opening = NULL
    /\ Fresh(h)
    /\ OpenBase(h, mapping)
    /\ given' = given \cup {h}
    /\ IF handles'[h].archives = NULL
       THEN /\ freed' = freed \cup {h}
            /\ UNCHANGED <<whisper, opening>>
       ELSE /\ whisper' = [whisper EXCEPT !.base = h]
            /\ opening' = h
            /\ UNCHANGED freed

\* The attributes go first.  A handle that wsp_open fails on is freed, not
\* closed; the object then keeps the base it had.
WhisperOpen(h, mapping) ==
    /\ opening = NULL
    /\ Fresh(h)
    /\ OpenBase(h, mapping)
    /\ given' = given \cup {h}
    /\ IF handles'[h].archives = NULL
       THEN /\ whisper' = [whisper EXCEPT !.archives = NULL]
            /\ freed' = freed \cup {h}
            /\ UNCHANGED opening
       ELSE /\ whisper' = [base |-> h, archives |-> NULL]
            /\ opening' = h
            /\ UNCHANGED freed

\* WhisperArchive__reload: the copies an archive object holds.
Reloaded(archive) == [spp |-> archive.spp, count |-> archive.count]

\* All objects are there.
WhisperBuilt ==
    LET table == handles[whisper.base].archives.table
    IN  /\ opening # NULL
        /\ whisper' = [whisper EXCEPT
               !.archives = [i \in DOMAIN table |-> Reloaded(table[i])]]
        /\ opening' = NULL
        /\ UNCHANGED <<handles, disk, memfs, heap, given, freed>>

\* One of them is not: the handle is closed and freed, base still refers to it.
WhisperBuildFails ==
    /\ opening # NULL
    /\ Close(opening)
    /\ freed' = freed \cup {opening}
    /\ opening' = NULL
    /\ UNCHANGED <<whisper, given>>

\* Any process may create a database at any time; other handles of this one are
\* used while no method of the object runs.
Elsewhere ==
    /\ \/ \E l \in Layouts : Create(l)
       \/ opening = NULL /\ \E h \in Handles \ given : Use(h)
    /\ UNCHANGED pyvars

PyNext ==
    \/ \E h \in Handles : \E m \in MappingsOf[h] : WhisperOpen(h, m)
    \/ WhisperBuilt
    \/ WhisperBuildFails
    \/ Elsewhere

PySpec == PyInit /\ [][PyNext]_<<vars, pyvars>>
-----------------------------------------------------------------------------
\* The archives a script can see are those of a base that is open and not freed,
\* in its order and with its numbers: whichever opens failed before and wherever
\* they failed, the index load_points takes from one of them is good.
AttributesMirrorBase ==
    whisper.archives # NULL =>
        LET base == handles[whisper.base]
        IN  /\ whisper.base \in given \ freed
            /\ base.instance # NULL /\ base.archives # NULL
            /\ whisper.archives = [i \in DOMAIN base.archives.table |->
                                     [spp   |-> base.archives.table[i].spp,
                                      count |-> base.archives.table[i].count]]

\* The handles somebody can still close: those of other users of the library, and
\* the object's base unless it has been freed.
InReach == (Handles \ given) \cup ({whisper.base} \ freed)

OwnersInReach == {o \in Owners : o[1] \in InReach \cup {NULL}}

\* The owners among those handles that are not: freed without being closed, or
\* replaced as the base by a later open.
OwnersLost == {o \in Owners : o[1] \in given \ InReach}

\* Each live block has one owner, in reach or lost by the binding, and each of
\* these owners' blocks is live: whatever Whisper.open frees, closes and forgets,
\* nothing else is leaked, and no memory that a handle in reach or memfs uses, or
\* a lost one held, is freed or given away.  (That the binding does lose handles
\* is what NothingLost fails for.)
HeapAccounted ==
    /\ heap = {o[3] : o \in OwnersInReach \cup OwnersLost}
    /\ \A o, p \in OwnersInReach \cup OwnersLost : o[3] = p[3] => o = p

\* No memory, and no file or mapping with it, is left to handles that nobody can
\* close: what a Whisper.open that fails has opened is gone when it returns
\* (Whisper_open, wsp_open).
NothingLost == \A b \in heap : \E o \in OwnersInReach : o[3] = b
=============================================================================
