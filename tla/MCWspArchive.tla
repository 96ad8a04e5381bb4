--------------------------- MODULE MCWspArchive ---------------------------
(***************************************************************************)
(* Instances of WspArchive for TLC.  Timestamps and words are scaled down: *)
(* Word is 32 or 64 instead of 2^32.                                       *)
(***************************************************************************)
EXTENDS WspArchive

\* Three laps of an archive whose retention, 8, divides Word = 32.
AlignedTimes == 2 .. 15

\* Three laps of an archive of four 3-second points: 64 \div 3 is no multiple of 4.
UnalignedTimes == 3 .. 31

\* ftruncate fills the points with zeroes.
ZeroFilled == {Blank}
=============================================================================
