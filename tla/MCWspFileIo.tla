---------------------------- MODULE MCWspFileIo ----------------------------
(***************************************************************************)
(* An instance of WspFileIo for TLC.                                       *)
(***************************************************************************)
EXTENDS WspFileIo

\* Two archives of three points: retentions 3 and 6.
TwoArchives == <<[spp |-> 1, count |-> 3], [spp |-> 2, count |-> 3]>>
=============================================================================
