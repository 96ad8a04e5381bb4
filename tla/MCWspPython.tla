---------------------------- MODULE MCWspPython ----------------------------
(***************************************************************************)
(* Instances of WspPython for TLC: those of WspHandle, with the handles    *)
(* taken by the binding or by another user of the library.                 *)
(***************************************************************************)
EXTENDS WspPython, MCWspHandle
=============================================================================
