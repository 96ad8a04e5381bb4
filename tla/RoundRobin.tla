---------------------------- MODULE RoundRobin ----------------------------
(***************************************************************************)
(* What an archive of a whisper database promises, without its layout: it  *)
(* keeps, for each of Count residues of time, the point inserted last.     *)
(* Time is counted in intervals of Spp seconds; two times share a place    *)
(* exactly when they are a whole number of retentions (Spp * Count) apart. *)
(***************************************************************************)
EXTENDS Integers

CONSTANTS Spp, Count, Times, Values, Empty

VARIABLE table

Place(t) == (t \div Spp) % Count

Init == table \in [0 .. Count - 1 -> {Empty}]

Insert(t, v) ==
    table' = [table EXCEPT ![Place(t)] = [timestamp |-> t - (t % Spp), value |-> v]]

Next == \E t \in Times, v \in Values : Insert(t, v)

Spec == Init /\ [][Next]_table
=============================================================================
