---------------------------- MODULE MCProcesses ----------------------------
(***************************************************************************)
(* Two processes at a time, profiles with up to two counts.                *)
(***************************************************************************)
EXTENDS Processes, TLC

MCVectors == {<<0, 1, 2>>, <<3, 1>>}
Symmetric == Permutations(Procs)
=============================================================================
