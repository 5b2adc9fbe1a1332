---------------------------- MODULE MCServingStore ----------------------------
(* Two components and two dates; processes and components are alike.         *)
EXTENDS ServingStore, TLC

Alike == Permutations(Process) \cup Permutations(Component)
=============================================================================
