---------------------------- MODULE MCMemoryGraph ----------------------------
(***************************************************************************)
(* Instances of MemoryGraph.  The UUIDs are interchangeable.               *)
(***************************************************************************)
EXTENDS MemoryGraph, TLC

UUIDs == Permutations(Episodes)
=============================================================================
