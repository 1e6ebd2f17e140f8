----------------------------- MODULE MCVirtQueue -----------------------------
(* An instance of VirtQueue for TLC. *)
EXTENDS VirtQueue, TLC

(* Sound: no definition tells buffers apart. *)
Swaps == Permutations(Buffer)
=============================================================================
