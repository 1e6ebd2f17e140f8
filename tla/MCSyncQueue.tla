----------------------------- MODULE MCSyncQueue -----------------------------
(* An instance of SyncQueue for TLC. *)
EXTENDS SyncQueue, TLC

CONSTANTS p1, p2, r1, r2, a, b

TwoProducers == {p1, p2}
TwoConsumers == {r1, r2}
TwoItems == {a, b}

(* Sound for the safety run: nothing tells producers, consumers or items apart. *)
Swaps == Permutations(TwoProducers) \cup Permutations(TwoConsumers) \cup Permutations(TwoItems)
=============================================================================
