-------------------------- MODULE NonContiguousArray -------------------------
(***************************************************************************)
(* ors-common/src/non_contiguous.rs: a fixed number of buckets addressed   *)
(* by open hashing, which holds the CPU states by LAPIC id. A bucket is    *)
(* << >> or <<i, v>>.                                                      *)
(***************************************************************************)
EXTENDS Integers, FiniteSetsExt

CONSTANTS N, Indices, Values

ASSUME ArrayAssumption == N \in Nat \ {0} /\ Indices \subseteq Nat

VARIABLES buckets, len,
          map, full \* history: the map meant, and a panic of insert
array == <<buckets, len, map, full>>

Vacant == <<>>
Slots == 0..(N - 1)

\* bucket_index: the first slot of the probe sequence that is vacant or holds i.
BucketIndex(b, i) ==
    LET hits == {o \in Slots : LET x == b[(i + o) % N] IN x = Vacant \/ x[1] = i}
    IN IF hits = {} THEN Vacant ELSE <<(i + Min(hits)) % N>>

\* get and get_mut
Get(i) ==
    LET at == BucketIndex(buckets, i)
    IN IF at = Vacant \/ buckets[at[1]] = Vacant THEN Vacant ELSE <<buckets[at[1]][2]>>

InitArray ==
    /\ buckets = [k \in Slots |-> Vacant] /\ len = 0
    /\ map = [i \in Indices |-> Vacant] /\ full = FALSE

\* insert: replaces in an occupied bucket (and returns what was there); "Array is full" panics.
InsertAt(at, i, v) ==
    /\ ~full
    /\ IF at = Vacant THEN full' = TRUE /\ UNCHANGED <<buckets, len, map>>
       ELSE /\ buckets' = [buckets EXCEPT ![at[1]] = <<i, v>>]
            /\ len' = IF buckets[at[1]] = Vacant THEN len + 1 ELSE len
            /\ map' = [map EXCEPT ![i] = <<v>>]
            /\ UNCHANGED full

\* Mutant: the home slot is taken whoever has it.
InsertHome(i, v) == InsertAt(<<i % N>>, i, v)

Insert(i, v) == InsertAt(BucketIndex(buckets, i), i, v)

ClearArray ==
    /\ ~full
    /\ buckets' = [k \in Slots |-> Vacant] /\ len' = 0
    /\ map' = [i \in Indices |-> Vacant] /\ UNCHANGED full

NextArray == ClearArray \/ \E i \in Indices, v \in Values : Insert(i, v)
SpecArray == InitArray /\ [][NextArray]_array
-----------------------------------------------------------------------------
\* The indices that the map has, and the buckets in use.
Mapped == {i \in Indices : map[i] # Vacant}
Used == {k \in Slots : buckets[k] # Vacant}

\* The array is the map of the insertions since the last clear, also when indices
\* collide and the probe wraps around: get finds every value and no other, len counts
\* the indices, and insert gives up only when N other indices are in the array.
ArrayIsMap ==
    /\ \A i \in Indices : Get(i) = map[i]
    /\ len = Cardinality(Mapped)
    /\ full => len = N

\* Each index of the map is in one bucket, all buckets in front of it on its probe
\* sequence are in use, and insert has panicked only when all are.
ArrayInv ==
    /\ buckets \in [Slots -> {Vacant} \cup (Indices \X Values)]
    /\ map = [i \in Indices |-> map[i]]
    /\ \A k \in Used : map[buckets[k][1]] = <<buckets[k][2]>>
    /\ \A i \in Mapped : \E k \in Used : buckets[k][1] = i
    /\ \A k, m \in Used : buckets[k][1] = buckets[m][1] => k = m
    /\ \A o \in Slots, i \in Mapped :
          (i + o) % N \in Used /\ buckets[(i + o) % N][1] = i
             => \A p \in 0..(o - 1) : (i + p) % N \in Used
    /\ len = Cardinality(Mapped)
    /\ full => Used = Slots
=============================================================================
