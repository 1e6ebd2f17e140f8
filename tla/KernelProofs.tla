---------------------------- MODULE KernelProofs ----------------------------
(***************************************************************************)
(* Proofs about parts of the kernel that stand alone: the sleeping lock of *)
(* sync/mutex.rs (SleepMutex, for any set of tasks), the array of          *)
(* non_contiguous.rs (NonContiguousArray, for any number of buckets,       *)
(* indices and values), the screen (Terminal, for any size and output) and *)
(* the addresses of the file system (FatGeometry, for any boot sectors and *)
(* devices).                                                               *)
(***************************************************************************)
EXTENDS SleepMutex, NonContiguousArray, Terminal, FatGeometry, FiniteSetTheorems, TLAPS

(* A thread that is awake has a state the scheduler can keep. *)
LEMMA AwakeType == WC!Awake \in WC!Waiting
  BY Zenon DEF WC!Awake, WC!Waiting

(* The mutex starts in a state of the inductive invariant. *)
LEMMA MutexInit == Init => IndInv
  <1> USE SleepMutexAssumption DEF Init, WC!Init
  <1>1. Init => TypeOK
    BY AwakeType, Zenon DEF TypeOK
  <1>2. Init => MutualExclusion /\ NoLostWakeup
    BY Zenon DEF MutualExclusion, NoLostWakeup
  <1> QED
    BY <1>1, <1>2, Zenon DEF IndInv

(* Every step of lock and drop preserves the inductive invariant. *)
LEMMA MutexStep == IndInv /\ [Next]_vars => IndInv'
  <1> SUFFICES ASSUME IndInv, [Next]_vars PROVE IndInv'
    OBVIOUS
  <1> USE SleepMutexAssumption
        DEF IndInv, TypeOK, MutualExclusion, NoLostWakeup, Goto, WC!Awake, WC!Waiting
  <1>1. ASSUME NEW t \in Thread, Lock(t) PROVE IndInv'
    BY <1>1, Zenon DEF Lock
  <1>2. ASSUME NEW t \in Thread, LockFlag(t) PROVE IndInv'
    BY <1>2, Zenon DEF LockFlag
  <1>3. ASSUME NEW t \in Thread, Acquire(t) PROVE IndInv'
    BY <1>3, Zenon DEF Acquire
  <1>4. ASSUME NEW t \in Thread, Block(t) PROVE IndInv'
    BY <1>4, Zenon DEF Block
  <1>5. ASSUME NEW t \in Thread, Suspend(t) PROVE IndInv'
    BY <1>5, Zenon DEF Suspend, WC!Block
  <1>6. ASSUME NEW t \in Thread, Clear(t) PROVE IndInv'
    BY <1>6, Zenon DEF Clear
  <1>7. ASSUME NEW t \in Thread, Release(t) PROVE IndInv'
    <2>1. \A u \in Thread : wait'[u] = WC!Awake
      BY <1>7, Zenon DEF Release, WC!Release
    <2>2. TypeOK'
      BY <1>7, AwakeType, Zenon DEF Release, WC!Release
    <2>3. /\ pc[t] = "wake" /\ queue = None /\ pc' = [pc EXCEPT ![t] = "out"]
          /\ locked' = locked /\ spin' = spin /\ queue' = queue
      BY <1>7, Zenon DEF Release
    <2>4. MutualExclusion' /\ NoLostWakeup'
      <3>1. MutualExclusion'
        BY <2>3, Zenon
      <3>2. \A u \in Thread : pc'[u] # "register"
        BY <2>3, Zenon
      <3> QED BY <2>1, <3>1, <3>2, Zenon
    <2>5. \A u \in Thread : (spin' = u <=> pc'[u] = "test") /\ (queue' = u <=> pc'[u] = "register")
      BY <2>3, Zenon
    <2>6. locked' <=> \E u \in Thread : pc'[u] = "in"
      BY <2>3, Zenon
    <2> QED
      BY <2>1, <2>2, <2>4, <2>5, <2>6, Zenon
  <1>8. CASE UNCHANGED vars
    BY <1>8, Zenon DEF vars
  <1> QED
    BY <1>1, <1>2, <1>3, <1>4, <1>5, <1>6, <1>7, <1>8, Zenon DEF Next, Step

(* IndInv holds in every reachable state of the mutex. *)
THEOREM MutexInvariance == Spec => []IndInv
  BY MutexInit, MutexStep, PTL DEF Spec

(* Two MutexGuards are never alive at once. *)
THEOREM Exclusive == Spec => []MutualExclusion
  <1>1. IndInv => MutualExclusion
    BY Zenon DEF IndInv
  <1> QED
    BY <1>1, MutexInvariance, PTL

(* A task that sleeps on the mutex is owed a wakeup: the mutex is held, or   *)
(* the thread that cleared the flag has still to call release.               *)
THEOREM WakeupsKept == Spec => []NoLostWakeup
  <1>1. IndInv => NoLostWakeup
    BY Zenon DEF IndInv
  <1> QED
    BY <1>1, MutexInvariance, PTL

(* Every step of the mutex is a step of the abstract lock, or invisible. *)
THEOREM IsALock == Spec => ImplementsLock
  <1> DEFINE view == [t \in Thread |-> CASE pc[t] = "in" -> "in"
                                     [] pc[t] \in {"try", "test", "register"} -> "asking"
                                     [] OTHER -> "out"]
  <1>1. Init => L!Init
    BY Zenon DEF Init, L!Init
  <1>2. IndInv /\ [Next]_vars => [L!Next]_view
    <2> SUFFICES ASSUME IndInv, [Next]_vars PROVE [L!Next]_view
      OBVIOUS
    <2> USE DEF IndInv, TypeOK, Goto
    <2>1. ASSUME NEW t \in Thread, Lock(t) PROVE L!Ask(t)
      BY <2>1, Zenon DEF Lock, L!Ask
    <2>2. ASSUME NEW t \in Thread, LockFlag(t) \/ Block(t) \/ Suspend(t) \/ Release(t)
          PROVE  view' = view
      BY <2>2, Zenon DEF LockFlag, Block, Suspend, Release
    <2>3. ASSUME NEW t \in Thread, Acquire(t) PROVE L!Acquire(t)
      BY <2>3, Zenon DEF Acquire, L!Acquire
    <2>4. ASSUME NEW t \in Thread, Clear(t) PROVE L!Drop(t)
      BY <2>4, Zenon DEF Clear, L!Drop
    <2>5. CASE UNCHANGED vars
      BY <2>5, Zenon DEF vars
    <2> QED
      BY <2>1, <2>2, <2>3, <2>4, <2>5, Zenon DEF Next, Step, L!Next
  <1> QED
    BY <1>1, <1>2, MutexInvariance, PTL DEF Spec, ImplementsLock, L!Spec

-----------------------------------------------------------------------------
(* An occupied bucket, and a value that is there, are not the vacant one. *)
LEMMA NotVacant == (\A v : <<v>> # Vacant) /\ (\A i, v : <<i, v>> # Vacant)
  <1>1. Len(<<>>) = 0
    OBVIOUS
  <1>2. \A v : Len(<<v>>) = 1
    OBVIOUS
  <1>3. \A i, v : Len(<<i, v>>) = 2
    OBVIOUS
  <1> QED BY <1>1, <1>2, <1>3 DEF Vacant

(* The least member of a set of numbers. *)
LEMMA LeastIs ==
    ASSUME NEW S, S \subseteq Nat, S # {}
    PROVE  Min(S) \in S /\ \A y \in S : Min(S) <= y
  <1> DEFINE R == OpToRel(<, Nat)
  <1>1. IsWellFoundedOn(R, Nat)
    BY NatLessThanWellFounded, Zenon
  <1>2. \A x, y \in Nat : <<x, y>> \in R <=> x < y
    BY DEF OpToRel
  <1> HIDE DEF R
  <1>3. PICK x \in S : \A y \in S : ~(<<y, x>> \in R)
    BY <1>1, WFMin, Zenon
  <1>4. \A y \in S : ~(y < x)
    BY <1>2, <1>3, Zenon
  <1>5. \A y \in S : x <= y
    BY <1>4
  <1> QED BY <1>5, Zenon DEF Min

(* (i + offset) % N goes on from i % N and wraps around once. *)
LEMMA ProbeIs ==
    ASSUME NEW i \in Nat, NEW o \in Slots
    PROVE  /\ i % N \in Slots
           /\ (i + o) % N = IF (i % N) + o < N THEN (i % N) + o ELSE (i % N) + o - N
  <1> USE ArrayAssumption
  <1>1. \A z \in Nat : z \div N \in Nat /\ z = N * (z \div N) + (z % N) /\ z % N \in 0 .. N - 1
    OBVIOUS
  <1>2. ASSUME NEW q \in Nat, NEW x \in 0 .. N - 1
        PROVE  (N * q + x) % N = x
    <2> DEFINE z == N * q + x
               d == z \div N
               e == z % N
    <2>1. z \in Nat
      OBVIOUS
    <2>2. d \in Nat /\ z = N * d + e /\ e \in 0 .. N - 1
      BY <1>1, <2>1, Zenon
    <2>3. N * q + x = N * d + e
      BY <2>2 DEF z
    <2> HIDE DEF z, d, e
    <2>4. N * (q - d) = e - x
      BY <2>2, <2>3
    <2>5. CASE q - d >= 1
      <3>1. N * (q - d) >= N
        BY <2>2, <2>5
      <3> QED BY <2>2, <2>4, <3>1
    <2>6. CASE q - d <= -1
      <3>1. N * (q - d) <= -N
        BY <2>2, <2>6
      <3> QED BY <2>2, <2>4, <3>1
    <2>7. CASE q - d = 0
      BY <2>2, <2>4, <2>7 DEF e, z
    <2> QED BY <2>2, <2>5, <2>6, <2>7
  <1> DEFINE q == i \div N
             r == i % N
  <1>3. q \in Nat /\ i = N * q + r /\ r \in 0 .. N - 1
    BY <1>1, Zenon
  <1> HIDE DEF q, r
  <1>4. CASE r + o < N
    <2>1. r + o \in 0 .. N - 1 /\ i + o = N * q + (r + o)
      BY <1>3, <1>4 DEF Slots
    <2>2. (i + o) % N = r + o
      BY <1>2, <1>3, <2>1
    <2> QED BY <1>3, <1>4, <2>2 DEF r, Slots
  <1>5. CASE ~(r + o < N)
    <2>1. r + o - N \in 0 .. N - 1 /\ i + o = N * (q + 1) + (r + o - N) /\ q + 1 \in Nat
      BY <1>3, <1>5 DEF Slots
    <2>2. (i + o) % N = r + o - N
      BY <1>2, <2>1
    <2> QED BY <1>3, <1>5, <2>2 DEF r, Slots
  <1> QED BY <1>4, <1>5

(* The probe sequence of an index visits every bucket, and none twice. *)
LEMMA ProbeAll ==
    ASSUME NEW i \in Nat
    PROVE  /\ \A o \in Slots : (i + o) % N \in Slots
           /\ \A k \in Slots : \E o \in Slots : (i + o) % N = k
           /\ \A o, p \in Slots : (i + o) % N = (i + p) % N => o = p
  <1> USE ArrayAssumption
  <1>1. 0 \in Slots
    BY DEF Slots
  <1> DEFINE r == i % N
  <1>2. r \in Slots
    BY <1>1, ProbeIs, Zenon
  <1>3. \A o \in Slots : (i + o) % N = IF r + o < N THEN r + o ELSE r + o - N
    BY ProbeIs
  <1> HIDE DEF r
  <1>4. \A o \in Slots : (i + o) % N \in Slots
    BY <1>2, <1>3 DEF Slots
  <1>5. ASSUME NEW k \in Slots PROVE \E o \in Slots : (i + o) % N = k
    <2> DEFINE o == IF r <= k THEN k - r ELSE k - r + N
    <2>1. o \in Slots /\ (IF r + o < N THEN r + o ELSE r + o - N) = k
      BY <1>2 DEF Slots
    <2> HIDE DEF o
    <2> QED BY <1>3, <2>1
  <1>6. ASSUME NEW o \in Slots, NEW p \in Slots, (i + o) % N = (i + p) % N PROVE o = p
    <2>1. (IF r + o < N THEN r + o ELSE r + o - N) = (IF r + p < N THEN r + p ELSE r + p - N)
      BY <1>3, <1>6
    <2> QED BY <1>2, <2>1 DEF Slots
  <1> QED BY <1>4, <1>5, <1>6

(* What bucket_index returns: the first bucket of the probe sequence that is vacant *)
(* or has the index, and nothing when all buckets have other indices.               *)
LEMMA BucketIndexIs ==
    ASSUME NEW i \in Nat, NEW b
    PROVE  \/ /\ BucketIndex(b, i) = Vacant
              /\ \A k \in Slots : b[k] # Vacant /\ b[k][1] # i
           \/ \E m \in Slots :
                 /\ BucketIndex(b, i) = <<(i + m) % N>>
                 /\ b[(i + m) % N] = Vacant \/ b[(i + m) % N][1] = i
                 /\ \A p \in 0 .. m - 1 : b[(i + p) % N] # Vacant /\ b[(i + p) % N][1] # i
  <1> DEFINE Hit(o) == b[(i + o) % N] = Vacant \/ b[(i + o) % N][1] = i
             hits == {o \in Slots : Hit(o)}
  <1>1. BucketIndex(b, i) = IF hits = {} THEN Vacant ELSE <<(i + Min(hits)) % N>>
    BY Zenon DEF BucketIndex
  <1> HIDE DEF Hit
  <1>2. CASE hits = {}
    <2>1. ASSUME NEW k \in Slots PROVE b[k] # Vacant /\ b[k][1] # i
      <3>1. PICK o \in Slots : (i + o) % N = k
        BY ProbeAll
      <3>2. ~Hit(o)
        BY <1>2
      <3> QED BY <3>1, <3>2, Zenon DEF Hit
    <2> QED BY <1>1, <1>2, <2>1, Zenon
  <1>3. CASE hits # {}
    <2>1. hits \subseteq Nat /\ Slots \subseteq Nat
      BY ArrayAssumption DEF Slots
    <2> DEFINE m == Min(hits)
    <2>2. m \in hits /\ \A y \in hits : m <= y
      BY <1>3, <2>1, LeastIs, Zenon
    <2>3. BucketIndex(b, i) = <<(i + m) % N>>
      BY <1>1, <1>3, Zenon
    <2> HIDE DEF m
    <2>4. m \in Slots /\ Hit(m)
      BY <2>2
    <2>5. ASSUME NEW p \in 0 .. m - 1 PROVE ~Hit(p)
      <3>1. p \in Slots /\ ~(m <= p)
        BY <2>4, ArrayAssumption DEF Slots
      <3> QED BY <2>2, <3>1
    <2> QED BY <2>3, <2>4, <2>5, Zenon DEF Hit
  <1> QED BY <1>2, <1>3

(* An occupied bucket has an index of the map, and the value of that index. *)
LEMMA UsedIs ==
    ASSUME ArrayInv, NEW k \in Used
    PROVE  /\ k \in Slots /\ buckets[k] \in Indices \X Values
           /\ buckets[k][1] \in Mapped /\ map[buckets[k][1]] = <<buckets[k][2]>>
  <1>1. k \in Slots /\ buckets[k] # Vacant
    BY DEF Used
  <1>2. buckets[k] \in Indices \X Values
    BY <1>1, Zenon DEF ArrayInv
  <1>3. buckets[k][1] \in Indices
    BY <1>2
  <1>4. map[buckets[k][1]] = <<buckets[k][2]>>
    BY Zenon DEF ArrayInv
  <1>5. map[buckets[k][1]] # Vacant
    BY <1>4, NotVacant, Zenon
  <1> QED BY <1>1, <1>2, <1>3, <1>4, <1>5 DEF Mapped

(* There are as many indices as buckets in use. *)
LEMMA CountIs ==
    ASSUME ArrayInv
    PROVE  /\ IsFiniteSet(Mapped)
           /\ IsFiniteSet(Used) /\ Cardinality(Mapped) = Cardinality(Used)
           /\ Used = Slots => Cardinality(Mapped) = N
  <1>1. IsFiniteSet(Slots) /\ Cardinality(Slots) = N
    <2>1. 0 \in Int /\ N - 1 \in Int /\ 0 <= N - 1 /\ N - 1 - 0 + 1 = N
      BY ArrayAssumption
    <2> QED BY <2>1, FS_Interval DEF Slots
  <1>2. IsFiniteSet(Used)
    BY <1>1, FS_Subset DEF Used
  <1> DEFINE f == [k \in Used |-> buckets[k][1]]
  <1>3. \A k \in Used : f[k] \in Mapped
    BY UsedIs
  <1>4. \A i \in Mapped : \E k \in Used : f[k] = i
    BY DEF ArrayInv
  <1>5. \A k, m \in Used : f[k] = f[m] => k = m
    BY DEF ArrayInv
  <1>6. f \in [Used -> Mapped]
    BY <1>3
  <1> HIDE DEF f
  <1>7. f \in Bijection(Used, Mapped)
    BY <1>4, <1>5, <1>6 DEF Bijection, Injection, Surjection, IsInjective
  <1>8. ExistsBijection(Used, Mapped)
    BY <1>7, Zenon DEF ExistsBijection
  <1>9. IsFiniteSet(Mapped) /\ Cardinality(Mapped) = Cardinality(Used)
    BY <1>2, <1>8, FS_Bijection
  <1> QED BY <1>1, <1>2, <1>9

(* An index of the map has a place on its probe sequence, and no bucket in front of *)
(* that place is vacant or has the index.                                           *)
LEMMA PlaceIs ==
    ASSUME ArrayInv, NEW i \in Mapped
    PROVE  \E o \in Slots :
              /\ (i + o) % N \in Used /\ buckets[(i + o) % N][1] = i
              /\ \A p \in 0 .. o - 1 : (i + p) % N \in Used
  <1>1. PICK k \in Used : buckets[k][1] = i
    BY Zenon DEF ArrayInv
  <1>2. i \in Nat /\ k \in Slots
    BY ArrayAssumption, Zenon DEF Mapped, Used
  <1>3. PICK o \in Slots : (i + o) % N = k
    BY <1>2, ProbeAll
  <1>4. (i + o) % N \in Used /\ buckets[(i + o) % N][1] = i
    BY <1>1, <1>3, Zenon
  <1> QED BY <1>4, Zenon DEF ArrayInv

(* get finds what the map has. *)
LEMMA GetIs ==
    ASSUME ArrayInv, NEW i \in Indices
    PROVE  Get(i) = map[i]
  <1> DEFINE at == BucketIndex(buckets, i)
  <1>1. Get(i) = IF at = Vacant \/ buckets[at[1]] = Vacant THEN Vacant ELSE <<buckets[at[1]][2]>>
    BY Zenon DEF Get
  <1>2. i \in Nat
    BY ArrayAssumption
  <1>3. \/ at = Vacant /\ \A k \in Slots : buckets[k] # Vacant /\ buckets[k][1] # i
        \/ \E m \in Slots :
              /\ at = <<(i + m) % N>>
              /\ buckets[(i + m) % N] = Vacant \/ buckets[(i + m) % N][1] = i
              /\ \A p \in 0 .. m - 1 : buckets[(i + p) % N] # Vacant /\ buckets[(i + p) % N][1] # i
    BY <1>2, BucketIndexIs, Zenon
  <1> HIDE DEF at
  <1>4. ASSUME i \notin Mapped PROVE map[i] = Vacant
    BY <1>4, Zenon DEF Mapped
  <1>5. CASE at = Vacant /\ \A k \in Slots : buckets[k] # Vacant /\ buckets[k][1] # i
    <2>1. i \notin Mapped
      BY <1>5, PlaceIs DEF Used
    <2> QED BY <1>1, <1>4, <1>5, <2>1, Zenon
  <1>6. ASSUME NEW m \in Slots,
               at = <<(i + m) % N>>,
               buckets[(i + m) % N] = Vacant \/ buckets[(i + m) % N][1] = i,
               \A p \in 0 .. m - 1 : buckets[(i + p) % N] # Vacant /\ buckets[(i + p) % N][1] # i
        PROVE  Get(i) = map[i]
    <2> DEFINE k == (i + m) % N
    <2>1. k \in Slots
      BY <1>2, ProbeAll, Zenon
    <2>2. at # Vacant /\ at[1] = k
      BY <1>6, NotVacant
    <2> HIDE DEF k
    <2>3. CASE buckets[k] = Vacant
      <3>1. i \notin Mapped
        <4> SUFFICES ASSUME i \in Mapped PROVE FALSE
          OBVIOUS
        <4>1. PICK o \in Slots : /\ (i + o) % N \in Used /\ buckets[(i + o) % N][1] = i
                                 /\ \A p \in 0 .. o - 1 : (i + p) % N \in Used
          BY PlaceIs
        <4>2. (i + o) % N # k /\ \A p \in 0 .. o - 1 : (i + p) % N # k
          BY <2>3, <4>1, Zenon DEF Used
        <4>3. m > o
          BY <4>2, ArrayAssumption DEF k, Slots
        <4>4. o \in 0 .. m - 1
          BY <4>3, ArrayAssumption DEF Slots
        <4> QED BY <1>6, <4>1, <4>4, Zenon
      <3> QED BY <1>1, <1>4, <2>2, <2>3, <3>1, Zenon
    <2>4. CASE buckets[k] # Vacant
      <3>1. k \in Used /\ buckets[k][1] = i
        BY <1>6, <2>1, <2>4, Zenon DEF Used, k
      <3>2. map[i] = <<buckets[k][2]>>
        BY <3>1, UsedIs, Zenon
      <3> QED BY <1>1, <2>2, <2>4, <3>2, Zenon
    <2> QED BY <2>3, <2>4, Zenon
  <1> QED BY <1>3, <1>5, <1>6, Zenon

(* The inductive invariant says that the array is the map. *)
LEMMA MapIs == ArrayInv => ArrayIsMap
  <1> SUFFICES ASSUME ArrayInv PROVE ArrayIsMap
    OBVIOUS
  <1>1. \A i \in Indices : Get(i) = map[i]
    BY GetIs
  <1>2. len = Cardinality(Mapped) /\ (full => len = N)
    BY CountIs, Zenon DEF ArrayInv
  <1> QED BY <1>1, <1>2, Zenon DEF ArrayIsMap

(* A new array, and one that clear has emptied, satisfy the invariant. *)
LEMMA EmptyInv ==
    ASSUME buckets = [k \in Slots |-> Vacant], len = 0, map = [i \in Indices |-> Vacant], ~full
    PROVE  ArrayInv
  <1>1. Mapped = {} /\ Used = {}
    BY DEF Mapped, Used
  <1>2. Cardinality(Mapped) = 0
    BY <1>1, FS_EmptySet
  <1> QED BY <1>1, <1>2 DEF ArrayInv

(* clear leaves the empty array. *)
LEMMA ClearKeeps ==
    ASSUME ClearArray PROVE ArrayInv'
  <1>1. Mapped' = {} /\ Used' = {}
    BY DEF Mapped, Used, ClearArray
  <1>2. Cardinality(Mapped') = 0
    BY <1>1, FS_EmptySet, SMTT(20)
  <1> QED BY <1>1, <1>2 DEF ArrayInv, ClearArray

(* insert puts an index that the map does not have into the first vacant bucket of its *)
(* probe sequence.                                                                     *)
LEMMA InsertVacant ==
    ASSUME ArrayInv, NEW i \in Indices, NEW v \in Values, NEW m \in Slots, NEW k,
           k = (i + m) % N, buckets[k] = Vacant, ~full, full' = full,
           \A p \in 0 .. m - 1 : buckets[(i + p) % N] # Vacant /\ buckets[(i + p) % N][1] # i,
           buckets' = [buckets EXCEPT ![k] = <<i, v>>], len' = len + 1,
           map' = [map EXCEPT ![i] = <<v>>]
    PROVE  ArrayInv'
  <1>1. i \in Nat
    BY ArrayAssumption
  <1>2. k \in Slots
    BY <1>1, ProbeAll, Zenon
  <1>3. \A p \in 0 .. m - 1 : p \in Slots
    BY ArrayAssumption DEF Slots
  <1>4. \A p \in 0 .. m - 1 : (i + p) % N \in Used
    BY <1>1, <1>3, ProbeAll, Zenon DEF Used
  <1>5. i \notin Mapped
    <2> SUFFICES ASSUME i \in Mapped PROVE FALSE
      OBVIOUS
    <2>1. PICK o \in Slots : /\ (i + o) % N \in Used /\ buckets[(i + o) % N][1] = i
                             /\ \A p \in 0 .. o - 1 : (i + p) % N \in Used
      BY PlaceIs
    <2>2. (i + o) % N # k /\ \A p \in 0 .. o - 1 : (i + p) % N # k
      BY <2>1, Zenon DEF Used
    <2>3. o \in 0 .. m - 1
      BY <2>2, ArrayAssumption DEF Slots
    <2> QED BY <2>1, <2>3, Zenon
  <1>6. /\ buckets \in [Slots -> {Vacant} \cup (Indices \X Values)] /\ DOMAIN map = Indices
        /\ len = Cardinality(Mapped)
    BY DEF ArrayInv
  <1>7. /\ buckets'[k] = <<i, v>> /\ buckets'[k] # Vacant /\ buckets'[k][1] = i /\ buckets'[k][2] = v
        /\ \A j \in Slots : j # k => buckets'[j] = buckets[j]
    BY <1>2, <1>6, NotVacant
  <1>8. /\ map'[i] = <<v>> /\ map'[i] # Vacant /\ DOMAIN map' = Indices
        /\ \A j \in Indices : j # i => map'[j] = map[j]
    BY <1>6, NotVacant
  <1>9. Used' = Used \cup {k} /\ k \notin Used
    BY <1>2, <1>7 DEF Used
  <1>10. Mapped' = Mapped \cup {i}
    BY <1>8 DEF Mapped
  <1>11. \A j \in Used : /\ j \in Slots /\ j # k /\ buckets'[j] = buckets[j] /\ buckets[j][1] \in Mapped
                         /\ buckets[j][1] # i /\ buckets[j][1] \in Indices
    BY <1>5, <1>7, <1>9, UsedIs, Zenon DEF Used, Mapped
  <1>12. buckets' \in [Slots -> {Vacant} \cup (Indices \X Values)]
    BY <1>6, Zenon
  <1>13. map' = [j \in Indices |-> map'[j]]
    BY <1>6, Zenon
  <1>14. ASSUME NEW j \in Used' PROVE map'[buckets'[j][1]] = <<buckets'[j][2]>>
    <2>1. CASE j = k
      BY <1>7, <1>8, <2>1, Zenon
    <2>2. CASE j \in Used
      <3>1. map[buckets[j][1]] = <<buckets[j][2]>>
        BY <2>2, UsedIs, Zenon
      <3>2. buckets'[j] = buckets[j] /\ map'[buckets[j][1]] = map[buckets[j][1]]
        BY <1>8, <1>11, <2>2, Zenon
      <3> QED BY <3>1, <3>2, Zenon
    <2> QED BY <1>9, <2>1, <2>2, Zenon
  <1>15. ASSUME NEW j \in Mapped' PROVE \E n \in Used' : buckets'[n][1] = j
    <2>1. CASE j = i
      BY <1>7, <1>9, <2>1, Zenon
    <2>2. CASE j \in Mapped
      <3>1. PICK n \in Used : buckets[n][1] = j
        BY <2>2, Zenon DEF ArrayInv
      <3> QED BY <1>9, <1>11, <3>1, Zenon
    <2> QED BY <1>10, <2>1, <2>2, Zenon
  <1>16. ASSUME NEW j \in Used', NEW n \in Used', buckets'[j][1] = buckets'[n][1] PROVE j = n
    <2>1. CASE j \in Used /\ n \in Used
      BY <1>11, <1>16, <2>1, Zenon DEF ArrayInv
    <2>2. CASE j = k /\ n \in Used
      <3>1. buckets'[n][1] # i
        BY <1>11, <2>2, Zenon
      <3>2. buckets'[j][1] = i
        BY <1>7, <2>2
      <3> QED BY <1>16, <3>1, <3>2, Zenon
    <2>3. CASE j \in Used /\ n = k
      BY <1>7, <1>11, <1>16, <2>3, Zenon
    <2>4. j \in Used \cup {k} /\ n \in Used \cup {k}
      BY <1>9
    <2> QED BY <2>1, <2>2, <2>3, <2>4
  <1>17. ASSUME NEW o \in Slots, NEW j \in Mapped', (j + o) % N \in Used', buckets'[(j + o) % N][1] = j
         PROVE  \A p \in 0 .. o - 1 : (j + p) % N \in Used'
    <2>1. CASE (j + o) % N = k
      <3>1. j = i
        BY <1>7, <1>17, <2>1, Zenon
      <3>2. o = m
        BY <1>1, <2>1, <3>1, ProbeAll, Zenon
      <3> QED BY <1>4, <1>9, <3>1, <3>2, Zenon
    <2>2. CASE (j + o) % N \in Used
      <3>1. buckets[(j + o) % N][1] = j /\ j \in Mapped
        BY <1>11, <1>17, <2>2, Zenon
      <3> QED BY <1>9, <2>2, <3>1, Zenon DEF ArrayInv
    <2> QED BY <1>9, <1>17, <2>1, <2>2, Zenon
  <1>18. Cardinality(Mapped') = Cardinality(Mapped) + 1
    BY <1>5, <1>10, CountIs, FS_AddElement, Zenon
  <1>19. len' = Cardinality(Mapped')
    BY <1>6, <1>18
  <1>20. \A o \in Slots, j \in Mapped' :
            (j + o) % N \in Used' /\ buckets'[(j + o) % N][1] = j
               => \A p \in 0 .. o - 1 : (j + p) % N \in Used'
    BY <1>17
  <1> QED BY <1>12, <1>13, <1>14, <1>15, <1>16, <1>19, <1>20, Zenon DEF ArrayInv

(* insert replaces the value of an index that the map has. *)
LEMMA InsertOccupied ==
    ASSUME ArrayInv, NEW i \in Indices, NEW v \in Values, NEW k \in Slots,
           buckets[k] # Vacant, buckets[k][1] = i, ~full, full' = full,
           buckets' = [buckets EXCEPT ![k] = <<i, v>>], len' = len,
           map' = [map EXCEPT ![i] = <<v>>]
    PROVE  ArrayInv'
  <1>1. k \in Used
    BY Zenon DEF Used
  <1>2. i \in Mapped
    BY <1>1, UsedIs, Zenon
  <1>3. /\ buckets \in [Slots -> {Vacant} \cup (Indices \X Values)] /\ DOMAIN map = Indices
        /\ len = Cardinality(Mapped)
    BY DEF ArrayInv
  <1>4. /\ buckets'[k] = <<i, v>> /\ buckets'[k] # Vacant /\ buckets'[k][1] = i /\ buckets'[k][2] = v
        /\ \A j \in Slots : j # k => buckets'[j] = buckets[j]
    BY <1>3, NotVacant
  <1>5. /\ map'[i] = <<v>> /\ map'[i] # Vacant
        /\ \A j \in Indices : j # i => map'[j] = map[j]
    BY <1>3, NotVacant
  <1>6. Used' = Used
    BY <1>1, <1>4 DEF Used
  <1>7. Mapped' = Mapped
    BY <1>2, <1>5 DEF Mapped
  <1>8. \A j \in Used : j \in Slots /\ buckets'[j][1] = buckets[j][1] /\ buckets[j][1] \in Indices
    BY <1>4, UsedIs, Zenon DEF Used, Mapped
  <1>9. buckets' \in [Slots -> {Vacant} \cup (Indices \X Values)]
    BY <1>3
  <1>10. map' = [j \in Indices |-> map'[j]]
    BY <1>3, Zenon
  <1>11. ASSUME NEW j \in Used PROVE map'[buckets'[j][1]] = <<buckets'[j][2]>>
    <2>1. CASE j = k
      BY <1>4, <1>5, <2>1, Zenon
    <2>2. CASE j # k
      <3>1. buckets'[j] = buckets[j] /\ buckets[j][1] # i
        BY <1>1, <1>4, <1>8, <2>2, ZenonT(40) DEF ArrayInv
      <3>2. map[buckets[j][1]] = <<buckets[j][2]>>
        BY UsedIs, Zenon
      <3>3. map'[buckets[j][1]] = map[buckets[j][1]]
        BY <1>5, <1>8, <3>1, Zenon
      <3> QED BY <3>1, <3>2, <3>3, Zenon
    <2> QED BY <2>1, <2>2, Zenon
  <1>12. \A j \in Mapped : \E n \in Used : buckets'[n][1] = j
    BY <1>8, Zenon DEF ArrayInv
  <1>13. \A j, n \in Used : buckets'[j][1] = buckets'[n][1] => j = n
    BY <1>8, Zenon DEF ArrayInv
  <1>14. \A o \in Slots, j \in Mapped :
            (j + o) % N \in Used /\ buckets'[(j + o) % N][1] = j
               => \A p \in 0 .. o - 1 : (j + p) % N \in Used
    BY <1>8, Zenon DEF ArrayInv
  <1>15. len' = Cardinality(Mapped)
    BY <1>3
  <1> QED BY <1>6, <1>7, <1>9, <1>10, <1>11, <1>12, <1>13, <1>14, <1>15, Zenon DEF ArrayInv

(* insert keeps the invariant; it panics only when no bucket is vacant. *)
LEMMA InsertKeeps ==
    ASSUME ArrayInv, NEW i \in Indices, NEW v \in Values, Insert(i, v)
    PROVE  ArrayInv'
  <1> DEFINE at == BucketIndex(buckets, i)
  <1>1. /\ ~full
        /\ IF at = Vacant THEN full' = TRUE /\ UNCHANGED <<buckets, len, map>>
           ELSE /\ buckets' = [buckets EXCEPT ![at[1]] = <<i, v>>]
                /\ len' = IF buckets[at[1]] = Vacant THEN len + 1 ELSE len
                /\ map' = [map EXCEPT ![i] = <<v>>]
                /\ UNCHANGED full
    BY Zenon DEF Insert, InsertAt
  <1>2. i \in Nat
    BY ArrayAssumption
  <1>3. \/ at = Vacant /\ \A k \in Slots : buckets[k] # Vacant /\ buckets[k][1] # i
        \/ \E m \in Slots :
              /\ at = <<(i + m) % N>>
              /\ buckets[(i + m) % N] = Vacant \/ buckets[(i + m) % N][1] = i
              /\ \A p \in 0 .. m - 1 : buckets[(i + p) % N] # Vacant /\ buckets[(i + p) % N][1] # i
    BY <1>2, BucketIndexIs, Zenon
  <1> HIDE DEF at
  <1>4. CASE at = Vacant /\ \A k \in Slots : buckets[k] # Vacant /\ buckets[k][1] # i
    <2>1. Used = Slots
      BY <1>4 DEF Used
    <2>2. buckets' = buckets /\ len' = len /\ map' = map
      BY <1>1, <1>4
    <2>3. Used' = Used /\ Mapped' = Mapped
      BY <2>2, Zenon DEF Used, Mapped
    <2>4. full' => Used' = Slots
      BY <2>1, <2>3
    <2>5. map' = [j \in Indices |-> map'[j]] /\ len' = Cardinality(Mapped')
      BY <2>2, <2>3, Zenon DEF ArrayInv
    <2>6. \A o \in Slots, j \in Mapped' :
             (j + o) % N \in Used' /\ buckets'[(j + o) % N][1] = j
                => \A p \in 0 .. o - 1 : (j + p) % N \in Used'
      BY <2>2, <2>3, Zenon DEF ArrayInv
    <2> QED BY <2>2, <2>3, <2>4, <2>5, <2>6, Zenon DEF ArrayInv
  <1>5. ASSUME NEW m \in Slots,
               at = <<(i + m) % N>>,
               buckets[(i + m) % N] = Vacant \/ buckets[(i + m) % N][1] = i,
               \A p \in 0 .. m - 1 : buckets[(i + p) % N] # Vacant /\ buckets[(i + p) % N][1] # i
        PROVE  ArrayInv'
    <2> DEFINE k == (i + m) % N
    <2>1. k \in Slots
      BY <1>2, ProbeAll, Zenon
    <2>2. at # Vacant /\ at[1] = k
      BY <1>5, NotVacant
    <2>3. buckets[k] = Vacant \/ buckets[k][1] = i
      BY <1>5
    <2>4. k = (i + m) % N
      OBVIOUS
    <2> HIDE DEF k
    <2>5. /\ buckets' = [buckets EXCEPT ![k] = <<i, v>>]
          /\ len' = IF buckets[k] = Vacant THEN len + 1 ELSE len
          /\ map' = [map EXCEPT ![i] = <<v>>] /\ full' = full /\ ~full
      BY <1>1, <2>2, Zenon
    <2>6. CASE buckets[k] = Vacant
      <3>1. len' = len + 1
        BY <2>5, <2>6, Zenon
      <3> QED BY <1>5, <2>4, <2>5, <2>6, <3>1, InsertVacant, Zenon
    <2>7. CASE buckets[k] # Vacant
      <3>1. len' = len
        BY <2>5, <2>7, Zenon
      <3> QED BY <2>1, <2>3, <2>5, <2>7, <3>1, InsertOccupied, Zenon
    <2> QED BY <2>6, <2>7, Zenon
  <1> QED BY <1>3, <1>4, <1>5, Zenon

(* The invariant of the probe sequences holds for any number of buckets, any indices *)
(* and any values.                                                                   *)
THEOREM ArrayInvariance == SpecArray => []ArrayInv
  <1>1. InitArray => ArrayInv
    BY EmptyInv, Zenon DEF InitArray
  <1>2. ArrayInv /\ [NextArray]_array => ArrayInv'
    <2>1. CASE UNCHANGED array
      <3>1. ArrayInv => (Used' = Used /\ Mapped' = Mapped)
        BY <2>1, Zenon DEF array, Used, Mapped
      <3> QED BY <2>1, <3>1, Zenon DEF ArrayInv, array
    <2> QED BY <2>1, ClearKeeps, InsertKeeps, Zenon DEF NextArray
  <1> QED BY <1>1, <1>2, PTL DEF SpecArray

(* The array of the CPU states is the map that was inserted. *)
THEOREM ArrayMaps == SpecArray => []ArrayIsMap
  BY ArrayInvariance, MapIs, PTL

-----------------------------------------------------------------------------
(* The sizes of the grid. *)
LEMMA Grid == Width \in Nat /\ Height \in Nat /\ Width > 0 /\ Height > 0 /\ Half \in Nat
  BY TerminalAssumption, SMTT(20)

(* The least member of a set of numbers. *)
LEMMA MinIs ==
    ASSUME NEW S, S \subseteq Nat, S # {}
    PROVE  Min(S) \in S /\ \A y \in S : Min(S) <= y
  <1> DEFINE R == OpToRel(<, Nat)
  <1>1. IsWellFoundedOn(R, Nat)
    BY NatLessThanWellFounded, Zenon
  <1>2. \A x, y \in Nat : <<x, y>> \in R <=> x < y
    BY DEF OpToRel
  <1> HIDE DEF R
  <1>3. PICK x \in S : \A y \in S : ~(<<y, x>> \in R)
    BY <1>1, WFMin, Zenon
  <1>4. \A y \in S : ~(y < x)
    BY <1>2, <1>3, Zenon
  <1>5. \A y \in S : x <= y
    BY <1>4
  <1> QED BY <1>5, Zenon DEF Min

(* The greatest member of a set of numbers that has a bound. *)
LEMMA MaxIs ==
    ASSUME NEW n \in Nat, NEW S, S \subseteq 0..(n - 1), S # {}
    PROVE  Max(S) \in S /\ \A y \in S : y <= Max(S)
  <1> DEFINE T == {k \in Nat : \E y \in S : y = n - k}
  <1>1. T \subseteq Nat /\ T # {}
    <2>1. PICK y \in S : TRUE
      BY Zenon
    <2>2. y \in Int /\ n - y \in Nat /\ y = n - (n - y)
      BY <2>1
    <2> QED BY <2>1, <2>2, Zenon
  <1> HIDE DEF T
  <1>2. Min(T) \in T /\ \A k \in T : Min(T) <= k
    BY <1>1, MinIs, Zenon
  <1>3. PICK x \in S : x = n - Min(T)
    BY <1>2, Zenon DEF T
  <1>4. \A y \in S : y <= x
    <2> TAKE y \in S
    <2>1. y \in Int /\ n - y \in Nat /\ y = n - (n - y)
      OBVIOUS
    <2>2. n - y \in T
      BY <2>1 DEF T
    <2>3. Min(T) <= n - y /\ Min(T) \in Nat
      BY <1>1, <1>2, <2>2, Zenon
    <2> QED BY <1>3, <2>1, <2>3
  <1> QED BY <1>4, Zenon DEF Max

(* What an interval that is marked to be drawn covers stays covered when it *)
(* is extended, and what it is extended by is covered too.                  *)
LEMMA Extended ==
    ASSUME NEW d \in Marks, NEW a \in Nat, NEW b \in Nat
    PROVE  /\ Extend(d, a, b) \in Marks
           /\ \A i \in Nat : In(i, d) \/ (a <= i /\ i < b) => In(i, Extend(d, a, b))
  <1>1. CASE d = <<>>
    <2>1. Extend(d, a, b) = <<a, b>>
      BY <1>1 DEF Extend
    <2> QED BY <1>1, <2>1 DEF Marks, In
  <1>2. CASE d # <<>>
    <2>1. d \in Nat \X Nat
      BY <1>2 DEF Marks
    <2> DEFINE lo == Min({d[1], a})
               hi == Max({d[2], b})
    <2>2. d[1] \in Nat /\ d[2] \in Nat
      BY <2>1
    <2>3. lo \in Nat /\ lo <= d[1] /\ lo <= a
      BY <2>2, MinIs
    <2>4. hi \in Nat /\ d[2] <= hi /\ b <= hi
      <3> DEFINE n == d[2] + b + 1
                 S == {d[2], b}
      <3>1. n \in Nat /\ S \subseteq 0..(n - 1) /\ S # {}
        BY <2>2
      <3>2. Max(S) \in S /\ \A y \in S : y <= Max(S)
        BY <3>1, MaxIs, Zenon
      <3> QED BY <2>2, <3>2
    <2>5. Extend(d, a, b) = <<lo, hi>>
      BY <1>2 DEF Extend
    <2> HIDE DEF lo, hi
    <2>6. <<lo, hi>> \in Marks /\ <<lo, hi>> # <<>>
      BY <2>3, <2>4 DEF Marks
    <2>7. ASSUME NEW i \in Nat, In(i, d) \/ (a <= i /\ i < b) PROVE lo <= i /\ i < hi
      BY <2>2, <2>3, <2>4, <2>7 DEF In
    <2> QED BY <2>5, <2>6, <2>7 DEF In
  <1> QED BY <1>1, <1>2

(* A line that will be drawn where its own buffer is not up to date. *)
Sound(l) == IsLine(l) /\ \A j \in Cols : l.buf[j] = l.chars[j] \/ In(j, l.diff)

(* Line::put and Line::erase mark what they change. *)
LEMMA UpdateSound ==
    ASSUME NEW l, Sound(l), NEW new, new = [j \in Cols |-> new[j]]
    PROVE  Sound(Update(l, new)) /\ Update(l, new).chars = new
  <1> DEFINE S == {j \in Cols : new[j] # l.chars[j]}
             u == Update(l, new)
             d == IF S = {} THEN l.diff ELSE Extend(l.diff, Min(S), Max(S) + 1)
  <1>1. l = [chars |-> l.chars, buf |-> l.buf, diff |-> l.diff] /\ l.diff \in Marks
    BY DEF Sound, IsLine
  <1>2. u = [chars |-> new, buf |-> l.buf, diff |-> d]
    <2>1. u = [l EXCEPT !.chars = new, !.diff = d]
      BY DEF Update
    <2> HIDE DEF u, d
    <2> QED BY <1>1, <2>1, Zenon
  <1>3. d \in Marks /\ \A j \in Cols : In(j, l.diff) \/ new[j] # l.chars[j] => In(j, d)
    <2>1. CASE S = {}
      BY <1>1, <2>1
    <2>2. CASE S # {}
      <3>1. S \subseteq Nat /\ S \subseteq 0..(Width - 1)
        BY Grid DEF Cols
      <3> DEFINE a == Min(S)
                 b == Max(S)
      <3>2. a \in S /\ b \in S /\ \A j \in S : a <= j /\ j <= b
        BY <2>2, <3>1, Grid, MinIs, MaxIs, Zenon
      <3>3. d = Extend(l.diff, a, b + 1)
        BY <2>2
      <3> HIDE DEF a, b, d
      <3>4. a \in Nat /\ b \in Nat /\ b + 1 \in Nat /\ \A j \in S : j \in Nat /\ a <= j /\ j < b + 1
        BY <3>1, <3>2
      <3>5. \A j \in Cols : j \in Nat
        BY DEF Cols
      <3> QED BY <1>1, <3>3, <3>4, <3>5, Extended
    <2> QED BY <2>1, <2>2
  <1> HIDE DEF u, d
  <1>4. u.chars = new /\ u.buf = l.buf /\ u.diff = d
    BY <1>2
  <1>5. IsLine(u)
    BY <1>2, <1>3, <1>4, Zenon DEF IsLine
  <1>6. \A j \in Cols : u.buf[j] = u.chars[j] \/ In(j, u.diff)
    BY <1>3, <1>4, Zenon DEF Sound
  <1> QED BY <1>4, <1>5, <1>6, Zenon DEF Sound, u

(* Line::erase, likewise. *)
LEMMA EraseSound ==
    ASSUME NEW l, Sound(l), NEW bg, NEW S
    PROVE  Sound(EraseLine(l, bg, S))
  <1> DEFINE new == [j \in Cols |-> IF j \in S THEN [l.chars[j] EXCEPT !.c = "space", !.bg = bg] ELSE l.chars[j]]
  <1>1. new = [j \in Cols |-> new[j]]
    OBVIOUS
  <1>2. EraseLine(l, bg, S) = Update(l, new)
    BY Zenon DEF EraseLine
  <1> HIDE DEF new
  <1> QED BY <1>1, <1>2, UpdateSound, Zenon
-----------------------------------------------------------------------------
(* The invariant in terms of lines: those that the frame buffer does not     *)
(* show are marked to be drawn on it.                                        *)
Shown(ls, d) ==
    /\ ls = [i \in Rows |-> ls[i]] /\ d \in Marks
    /\ \A i \in Rows :
          /\ Sound(ls[i])
          /\ \A j \in Cols : fb[i][j] = ls[i].chars[j] \/ ls[i].chars[j] = Void \/ In(i, d)

OnGrid(c) == c[1] \in 0..Width /\ c[2] \in Rows

(* Both are the invariant. *)
LEMMA InvIs == ScreenInv <=> Shown(lines, diff) /\ OnGrid(cursor)
  BY Zenon DEF ScreenInv, ScreenTypes, NoStaleGlyph, Shown, Sound, OnGrid

(* The same after a step. *)
LEMMA InvAfter ==
    ASSUME Shown(lines, diff)', OnGrid(cursor')
    PROVE  ScreenInv'
  BY Zenon DEF ScreenInv, ScreenTypes, NoStaleGlyph, Shown, Sound, OnGrid

(* MonospaceTextBuffer::next_line: every line is marked when they move up. *)
LEMMA NextLineShown ==
    ASSUME Shown(lines, diff), OnGrid(cursor)
    PROVE  /\ Shown(NextLine.lines, NextLine.diff) /\ OnGrid(NextLine.cursor)
           /\ NextLine.cursor[1] = 0
  <1>1. cursor[2] \in Nat /\ cursor[2] < Height /\ 0 \in 0..Width /\ 0 \in Rows /\ Height - 1 \in Rows
    BY Grid DEF OnGrid, Rows
  <1>2. CASE cursor[2] + 1 >= Height
    <2> DEFINE ls == [i \in Rows |-> IF i = Height - 1 THEN EraseLine(lines[0], pen.bg, Cols) ELSE lines[i + 1]]
               d == <<0, Height>>
    <2>1. NextLine = [lines |-> ls, diff |-> d, cursor |-> <<0, Height - 1>>]
      BY <1>2, Zenon DEF NextLine, NextLineMarking
    <2>2. d \in Marks /\ \A i \in Rows : In(i, d)
      BY Grid DEF Marks, In, Rows
    <2>3. ASSUME NEW i \in Rows PROVE Sound(ls[i])
      <3>1. CASE i = Height - 1
        <4>1. ls[i] = EraseLine(lines[0], pen.bg, Cols)
          BY <3>1
        <4> HIDE DEF ls
        <4> QED BY <1>1, <4>1, EraseSound, Zenon DEF Shown
      <3>2. CASE i # Height - 1
        <4>1. i + 1 \in Rows /\ ls[i] = lines[i + 1]
          BY <3>2, Grid DEF Rows
        <4> HIDE DEF ls
        <4> QED BY <4>1, Zenon DEF Shown
      <3> QED BY <3>1, <3>2
    <2>4. ls = [i \in Rows |-> ls[i]]
      OBVIOUS
    <2> HIDE DEF ls, d
    <2>5. Shown(ls, d)
      BY <2>2, <2>3, <2>4, Zenon DEF Shown
    <2>6. OnGrid(<<0, Height - 1>>)
      BY <1>1 DEF OnGrid
    <2> QED BY <2>1, <2>5, <2>6
  <1>3. CASE ~(cursor[2] + 1 >= Height)
    <2>1. NextLine = [lines |-> lines, diff |-> diff, cursor |-> <<0, cursor[2] + 1>>]
      BY <1>3, Zenon DEF NextLine, NextLineMarking
    <2>2. OnGrid(<<0, cursor[2] + 1>>)
      BY <1>1, <1>3, Grid DEF OnGrid, Rows
    <2> QED BY <2>1, <2>2
  <1> QED BY <1>2, <1>3

(* MonospaceTextBuffer::put marks the line that it changes. *)
LEMMA PutShown ==
    ASSUME NEW t, Shown(t.lines, t.diff), OnGrid(t.cursor), t.cursor[1] < Width, NEW c, PutAt(t, c), fb' = fb
    PROVE  Shown(lines, diff)' /\ OnGrid(cursor')
  <1> DEFINE x == t.cursor[1]
             y == t.cursor[2]
             l == t.lines[y]
             new == [l.chars EXCEPT ![x] = Glyph(c, pen)]
             u == Update(l, new)
  <1>1. x \in Cols /\ y \in Rows /\ y \in Nat /\ y + 1 \in Nat /\ OnGrid(<<x + 1, y>>)
    BY Grid DEF OnGrid, Rows, Cols
  <1>2. Sound(l) /\ l.chars = [j \in Cols |-> l.chars[j]]
    BY <1>1, ZenonT(40) DEF Shown, Sound, IsLine
  <1>3. new = [j \in Cols |-> new[j]]
    <2> HIDE DEF x
    <2> QED BY <1>1, <1>2, Zenon
  <1>4. /\ lines' = [t.lines EXCEPT ![y] = u]
        /\ diff' = IF u.chars # l.chars THEN Extend(t.diff, y, y + 1) ELSE t.diff
        /\ cursor' = <<x + 1, y>>
    BY Zenon DEF PutAt
  <1> HIDE DEF x, y, l, new, u
  <1>5. Sound(u)
    BY <1>2, <1>3, UpdateSound, Zenon DEF u
  <1>6. t.lines = [i \in Rows |-> t.lines[i]] /\ t.diff \in Marks
    BY Zenon DEF Shown
  <1>7. diff' \in Marks /\ (\A i \in Rows : In(i, t.diff) => In(i, diff')) /\ (u.chars # l.chars => In(y, diff'))
    <2>1. \A i \in Rows : i \in Nat
      BY DEF Rows
    <2>2. y <= y /\ y < y + 1
      BY <1>1, SMTT(20)
    <2>3. CASE u.chars # l.chars
      <3>1. diff' = Extend(t.diff, y, y + 1)
        BY <1>4, <2>3, Zenon
      <3> QED BY <1>1, <1>6, <2>1, <2>2, <3>1, Extended
    <2>4. CASE u.chars = l.chars
      <3>1. diff' = t.diff
        BY <1>4, <2>4, Zenon
      <3> QED BY <1>6, <2>4, <3>1, Zenon
    <2> QED BY <2>3, <2>4
  <1>8. lines' = [i \in Rows |-> lines'[i]] /\ lines'[y] = u /\ \A i \in Rows : i # y => lines'[i] = t.lines[i]
    BY <1>1, <1>4, <1>6, Zenon
  <1>9. ASSUME NEW i \in Rows
        PROVE  /\ Sound(lines'[i])
               /\ \A j \in Cols : \/ fb[i][j] = lines'[i].chars[j] \/ lines'[i].chars[j] = Void
                                  \/ In(i, diff')
    <2>1. CASE i # y
      BY <1>7, <1>8, <2>1, Zenon DEF Shown
    <2>2. CASE i = y /\ u.chars # l.chars
      BY <1>5, <1>7, <1>8, <2>2, Zenon
    <2>3. CASE i = y /\ u.chars = l.chars
      BY <1>5, <1>7, <1>8, <2>3, Zenon DEF Shown, l
    <2> QED BY <2>1, <2>2, <2>3
  <1> QED BY <1>1, <1>4, <1>7, <1>8, <1>9, Zenon DEF Shown, Sound

(* PutChar, with the line feed and the wrap at the end of a line. *)
LEMMA PutCharStep ==
    ASSUME ScreenInv, NEW c, PutChar(c)
    PROVE  ScreenInv'
  <1>1. Shown(lines, diff) /\ OnGrid(cursor)
    BY InvIs, Zenon
  <1>2. Shown(NextLine.lines, NextLine.diff) /\ OnGrid(NextLine.cursor) /\ NextLine.cursor[1] = 0
    BY <1>1, NextLineShown, Zenon
  <1>3. fb' = fb
    BY Zenon DEF PutChar
  <1>4. Shown(lines, diff)' /\ OnGrid(cursor')
    <2>1. CASE c = Newline
      <3>1. lines' = NextLine.lines /\ diff' = NextLine.diff /\ cursor' = NextLine.cursor
        BY <2>1, Zenon DEF PutChar
      <3> QED BY <1>2, <1>3, <3>1, Zenon DEF Shown, Sound
    <2>2. CASE c # Newline /\ cursor[1] < Width
      <3> DEFINE t == [lines |-> lines, diff |-> diff, cursor |-> cursor]
      <3>1. PutAt(t, c)
        BY <2>2, Zenon DEF PutChar
      <3>2. t.lines = lines /\ t.diff = diff /\ t.cursor = cursor
        OBVIOUS
      <3> HIDE DEF t
      <3> QED BY <1>1, <1>3, <2>2, <3>1, <3>2, PutShown, Zenon
    <2>3. CASE c # Newline /\ ~(cursor[1] < Width)
      <3>1. PutAt(NextLine, c)
        BY <2>3, Zenon DEF PutChar
      <3>2. NextLine.cursor[1] < Width
        BY <1>2, Grid
      <3> QED BY <1>2, <1>3, <3>1, <3>2, PutShown, Zenon
    <2> QED BY <2>1, <2>2, <2>3
  <1> QED BY <1>4, InvAfter, Zenon

(* MonospaceTextBuffer::erase marks the lines that it changes. *)
LEMMA EraseShown ==
    ASSUME Shown(lines, diff), NEW before, NEW left, NEW right, NEW after,
           Erase(before, left, right, after), fb' = fb
    PROVE  Shown(lines, diff)'
  <1> DEFINE x == cursor[1]
             y == cursor[2]
             Part(i) == IF i < y THEN (IF before THEN Cols ELSE {})
                        ELSE IF i > y THEN (IF after THEN Cols ELSE {})
                        ELSE (IF left THEN 0 ELSE x)..(IF right THEN Width ELSE x)
             new == [i \in Rows |-> EraseLine(lines[i], pen.bg, Part(i))]
             S == {i \in Rows : new[i].chars # lines[i].chars}
  <1>1. lines' = new /\ diff' = IF S = {} THEN diff ELSE Extend(diff, Min(S), Max(S) + 1)
    BY Zenon DEF Erase
  <1>2. \A i \in Rows : Sound(new[i])
    <2> TAKE i \in Rows
    <2>1. new[i] = EraseLine(lines[i], pen.bg, Part(i))
      OBVIOUS
    <2> HIDE DEF new, Part
    <2> QED BY <2>1, EraseSound, Zenon DEF Shown
  <1>3. new = [i \in Rows |-> new[i]]
    OBVIOUS
  <1> HIDE DEF new, Part
  <1>4. diff' \in Marks /\ \A i \in Rows : In(i, diff) \/ new[i].chars # lines[i].chars => In(i, diff')
    <2>1. CASE S = {}
      BY <1>1, <2>1, Zenon DEF Shown
    <2>2. CASE S # {}
      <3>1. S \subseteq Nat /\ S \subseteq 0..(Height - 1) /\ \A i \in Rows : i \in Nat
        BY Grid, SMTT(20) DEF Rows
      <3> DEFINE a == Min(S)
                 b == Max(S)
      <3>2. a \in S /\ b \in S /\ \A i \in S : a <= i /\ i <= b
        BY <2>2, <3>1, Grid, MinIs, MaxIs, SMTT(20)
      <3>3. diff' = Extend(diff, a, b + 1)
        BY <1>1, <2>2
      <3> HIDE DEF a, b
      <3>4. a \in Nat /\ b \in Nat /\ b + 1 \in Nat /\ \A i \in S : i \in Nat /\ a <= i /\ i < b + 1
        BY <3>1, <3>2
      <3>5. diff \in Marks
        BY DEF Shown
      <3> QED BY <3>1, <3>3, <3>4, <3>5, Extended, SMTT(20)
    <2> QED BY <2>1, <2>2
  <1>5. ASSUME NEW i \in Rows, NEW j \in Cols
        PROVE  fb[i][j] = new[i].chars[j] \/ new[i].chars[j] = Void \/ In(i, diff')
    <2>1. CASE new[i].chars # lines[i].chars
      BY <1>4, <2>1, Zenon
    <2>2. CASE new[i].chars = lines[i].chars
      BY <1>4, <2>2, Zenon DEF Shown
    <2> QED BY <2>1, <2>2
  <1> QED BY <1>1, <1>2, <1>3, <1>4, <1>5, Zenon DEF Shown, Sound

(* Clamping keeps the cursor on the grid. *)
LEMMA Clamped ==
    ASSUME NEW p \in Int, NEW q \in Int
    PROVE  OnGrid(<<Clamp(p, Width - 1), Clamp(q, Height - 1)>>)
  <1>1. Clamp(p, Width - 1) \in 0..Width
    BY Grid DEF Clamp
  <1>2. Clamp(q, Height - 1) \in Rows
    BY Grid DEF Clamp, Rows
  <1> QED BY <1>1, <1>2 DEF OnGrid

(* move_cursor and set_cursor. *)
LEMMA CursorMoves ==
    ASSUME OnGrid(cursor),
           \/ \E dx, dy \in Int : MoveCursor(dx, dy)
           \/ \E m, n \in Int : SetCursor(m, n)
    PROVE  OnGrid(cursor') /\ UNCHANGED <<lines, diff>>
  <1>1. cursor[1] \in Int /\ cursor[2] \in Int
    BY DEF OnGrid, Rows
  <1>2. ASSUME NEW dx \in Int, NEW dy \in Int, MoveCursor(dx, dy)
        PROVE  OnGrid(cursor') /\ UNCHANGED <<lines, diff>>
    <2>1. cursor[1] + dx \in Int /\ cursor[2] + dy \in Int
      BY <1>1
    <2> QED BY <1>2, <2>1, Clamped, Zenon DEF MoveCursor
  <1>3. ASSUME NEW m \in Int, NEW n \in Int, SetCursor(m, n)
        PROVE  OnGrid(cursor') /\ UNCHANGED <<lines, diff>>
    <2>1. m - 1 \in Int /\ n - 1 \in Int
      OBVIOUS
    <2> QED BY <1>3, <2>1, Clamped, Zenon DEF SetCursor
  <1> QED BY <1>2, <1>3, Zenon

(* Every escape sequence. *)
LEMMA EscapeStep ==
    ASSUME ScreenInv, NEW es \in EscapeSequences, HandleEscapeSequence(es)
    PROVE  ScreenInv'
  <1>1. Shown(lines, diff) /\ OnGrid(cursor)
    BY InvIs, Zenon
  <1>2. fb' = fb
    BY Zenon DEF HandleEscapeSequence
  <1>3. ASSUME UNCHANGED <<lines, diff>> PROVE Shown(lines, diff)'
    BY <1>1, <1>2, <1>3, Zenon DEF Shown, Sound
  <1>4. ASSUME \/ \E dx, dy \in Int : MoveCursor(dx, dy)
               \/ \E m, n \in Int : SetCursor(m, n)
        PROVE  ScreenInv'
    BY <1>1, <1>3, <1>4, CursorMoves, InvAfter, Zenon
  <1>5. \A n \in Nat : AsI32(n) \in Int /\ -AsI32(n) \in Int
    BY Grid DEF AsI32
  <1>6. 0 \in Int /\ -Half \in Int
    BY Grid
  <1>7. CASE es.op \in {"CursorUp", "CursorDown", "CursorForward", "CursorBack", "CursorNextLine", "CursorPreviousLine"}
    <2>1. es.n \in Nat
      BY <1>7, TerminalAssumption
    <2>2. \E dx, dy \in Int : MoveCursor(dx, dy)
      <3>1. AsI32(es.n) \in Int /\ -AsI32(es.n) \in Int
        BY <1>5, <2>1, Zenon
      <3>2. CASE es.op = "CursorUp"
        BY <1>6, <3>1, <3>2 DEF HandleEscapeSequence
      <3>3. CASE es.op = "CursorDown"
        BY <1>6, <3>1, <3>3 DEF HandleEscapeSequence
      <3>4. CASE es.op = "CursorForward"
        BY <1>6, <3>1, <3>4 DEF HandleEscapeSequence
      <3>5. CASE es.op = "CursorBack"
        BY <1>6, <3>1, <3>5 DEF HandleEscapeSequence
      <3>6. CASE es.op = "CursorNextLine"
        BY <1>6, <3>1, <3>6 DEF HandleEscapeSequence
      <3>7. CASE es.op = "CursorPreviousLine"
        BY <1>6, <3>1, <3>7 DEF HandleEscapeSequence
      <3> QED BY <1>7, <3>2, <3>3, <3>4, <3>5, <3>6, <3>7
    <2> QED BY <1>4, <2>2, Zenon
  <1>8. CASE es.op = "CursorHorizontalAbsolute"
    <2>1. es.n \in Int /\ cursor[2] + 1 \in Int
      BY <1>1, <1>8, TerminalAssumption DEF OnGrid, Rows
    <2>2. SetCursor(es.n, cursor[2] + 1)
      BY <1>8 DEF HandleEscapeSequence
    <2> QED BY <1>4, <2>1, <2>2, Zenon
  <1>9. CASE es.op \in {"CursorPosition", "HorizontalVerticalPosition"}
    <2>1. es.m \in Int /\ es.n \in Int
      BY <1>9, TerminalAssumption
    <2>2. SetCursor(es.m, es.n)
      BY <1>9 DEF HandleEscapeSequence
    <2> QED BY <1>4, <2>1, <2>2, Zenon
  <1>10. CASE es.op \in {"EraseInDisplay", "EraseInLine"}
    <2>1. EraseBy(es.op, es.n)
      BY <1>10 DEF HandleEscapeSequence
    <2>2. cursor' = cursor
      BY <2>1, Zenon DEF EraseBy
    <2>3. Shown(lines, diff)'
      BY <1>1, <1>2, <1>3, <2>1, EraseShown, Zenon DEF EraseBy
    <2> QED BY <1>1, <2>2, <2>3, InvAfter, Zenon
  <1>11. CASE es.op \notin {"CursorUp", "CursorDown", "CursorForward", "CursorBack", "CursorNextLine",
                           "CursorPreviousLine", "CursorHorizontalAbsolute", "CursorPosition",
                           "HorizontalVerticalPosition", "EraseInDisplay", "EraseInLine"}
    <2>1. UNCHANGED <<lines, diff, cursor>>
      <3>1. CASE es.op = "Sgr"
        BY <3>1 DEF HandleEscapeSequence
      <3>2. CASE es.op # "Sgr"
        BY <1>11, <3>2 DEF HandleEscapeSequence
      <3> QED BY <3>1, <3>2
    <2> QED BY <1>1, <1>3, <2>1, InvAfter, Zenon
  <1> QED BY <1>7, <1>8, <1>9, <1>10, <1>11

(* MonospaceTextBuffer::render: the lines that are marked are drawn, each    *)
(* from its own buffer, and the marks are gone.                              *)
LEMMA RenderStep ==
    ASSUME ScreenInv, Render
    PROVE  ScreenInv'
  <1>1. Shown(lines, diff) /\ OnGrid(cursor)
    BY InvIs, Zenon
  <1>2. /\ lines' = [i \in Rows |-> IF In(i, diff) THEN Drawn(lines[i]) ELSE lines[i]]
        /\ fb' = [i \in Rows |-> IF In(i, diff) THEN lines'[i].buf ELSE fb[i]]
        /\ diff' = <<>> /\ cursor' = cursor
    BY Zenon DEF Render
  <1>3. ASSUME NEW l, Sound(l)
        PROVE  Sound(Drawn(l)) /\ Drawn(l).chars = l.chars /\ \A j \in Cols : Drawn(l).buf[j] = l.chars[j]
    <2> DEFINE b == [j \in Cols |-> IF In(j, l.diff) THEN l.chars[j] ELSE l.buf[j]]
               u == Drawn(l)
    <2>1. l = [chars |-> l.chars, buf |-> l.buf, diff |-> l.diff] /\ l.chars = [j \in Cols |-> l.chars[j]]
      BY <1>3, Zenon DEF Sound, IsLine
    <2>2. \A j \in Cols : b[j] = l.chars[j]
      BY <1>3 DEF Sound
    <2>3. u = [l EXCEPT !.buf = b, !.diff = <<>>]
      BY Zenon DEF Drawn
    <2> HIDE DEF b, u
    <2>4. u = [chars |-> l.chars, buf |-> b, diff |-> <<>>]
      BY <2>1, <2>3, Zenon
    <2>5. u.chars = l.chars /\ u.buf = b /\ u.diff = <<>> /\ <<>> \in Marks
      BY <2>4 DEF Marks
    <2>6. Sound(u)
      BY <2>1, <2>2, <2>4, <2>5, Zenon DEF Sound, IsLine
    <2> QED BY <2>2, <2>5, <2>6, Zenon DEF u
  <1>4. ASSUME NEW i \in Rows
        PROVE  /\ Sound(lines'[i])
               /\ \A j \in Cols : fb'[i][j] = lines'[i].chars[j] \/ lines'[i].chars[j] = Void
    <2>1. CASE In(i, diff)
      <3>1. lines'[i] = Drawn(lines[i]) /\ fb'[i] = lines'[i].buf
        BY <1>2, <2>1
      <3>2. Sound(lines[i])
        BY <1>1, Zenon DEF Shown
      <3>3. /\ Sound(Drawn(lines[i])) /\ Drawn(lines[i]).chars = lines[i].chars
            /\ \A j \in Cols : Drawn(lines[i]).buf[j] = lines[i].chars[j]
        BY <1>3, <3>2, Zenon
      <3> QED BY <3>1, <3>3, Zenon
    <2>2. CASE ~In(i, diff)
      <3>1. lines'[i] = lines[i] /\ fb'[i] = fb[i]
        BY <1>2, <2>2
      <3> QED BY <1>1, <2>2, <3>1, Zenon DEF Shown
    <2> QED BY <2>1, <2>2
  <1>5. lines' = [i \in Rows |-> lines'[i]] /\ diff' \in Marks
    BY <1>2 DEF Marks
  <1>6. Shown(lines, diff)'
    BY <1>4, <1>5, Zenon DEF Shown, Sound
  <1> QED BY <1>1, <1>2, <1>6, InvAfter, Zenon

(* A new text buffer has nothing to draw, and nothing but void positions. *)
LEMMA InitInv == InitScreen => ScreenInv
  <1> SUFFICES ASSUME InitScreen PROVE ScreenInv
    OBVIOUS
  <1> DEFINE row == [j \in Cols |-> Void]
             l == [chars |-> row, buf |-> row, diff |-> <<>>]
  <1>1. lines = [i \in Rows |-> l] /\ diff = <<>> /\ cursor = <<0, 0>>
    BY Zenon DEF InitScreen
  <1>2. \A j \in Cols : row[j] = Void
    OBVIOUS
  <1>3. row = [j \in Cols |-> row[j]]
    OBVIOUS
  <1> HIDE DEF row
  <1>4. l.chars = row /\ l.buf = row /\ l.diff = <<>> /\ <<>> \in Marks
    BY DEF Marks
  <1>5. Sound(l)
    BY <1>3, <1>4, Zenon DEF Sound, IsLine
  <1> HIDE DEF l
  <1>6. lines = [i \in Rows |-> lines[i]] /\ \A i \in Rows : lines[i] = l
    BY <1>1
  <1>7. Shown(lines, diff)
    BY <1>1, <1>2, <1>4, <1>5, <1>6, Zenon DEF Shown
  <1>8. OnGrid(cursor)
    BY <1>1, Grid DEF OnGrid, Rows
  <1> QED BY <1>7, <1>8, InvIs, Zenon

(* In every state the lines, both levels of render_diff and the cursor are   *)
(* as the text buffer needs them, whatever put, erase, next_line, the cursor *)
(* movements and render do, in whatever order.                               *)
THEOREM ScreenInvariance == SpecScreen => []ScreenInv
  <1>1. ScreenInv /\ [NextScreen]_screen => ScreenInv'
    <2> SUFFICES ASSUME ScreenInv, [NextScreen]_screen PROVE ScreenInv'
      OBVIOUS
    <2>1. CASE \E c \in Glyphs \cup {Newline} : PutChar(c)
      BY <2>1, PutCharStep, Zenon
    <2>2. CASE \E es \in EscapeSequences : HandleEscapeSequence(es)
      BY <2>2, EscapeStep, Zenon
    <2>3. CASE Render
      BY <2>3, RenderStep, Zenon
    <2>4. CASE UNCHANGED screen
      BY <2>4, Zenon DEF screen, ScreenInv, ScreenTypes, IsLine, NoStaleGlyph
    <2> QED BY <2>1, <2>2, <2>3, <2>4, Zenon DEF NextScreen
  <1> QED BY <1>1, InitInv, PTL DEF SpecScreen

(* Nothing is left stale on the screen: what a write, an erasure or a scroll *)
(* changed and render has not drawn is covered by render_diff on both        *)
(* levels, and the cursor is on the grid.                                    *)
THEOREM NothingStale == SpecScreen => []NoStaleGlyph
  <1>1. ScreenInv => NoStaleGlyph
    BY DEF ScreenInv
  <1> QED BY <1>1, ScreenInvariance, PTL
-----------------------------------------------------------------------------
\* Division with remainder, as fat_entry_location and sector_range use / and %.
LEMMA Parted ==
    ASSUME NEW a \in Nat, NEW b \in Nat \ {0}
    PROVE  /\ a \div b \in Nat /\ a % b \in 0..(b - 1)
           /\ a = b * (a \div b) + (a % b)
  OBVIOUS

\* Multiples of b are ordered as what they are multiples of.
LEMMA Factor ==
    ASSUME NEW b \in Nat \ {0}, NEW s \in Int, NEW t \in Int, b * s < b * t
    PROVE  s < t
<1> SUFFICES ASSUME t <= s PROVE b * t <= b * s
    OBVIOUS
<1>1. PICK d \in Nat : s = t + d
    <2>1. s - t \in Nat /\ s = t + (s - t)
        OBVIOUS
    <2> QED BY <2>1
<1>2. b * s = b * t + b * d
    BY <1>1
<1>3. b * d \in Nat /\ b * t \in Int
    BY <1>1
<1> QED BY <1>2, <1>3

\* The multiples of b grow with what they are multiples of.
LEMMA Product ==
    ASSUME NEW b \in Nat, NEW s \in Int, NEW t \in Int, s <= t
    PROVE  b * s <= b * t
<1>1. PICK d \in Nat : t = s + d
    <2>1. t - s \in Nat /\ t = s + (t - s)
        OBVIOUS
    <2> QED BY <2>1
<1>2. b * t = b * s + b * d
    BY <1>1
<1>3. b * d \in Nat /\ b * s \in Int
    BY <1>1
<1> QED BY <1>2, <1>3

\* BufferedCluster::sector_range: a piece lies in one sector and in the range asked for.
LEMMA PieceInside ==
    ASSUME bs.bytsPerSec \in Nat \ {0}, NEW to \in Nat, NEW from \in 0..to,
           NEW p \in SectorRange(from, to)
    PROVE  /\ p[1] \in Nat /\ p[2] \in Nat /\ p[3] \in Nat
           /\ p[2] < p[3] /\ p[3] <= bs.bytsPerSec
           /\ from <= bs.bytsPerSec * p[1] + p[2] /\ bs.bytsPerSec * p[1] + p[3] <= to
<1> DEFINE B == bs.bytsPerSec
           ss == from \div B
           es == to \div B
           i(s) == IF s = ss THEN from % B ELSE 0
           j(s) == IF s = es THEN to % B ELSE B
<1>1. PICK s \in ss..es : p = <<s, i(s), j(s)>> /\ i(s) < j(s)
    BY DEF SectorRange
<1>2. B \in Nat \ {0} /\ from \in Nat
    OBVIOUS
<1>3. ss \in Nat /\ from % B \in 0..(B - 1) /\ from = B * ss + (from % B)
    BY <1>2, Parted, Zenon
<1>4. es \in Nat /\ to % B \in 0..(B - 1) /\ to = B * es + (to % B)
    BY <1>2, Parted, Zenon
<1> HIDE DEF ss, es, B
<1>5. s \in Nat /\ ss <= s /\ s <= es
    BY <1>1, <1>3, <1>4
<1>6. i(s) \in Nat /\ j(s) \in Nat /\ j(s) <= B
    BY <1>2, <1>3, <1>4
<1>7. from <= B * s + i(s)
    <2>1. CASE s = ss
        BY <2>1, <1>3
    <2>2. CASE s # ss
        <3>1. B * (ss + 1) <= B * s
            BY <2>2, <1>2, <1>3, <1>5, Product
        <3>2. B * (ss + 1) = B * ss + B
            BY <1>2, <1>3
        <3> QED BY <2>2, <3>1, <3>2, <1>2, <1>3, <1>5
    <2> QED BY <2>1, <2>2
<1>8. B * s + j(s) <= to
    <2>1. CASE s = es
        BY <2>1, <1>4
    <2>2. CASE s # es
        <3>1. B * (s + 1) <= B * es
            BY <2>2, <1>2, <1>4, <1>5, Product
        <3>2. B * (s + 1) = B * s + B
            BY <1>2, <1>5
        <3> QED BY <2>2, <3>1, <3>2, <1>2, <1>4, <1>5
    <2> QED BY <2>1, <2>2
<1> HIDE DEF i, j
<1>9. p[1] = s /\ p[2] = i(s) /\ p[3] = j(s)
    BY <1>1
<1> QED BY <1>1, <1>5, <1>6, <1>7, <1>8, <1>9, SMTT(20) DEF B

\* BufferedCluster::sector_range leaves no byte out: each is in the piece of its sector.
LEMMA PieceOfByte ==
    ASSUME bs.bytsPerSec \in Nat \ {0}, NEW to \in Nat, NEW from \in 0..to,
           NEW a \in from..(to - 1)
    PROVE  \E p \in SectorRange(from, to) :
              \E k \in p[2]..(p[3] - 1) : a = bs.bytsPerSec * p[1] + k
<1> DEFINE B == bs.bytsPerSec
           ss == from \div B
           es == to \div B
           s == a \div B
           k == a % B
           i == IF s = ss THEN from % B ELSE 0
           j == IF s = es THEN to % B ELSE B
<1>1. B \in Nat \ {0} /\ from \in Nat /\ a \in Nat /\ from <= a /\ a < to
    OBVIOUS
<1>2. ss \in Nat /\ from % B \in 0..(B - 1) /\ from = B * ss + (from % B)
    BY <1>1, Parted, Zenon
<1>3. es \in Nat /\ to % B \in 0..(B - 1) /\ to = B * es + (to % B)
    BY <1>1, Parted, Zenon
<1>4. s \in Nat /\ k \in 0..(B - 1) /\ a = B * s + k
    BY <1>1, Parted, Zenon
<1> HIDE DEF ss, es, s, k, B
<1>5. ss <= s
    <2>1. B * ss < B * (s + 1)
        <3>1. B * (s + 1) = B * s + B /\ B * ss \in Nat /\ B * s \in Nat
            BY <1>1, <1>2, <1>4
        <3> QED BY <3>1, <1>1, <1>2, <1>4
    <2> QED BY <2>1, <1>1, <1>2, <1>4, Factor
<1>6. s <= es
    <2>1. B * s < B * (es + 1)
        <3>1. B * (es + 1) = B * es + B /\ B * es \in Nat /\ B * s \in Nat
            BY <1>1, <1>3, <1>4
        <3> QED BY <3>1, <1>1, <1>3, <1>4
    <2> QED BY <2>1, <1>1, <1>3, <1>4, Factor
<1>7. i \in Nat /\ i <= k
    BY <1>1, <1>2, <1>4
<1>8. j \in Nat /\ k < j
    BY <1>1, <1>3, <1>4
<1> DEFINE Piece(t) == <<t, IF t = ss THEN from % B ELSE 0, IF t = es THEN to % B ELSE B>>
<1>9. <<s, i, j>> \in SectorRange(from, to)
    <2>1. SectorRange(from, to) = {p \in {Piece(t) : t \in ss..es} : p[2] < p[3]}
        BY DEF SectorRange, ss, es, B
    <2>2. s \in ss..es
        BY <1>2, <1>3, <1>4, <1>5, <1>6
    <2>3. Piece(s) = <<s, i, j>>
        OBVIOUS
    <2>4. Piece(s)[2] < Piece(s)[3]
        BY <1>4, <1>7, <1>8
    <2> HIDE DEF Piece
    <2> QED BY <2>1, <2>2, <2>3, <2>4
<1> DEFINE q == <<s, i, j>>
<1>10. q[1] = s /\ q[2] = i /\ q[3] = j
    OBVIOUS
<1> HIDE DEF i, j
<1>11. k \in q[2]..(q[3] - 1) /\ a = B * q[1] + k
    BY <1>1, <1>4, <1>7, <1>8, <1>10
<1>12. q \in SectorRange(from, to)
    BY <1>9
<1> HIDE DEF q
<1> QED BY <1>11, <1>12 DEF B

\* What try_from and Root::new leave of a boot sector they accept (boot_sector.rs, low_level.rs).
LEMMA Mounted ==
    ASSUME GeometryInv, status = "mounted"
    PROVE  /\ bs.bytsPerSec \in Nat \ {0} /\ bs.bytsPerSec % 4 = 0
           /\ bs.secPerClus \in Nat \ {0} /\ bs.rsvdSecCnt \in Nat
           /\ bs.numFats \in Nat /\ bs.fatSz32 \in Nat
           /\ bs.totSec32 \in Nat /\ bs.totSec32 <= volume.count
           /\ volume.size = bs.bytsPerSec /\ volume.count \in 0..Wrap /\ Wrap \in Nat
<1>1. Verdict = "mounted" /\ bs \in BootSectors /\ volume \in Volumes
    BY DEF GeometryInv
<1>2. /\ bs.bytsPerSec \in SectorSizes /\ IsPowerOfTwo(bs.secPerClus)
      /\ bs.bytsPerSec = volume.size /\ ~(volume.count < bs.totSec32)
    BY <1>1 DEF Verdict
<1>3. bs.bytsPerSec \in Nat \ {0} /\ bs.bytsPerSec % 4 = 0
    BY <1>2, GeometryAssumption
<1>4. /\ bs.secPerClus \in Nat /\ bs.rsvdSecCnt \in Nat /\ bs.numFats \in Nat
      /\ bs.totSec32 \in Nat /\ bs.fatSz32 \in Nat
    BY <1>1, GeometryAssumption
<1>5. volume.count \in 0..Wrap /\ Wrap \in Nat
    BY <1>1, GeometryAssumption
<1>6. bs.secPerClus # 0
    BY <1>2 DEF IsPowerOfTwo
<1> QED BY <1>2, <1>3, <1>4, <1>5, <1>6

\* Block::check_capacity lets one sector of the device through: its sum does not wrap.
LEMMA SectorPasses ==
    ASSUME GeometryInv, status = "mounted", NEW t \in Nat, t < bs.totSec32
    PROVE  CheckCapacity(t, bs.bytsPerSec)
<1> DEFINE B == bs.bytsPerSec
<1>1. /\ B \in Nat \ {0} /\ volume.size = B /\ bs.totSec32 \in Nat
      /\ bs.totSec32 <= volume.count /\ volume.count \in 0..Wrap /\ Wrap \in Nat
    BY Mounted
<1>2. (B - 1) \div B = 0
    <2>1. B - 1 \in Nat /\ B - 1 < B
        BY <1>1
    <2> HIDE DEF B
    <2> QED BY <2>1, <1>1
<1>3. t % Wrap = t /\ t < volume.count
    BY <1>1
<1>4. (IF B = 0 THEN 1 ELSE B) = B
    BY <1>1
<1>5. (t + ((IF B = 0 THEN 1 ELSE B) - 1) \div volume.size) = t
    BY <1>1, <1>2, <1>4
<1> QED BY <1>3, <1>5 DEF CheckCapacity

\* The areas of a well-formed volume, one behind the other (BootSector::data_area_start).
LEMMA Areas ==
    ASSUME GeometryInv, status = "mounted", WellFormed
    PROVE  /\ DataAreaStart \in Nat /\ DataAreaStart <= bs.totSec32
           /\ bs.rsvdSecCnt + bs.fatSz32 <= DataAreaStart
           /\ DataAreaSize \in Nat
<1>1. bs.rsvdSecCnt \in Nat /\ bs.fatSz32 \in Nat /\ bs.numFats \in Nat /\ bs.totSec32 \in Nat
    BY Mounted
<1>2. bs.numFats > 0 /\ DataAreaStart <= bs.totSec32
    BY DEF WellFormed
<1>3. bs.fatSz32 * 1 <= bs.fatSz32 * bs.numFats
    BY <1>1, <1>2, Product
<1>4. bs.fatSz32 * bs.numFats \in Nat
    BY <1>1
<1>5. DataAreaStart = bs.rsvdSecCnt + bs.fatSz32 * bs.numFats
    BY DEF DataAreaStart, FatAreaStart, FatAreaSize
<1>6. DataAreaSize = bs.totSec32 - DataAreaStart
    BY SMTT(20) DEF DataAreaSize
<1> QED BY <1>1, <1>2, <1>3, <1>4, <1>5, <1>6

\* What an access touches depends on the boot sector and the device only.
LEMMA Unmoved ==
    ASSUME bs' = bs, volume' = volume, NEW x, access' = x, TouchesItsOwn(x)
    PROVE  AccessExact'
  BY DEF AccessExact, TouchesItsOwn, Positions, CheckCapacity, FatAreaStart, FatAreaSize,
         DataAreaStart, ClusterBytes

\* BufferedFat::read and write touch the entry of their cluster, which lies in one sector.
LEMMA FatAccess ==
    ASSUME GeometryInv, NEW n \in Nat, AccessFat(n)
    PROVE  AccessExact'
<1> DEFINE B == bs.bytsPerSec
           q == (n * 4) \div B
           r == (n * 4) % B
           m == DataAreaSize \div bs.secPerClus
           t == bs.rsvdSecCnt + q
<1>1. status = "mounted" /\ WellFormed /\ IsClusterAvailable(n)
    BY DEF AccessFat
<1>2. /\ B \in Nat \ {0} /\ B % 4 = 0 /\ bs.rsvdSecCnt \in Nat /\ bs.fatSz32 \in Nat
      /\ bs.secPerClus \in Nat \ {0} /\ bs.totSec32 \in Nat
    BY <1>1, Mounted
<1>3. q \in Nat /\ r \in 0..(B - 1) /\ n * 4 = B * q + r
    <2> DEFINE e == n * 4
    <2>1. e \in Nat
        OBVIOUS
    <2> HIDE DEF e
    <2>2. e \div B \in Nat /\ e % B \in 0..(B - 1) /\ e = B * (e \div B) + (e % B)
        BY <1>2, <2>1, Parted, Zenon
    <2> QED BY <2>2 DEF e
<1>4. DataAreaSize \in Nat /\ bs.rsvdSecCnt + bs.fatSz32 <= DataAreaStart
      /\ DataAreaStart \in Nat /\ DataAreaStart <= bs.totSec32
    BY <1>1, Areas
<1>5. m \in Nat
    BY <1>2, <1>4, Parted, Zenon
<1>6. n <= m + 1 /\ (m + 2) * 4 <= bs.fatSz32 * B
    BY <1>1 DEF IsClusterAvailable, WellFormed
<1>7. access' = [kind |-> "fat", n |-> n, from |-> 0, to |-> 4, parts |-> {<<t, r, r + 4>>}]
    BY DEF AccessFat, FatEntryLocation, FatAreaStart
<1>8. bs' = bs /\ volume' = volume
    BY DEF AccessFat
<1> HIDE DEF q, r, m, B
<1>9. r + 4 <= B
    <2>1. PICK b \in Nat : B = 4 * b
        <3>1. B \div 4 \in Nat /\ B = 4 * (B \div 4) + (B % 4)
            BY <1>2, Parted
        <3>2. B = 4 * (B \div 4)
            BY <3>1, <1>2
        <3> QED BY <3>1, <3>2
    <2>2. B * q = 4 * (b * q) /\ b * q \in Nat
        BY <2>1, <1>3
    <2> QED BY <1>2, <1>3, <2>1, <2>2
<1>10. q < bs.fatSz32
    <2>1. B * q < B * bs.fatSz32
        <3>1. B * bs.fatSz32 = bs.fatSz32 * B /\ B * q \in Nat /\ bs.fatSz32 * B \in Nat
            BY <1>2, <1>3
        <3> QED BY <3>1, <1>2, <1>3, <1>5, <1>6
    <2> QED BY <2>1, <1>2, <1>3, Factor, SMTT(20)
<1>11. t \in Nat /\ bs.rsvdSecCnt <= t /\ t < bs.rsvdSecCnt + bs.fatSz32 /\ t < bs.totSec32
    BY <1>2, <1>3, <1>4, <1>10
<1>12. CheckCapacity(t, B)
    BY <1>1, <1>11, SectorPasses DEF B
<1>13. Positions({<<t, r, r + 4>>}) = (bs.rsvdSecCnt * B + 4 * n)..(bs.rsvdSecCnt * B + 4 * n + 3)
    <2>1. Positions({<<t, r, r + 4>>}) = {t * B + k : k \in r..(r + 3)}
        <3>1. (r + 4) - 1 = r + 3
            BY <1>3
        <3>2. Positions({<<t, r, r + 4>>}) = {t * B + k : k \in r..((r + 4) - 1)}
            BY DEF Positions, B
        <3> QED BY <3>1, <3>2
    <2>2. t * B + r = bs.rsvdSecCnt * B + 4 * n /\ t * B \in Nat /\ bs.rsvdSecCnt * B \in Nat
        BY <1>2, <1>3
    <2> DEFINE tB == t * B
               rB == bs.rsvdSecCnt * B
    <2>3. tB + r = rB + 4 * n /\ tB \in Nat /\ rB \in Nat
        BY <2>2
    <2> HIDE DEF tB, rB
    <2>4. {tB + k : k \in r..(r + 3)} = (rB + 4 * n)..(rB + 4 * n + 3)
        <3>1. ASSUME NEW k \in r..(r + 3) PROVE tB + k \in (rB + 4 * n)..(rB + 4 * n + 3)
            BY <2>3, <1>3
        <3>2. ASSUME NEW a \in (rB + 4 * n)..(rB + 4 * n + 3)
              PROVE  a - tB \in r..(r + 3) /\ a = tB + (a - tB)
            BY <2>3, <1>3
        <3> QED BY <3>1, <3>2
    <2> QED BY <2>1, <2>4, Zenon DEF tB, rB
<1> DEFINE base == FatAreaStart * bs.bytsPerSec + 4 * n
           w == <<t, r, r + 4>>
<1>14. Positions({w}) = (base + 0)..(base + 4 - 1)
    <2>1. base \in Nat /\ base = bs.rsvdSecCnt * B + 4 * n
        BY <1>2 DEF FatAreaStart, B
    <2>2. base + 0 = base /\ base + 4 - 1 = base + 3
        BY <2>1
    <2> QED BY <1>13, <2>1, <2>2
<1>15. w[1] = t /\ w[3] = r + 4
    OBVIOUS
<1>16. FatAreaStart = bs.rsvdSecCnt
    BY DEF FatAreaStart
<1> DEFINE x == [kind |-> "fat", n |-> n, from |-> 0, to |-> 4, parts |-> {w}]
<1>17. /\ x.kind = "fat" /\ x.n = n /\ x.from = 0 /\ x.to = 4 /\ x.parts = {w}
    OBVIOUS
<1> HIDE DEF w, t
<1>18. \A p \in {w} : /\ FatAreaStart <= p[1] /\ p[1] < FatAreaStart + bs.fatSz32
                     /\ p[3] <= bs.bytsPerSec /\ CheckCapacity(p[1], bs.bytsPerSec)
    BY <1>9, <1>11, <1>12, <1>15, <1>16, SMTT(20) DEF B
<1>19. TouchesItsOwn(x)
    <2> HIDE DEF x
    <2> QED BY <1>14, <1>17, <1>18 DEF TouchesItsOwn
<1>20. access' = x
    BY <1>7 DEF w
<1> HIDE DEF x
<1> QED BY <1>8, <1>19, <1>20, Unmoved

\* BufferedCluster::read and write touch their range of their cluster.
LEMMA ClusterAccess ==
    ASSUME GeometryInv, NEW n \in Nat, NEW to \in 0..ClusterBytes, NEW from \in 0..to,
           AccessCluster(n, from, to)
    PROVE  AccessExact'
<1> DEFINE B == bs.bytsPerSec
           C == bs.secPerClus
           m == DataAreaSize \div C
           c == ClusterLocation(n)
           parts == {<<c + p[1], p[2], p[3]>> : p \in SectorRange(from, to)}
           x == [kind |-> "data", n |-> n, from |-> from, to |-> to, parts |-> parts]
           base == DataAreaStart * B + (n - 2) * ClusterBytes
<1>1. status = "mounted" /\ WellFormed /\ IsClusterAvailable(n) /\ access' = x
      /\ bs' = bs /\ volume' = volume
    BY DEF AccessCluster
<1>2. B \in Nat \ {0} /\ C \in Nat \ {0} /\ bs.totSec32 \in Nat
    BY <1>1, Mounted, SMTT(20)
<1>3. DataAreaSize \in Nat /\ DataAreaStart \in Nat /\ DataAreaSize = bs.totSec32 - DataAreaStart
    BY <1>1, Areas DEF DataAreaSize
<1>4. m \in Nat /\ C * m <= DataAreaSize
    <2>1. m \in Nat /\ DataAreaSize % C \in 0..(C - 1) /\ DataAreaSize = C * m + (DataAreaSize % C)
        BY <1>2, <1>3, Parted, Zenon
    <2>2. C * m \in Nat
        BY <2>1, <1>2
    <2> HIDE DEF m
    <2> QED BY <2>1, <2>2, <1>2, <1>3
<1>5. 2 <= n /\ n <= m + 1
    BY <1>1 DEF IsClusterAvailable
<1>6. c = DataAreaStart + (n - 2) * C /\ ClusterBytes = B * C /\ ClusterBytes \in Nat
    BY <1>2 DEF ClusterLocation, ClusterBytes
<1>7. to \in Nat /\ from \in Nat /\ to <= B * C
    BY <1>6
<1> HIDE DEF m, c
<1>8. c \in Nat /\ DataAreaStart <= c /\ c + C <= bs.totSec32
    <2>1. C * (n - 1) <= C * m
        BY <1>2, <1>4, <1>5, Product
    <2>2. (n - 2) * C \in Nat /\ C * (n - 1) = (n - 2) * C + C /\ C * m \in Nat
        BY <1>2, <1>4, <1>5
    <2> QED BY <2>1, <2>2, <1>2, <1>3, <1>4, <1>6, SMTT(20)
<1>9. base \in Nat /\ c * B = base
    <2>1. n - 2 \in Nat
        BY <1>5
    <2>2. c * B = DataAreaStart * B + ((n - 2) * C) * B
        BY <1>2, <1>3, <1>6, <2>1
    <2>3. ((n - 2) * C) * B = (n - 2) * (B * C)
        BY <1>2, <2>1
    <2>4. DataAreaStart * B \in Nat /\ (n - 2) * (B * C) \in Nat
        BY <1>2, <1>3, <2>1, SMTT(20)
    <2> QED BY <1>6, <2>2, <2>3, <2>4
<1> HIDE DEF base
<1>10. ASSUME NEW p \in SectorRange(from, to)
       PROVE  /\ p[1] \in Nat /\ p[2] \in Nat /\ p[3] \in Nat /\ p[2] < p[3] /\ p[3] <= B
              /\ from <= B * p[1] + p[2] /\ B * p[1] + p[3] <= to
              /\ p[1] < C
              /\ (c + p[1]) * B = base + B * p[1] /\ B * p[1] \in Nat
    <2>1. /\ p[1] \in Nat /\ p[2] \in Nat /\ p[3] \in Nat /\ p[2] < p[3] /\ p[3] <= B
          /\ from <= B * p[1] + p[2] /\ B * p[1] + p[3] <= to
        BY <1>2, <1>7, PieceInside, SMTT(20)
    <2>2. B * p[1] \in Nat /\ B * C \in Nat
        BY <2>1, <1>2
    <2>3. B * p[1] < B * C
        BY <2>1, <2>2, <1>7
    <2>4. p[1] < C
        BY <2>1, <2>3, <1>2, Factor
    <2>5. (c + p[1]) * B = c * B + B * p[1]
        BY <2>1, <1>2, <1>8, SMTT(20)
    <2> QED BY <2>1, <2>2, <2>4, <2>5, <1>9, SMTT(20)
<1>11. Positions(parts) = (base + from)..(base + to - 1)
    <2>1. ASSUME NEW a \in Positions(parts)
          PROVE  a \in (base + from)..(base + to - 1)
        <3>1. PICK p \in SectorRange(from, to) :
                 a \in {(c + p[1]) * B + k : k \in p[2]..(p[3] - 1)}
            BY DEF Positions
        <3>2. PICK k \in p[2]..(p[3] - 1) : a = (c + p[1]) * B + k
            BY <3>1
        <3>3. k \in Nat /\ p[2] <= k /\ k < p[3]
            BY <3>2, <1>10, SMTT(20)
        <3> DEFINE o == B * p[1]
        <3>4. a = base + o + k /\ o \in Nat /\ from <= o + p[2] /\ o + p[3] <= to
              /\ p[2] \in Nat /\ p[3] \in Nat
            BY <3>2, <1>10, SMTT(20)
        <3> HIDE DEF o
        <3> QED BY <3>3, <3>4, <1>7, <1>9
    <2>2. ASSUME NEW a \in (base + from)..(base + to - 1)
          PROVE  a \in Positions(parts)
        <3>1. a - base \in from..(to - 1) /\ a \in Int
            BY <1>7, <1>9
        <3>2. PICK p \in SectorRange(from, to) :
                 \E k \in p[2]..(p[3] - 1) : a - base = B * p[1] + k
            BY <3>1, <1>2, <1>7, PieceOfByte
        <3>3. PICK k \in p[2]..(p[3] - 1) : a - base = B * p[1] + k
            BY <3>2
        <3>4. k \in Int /\ B * p[1] \in Nat /\ (c + p[1]) * B = base + B * p[1]
            BY <3>3, <1>10
        <3> DEFINE o == B * p[1]
                   z == (c + p[1]) * B
        <3>5. a - base = o + k /\ o \in Nat /\ z = base + o
            BY <3>3, <3>4
        <3> HIDE DEF o, z
        <3>6. a = z + k
            BY <3>1, <3>4, <3>5, <1>9, SMTT(20)
        <3> DEFINE w == <<c + p[1], p[2], p[3]>>
        <3>7. w \in parts /\ w[1] = c + p[1] /\ w[2] = p[2] /\ w[3] = p[3]
            OBVIOUS
        <3> HIDE DEF w, parts
        <3>8. a \in {w[1] * bs.bytsPerSec + i : i \in w[2]..(w[3] - 1)}
            BY <3>3, <3>6, <3>7, SMTT(20) DEF z
        <3> QED BY <3>7, <3>8 DEF Positions
    <2> QED BY <2>1, <2>2, Zenon
<1>12. ASSUME NEW w \in parts
       PROVE  /\ DataAreaStart <= w[1] /\ w[1] < bs.totSec32 /\ w[3] <= bs.bytsPerSec
              /\ CheckCapacity(w[1], bs.bytsPerSec)
    <2>1. PICK p \in SectorRange(from, to) : w = <<c + p[1], p[2], p[3]>>
        BY SMTT(20)
    <2>2. p[1] \in Nat /\ p[1] < C /\ p[3] <= B /\ w[1] = c + p[1] /\ w[3] = p[3]
        BY <2>1, <1>10, SMTT(20)
    <2>3. w[1] \in Nat /\ DataAreaStart <= w[1] /\ w[1] < bs.totSec32
        BY <2>2, <1>2, <1>3, <1>8, SMTT(20)
    <2> QED BY <2>2, <2>3, <1>1, SectorPasses
<1>13. x.kind = "data" /\ x.n = n /\ x.from = from /\ x.to = to /\ x.parts = parts
    BY SMTT(20)
<1> HIDE DEF x, parts
<1>14. TouchesItsOwn(x)
    BY <1>11, <1>12, <1>13, SMTT(20) DEF TouchesItsOwn, base
<1> QED BY <1>1, <1>14, Unmoved, SMTT(20)

\* A mounted volume has passed every check, and each access of BufferedFat and
\* BufferedCluster is exact, on disks of any geometry.
THEOREM GeometryInvariance == SpecGeometry => []GeometryInv
<1>1. InitGeometry => GeometryInv
    BY DEF InitGeometry, GeometryInv, AccessExact, NoAccess
<1>2. GeometryInv /\ [NextGeometry]_geometry => GeometryInv'
    <2> SUFFICES ASSUME GeometryInv, [NextGeometry]_geometry PROVE GeometryInv'
        OBVIOUS
    <2>1. ASSUME bs' = bs, volume' = volume, AccessExact',
                 status' = "mounted" => Verdict = "mounted"
          PROVE  GeometryInv'
        <3>1. Verdict' = Verdict
            BY <2>1 DEF Verdict
        <3> QED BY <2>1, <3>1, SMTT(20) DEF GeometryInv
    <2>2. ASSUME bs' = bs, volume' = volume, access' = access PROVE AccessExact'
        <3>1. AccessExact
            BY DEF GeometryInv
        <3>2. CASE access.kind = "none"
            BY <2>2, <3>2 DEF AccessExact
        <3>3. CASE access.kind # "none"
            BY <2>2, <3>1, <3>3, Unmoved DEF AccessExact
        <3> QED BY <3>2, <3>3
    <2>3. CASE Mount
        BY <2>1, <2>2, <2>3, SMTT(20) DEF Mount
    <2>4. ASSUME NEW n \in 2..(volume.count + 1), AccessFat(n) PROVE GeometryInv'
        <3>1. n \in Nat
            BY <2>4, GeometryAssumption DEF GeometryInv
        <3>2. AccessExact'
            BY <2>4, <3>1, FatAccess, SMTT(20)
        <3> QED BY <2>1, <2>4, <3>2 DEF AccessFat, GeometryInv
    <2>5. ASSUME NEW n \in 2..(volume.count + 1), NEW to \in 0..ClusterBytes, NEW from \in 0..to,
                 AccessCluster(n, from, to)
          PROVE  GeometryInv'
        <3>1. n \in Nat
            BY <2>5, GeometryAssumption DEF GeometryInv
        <3>2. AccessExact'
            BY <2>5, <3>1, ClusterAccess
        <3> QED BY <2>1, <2>5, <3>2 DEF AccessCluster, GeometryInv
    <2>6. CASE UNCHANGED geometry
        BY <2>1, <2>2, <2>6 DEF geometry, GeometryInv
    <2> QED BY <2>3, <2>4, <2>5, <2>6 DEF NextGeometry
<1> QED BY <1>1, <1>2, PTL DEF SpecGeometry

\* Every access of the mounted file system touches exactly its own bytes
\* (fat_entry_location, cluster_location, sector_range, check_capacity).
THEOREM AccessesExact == SpecGeometry => []AccessExact
<1>1. GeometryInv => AccessExact
    BY DEF GeometryInv
<1> QED BY <1>1, GeometryInvariance, PTL
=============================================================================
