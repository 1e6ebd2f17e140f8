--------------------------- MODULE SyncQueueProofs ---------------------------
(* Proofs about SyncQueue, for any sets of threads and items and any N > 1.  *)
EXTENDS SyncQueue, SequenceTheorems, TLAPS

LEMMA SizeFacts == N \in Nat \ {0} /\ N > 1 /\ 1 \in 0 .. 2 * N /\ N \in 0 .. 2 * N
  BY SyncQueueAssumption

LEMMA InPos == \A p : p \in Pos <=> p \in Int /\ 0 <= p /\ p < 2 * N
  BY SizeFacts DEF Pos

(* Cells, positions and distances without %. *)
LEMMA CellIs ==
    ASSUME NEW p \in Pos
    PROVE  p % N = (IF p < N THEN p ELSE p - N) /\ p % N \in 0 .. N - 1
  <1>1. N \in Nat \ {0} /\ p \in Int /\ 0 <= p /\ p < 2 * N
    BY SizeFacts, InPos, Zenon
  <1>2. p % N = (IF p < N THEN p ELSE p - N)
    BY <1>1
  <1>3. p % N \in 0 .. N - 1
    BY <1>1
  <1> QED BY <1>2, <1>3, Zenon

LEMMA PlusIs ==
    ASSUME NEW p \in Pos, NEW n \in 0 .. 2 * N
    PROVE  Plus(p, n) = (IF p + n < 2 * N THEN p + n ELSE p + n - 2 * N) /\ Plus(p, n) \in Pos
  <1> DEFINE a == p + n
             m == 2 * N
  <1>1. m \in Nat \ {0} /\ a \in Int /\ 0 <= a /\ a < 2 * m
    BY SizeFacts, InPos
  <1> HIDE DEF a, m
  <1>2. a % m = (IF a < m THEN a ELSE a - m)
    BY <1>1
  <1>3. a % m \in 0 .. m - 1
    BY <1>1
  <1> QED BY <1>1, <1>2, <1>3 DEF a, m, Plus, Pos

LEMMA DistIs ==
    ASSUME NEW p \in Pos, NEW d \in Pos
    PROVE  /\ Dist(p, d) = (IF d <= p THEN p - d ELSE p - d + 2 * N)
           /\ Dist(p, d) \in Pos /\ (Dist(p, d) = 0 <=> p = d)
  <1> DEFINE a == p - d
             m == 2 * N
  <1>1. m \in Nat \ {0} /\ a \in Int /\ -m < a /\ a < m /\ (0 <= a <=> d <= p) /\ (a = 0 <=> p = d)
    BY SizeFacts, InPos
  <1> HIDE DEF a, m
  <1>2. a % m = (IF 0 <= a THEN a ELSE a + m)
    BY <1>1
  <1>3. a % m \in 0 .. m - 1 /\ (a % m = 0 <=> a = 0)
    BY <1>1, <1>2
  <1> QED BY <1>1, <1>2, <1>3, Zenon DEF a, m, Dist, Pos

(* A step along the ring, at either end of a distance. *)
LEMMA DistStep ==
    ASSUME NEW p \in Pos, NEW d \in Pos
    PROVE  /\ Dist(p, d) < 2 * N - 1 => Dist(Plus(p, 1), d) = Dist(p, d) + 1
           /\ p # d => Dist(p, Plus(d, 1)) = Dist(p, d) - 1
           /\ p = d => Dist(p, Plus(d, 1)) = 2 * N - 1
  <1> DEFINE p1 == Plus(p, 1)
             d1 == Plus(d, 1)
  <1>1. /\ p1 = (IF p + 1 < 2 * N THEN p + 1 ELSE p + 1 - 2 * N) /\ p1 \in Pos
        /\ d1 = (IF d + 1 < 2 * N THEN d + 1 ELSE d + 1 - 2 * N) /\ d1 \in Pos
    BY PlusIs, SizeFacts, Zenon
  <1> HIDE DEF p1, d1
  <1>2. /\ Dist(p, d) = (IF d <= p THEN p - d ELSE p - d + 2 * N)
        /\ Dist(p1, d) = (IF d <= p1 THEN p1 - d ELSE p1 - d + 2 * N)
        /\ Dist(p, d1) = (IF d1 <= p THEN p - d1 ELSE p - d1 + 2 * N)
    BY <1>1, DistIs
  <1>3. /\ Dist(p, d) < 2 * N - 1 => Dist(p1, d) = Dist(p, d) + 1
        /\ p # d => Dist(p, d1) = Dist(p, d) - 1
        /\ p = d => Dist(p, d1) = 2 * N - 1
    BY <1>1, <1>2, InPos, SizeFacts
  <1> QED BY <1>3, Zenon DEF p1, d1

(* Two positions share a cell if they are N apart. *)
LEMMA SameCell ==
    ASSUME NEW p \in Pos, NEW q \in Pos, p % N = q % N
    PROVE  /\ Plus(p, 1) # q /\ (p # q => Plus(p, N) = q)
           /\ \A d \in Pos : p = q \/ Dist(p, d) = Dist(q, d) + N \/ Dist(q, d) = Dist(p, d) + N
  <1>1. /\ Plus(p, 1) = (IF p + 1 < 2 * N THEN p + 1 ELSE p + 1 - 2 * N)
        /\ Plus(p, N) = (IF p + N < 2 * N THEN p + N ELSE p + N - 2 * N)
    BY PlusIs, SizeFacts, Zenon
  <1>2. p = q \/ p = q + N \/ q = p + N
    BY CellIs, SizeFacts, InPos
  <1>3. Plus(p, 1) # q /\ (p # q => Plus(p, N) = q)
    BY <1>1, <1>2, SizeFacts, InPos
  <1>4. ASSUME NEW d \in Pos
        PROVE  p = q \/ Dist(p, d) = Dist(q, d) + N \/ Dist(q, d) = Dist(p, d) + N
    <2>1. /\ Dist(p, d) = (IF d <= p THEN p - d ELSE p - d + 2 * N)
          /\ Dist(q, d) = (IF d <= q THEN q - d ELSE q - d + 2 * N)
      BY DistIs, Zenon
    <2>2. /\ p \in Int /\ 0 <= p /\ p < 2 * N /\ q \in Int /\ 0 <= q /\ q < 2 * N
          /\ d \in Int /\ 0 <= d /\ d < 2 * N
      BY InPos, Zenon
    <2>3. CASE p = q + N
      BY <2>1, <2>2, <2>3, SizeFacts
    <2>4. CASE q = p + N
      BY <2>1, <2>2, <2>4, SizeFacts
    <2> QED BY <1>2, <2>3, <2>4, Zenon
  <1> QED BY <1>3, <1>4, Zenon

(* The position N further on shares the cell. *)
LEMMA HalfWay ==
    ASSUME NEW p \in Pos
    PROVE  /\ Plus(p, N) \in Pos /\ Plus(p, N) % N = p % N /\ Plus(p, N) # p
           /\ Plus(p, N) # Plus(p, 1) /\ Plus(p, 1) # p /\ Plus(Plus(p, N), N) = p
           /\ \A d \in Pos : Dist(p, d) < N => Dist(Plus(p, N), d) = Dist(p, d) + N
           /\ \A d \in Pos : Dist(p, d) >= N => Dist(Plus(p, N), d) = Dist(p, d) - N
  <1> DEFINE r == Plus(p, N)
  <1>1. /\ r = (IF p + N < 2 * N THEN p + N ELSE p + N - 2 * N) /\ r \in Pos
        /\ Plus(p, 1) = (IF p + 1 < 2 * N THEN p + 1 ELSE p + 1 - 2 * N)
        /\ p % N = (IF p < N THEN p ELSE p - N)
    BY PlusIs, CellIs, SizeFacts, Zenon
  <1> HIDE DEF r
  <1>2. /\ r % N = (IF r < N THEN r ELSE r - N)
        /\ Plus(r, N) = (IF r + N < 2 * N THEN r + N ELSE r + N - 2 * N)
    BY <1>1, PlusIs, CellIs, SizeFacts, Zenon
  <1>3. /\ r \in Pos /\ r % N = p % N /\ r # p
        /\ r # Plus(p, 1) /\ Plus(p, 1) # p /\ Plus(r, N) = p
    BY <1>1, <1>2, SizeFacts, InPos
  <1>4. ASSUME NEW d \in Pos
        PROVE  /\ Dist(p, d) < N => Dist(r, d) = Dist(p, d) + N
               /\ Dist(p, d) >= N => Dist(r, d) = Dist(p, d) - N
    <2>1. /\ Dist(p, d) = (IF d <= p THEN p - d ELSE p - d + 2 * N)
          /\ Dist(r, d) = (IF d <= r THEN r - d ELSE r - d + 2 * N)
      BY <1>1, DistIs, Zenon
    <2> QED BY <1>1, <2>1, SizeFacts, InPos
  <1> QED BY <1>3, <1>4, Zenon DEF r

(* Positions at the same distance are the same. *)
LEMMA DistInjective ==
    ASSUME NEW p \in Pos, NEW q \in Pos, NEW d \in Pos, Dist(p, d) = Dist(q, d)
    PROVE  p = q
  BY DistIs, InPos, SizeFacts

LEMMA NextInjective ==
    ASSUME NEW p \in Pos, NEW q \in Pos, Plus(p, 1) = Plus(q, 1)
    PROVE  p = q
  <1>1. /\ Plus(p, 1) = (IF p + 1 < 2 * N THEN p + 1 ELSE p + 1 - 2 * N)
        /\ Plus(q, 1) = (IF q + 1 < 2 * N THEN q + 1 ELSE q + 1 - 2 * N)
    BY PlusIs, SizeFacts, Zenon
  <1> QED BY <1>1, InPos, SizeFacts

(* The cells in use and those of the last round are different cells. *)
LEMMA OneCell ==
    ASSUME NEW p \in Pos, NEW q \in Pos, NEW d \in Pos, NEW k \in 0 .. N, p % N = q % N,
           Dist(p, d) < k \/ Dist(p, d) >= N + k, Dist(q, d) < k \/ Dist(q, d) >= N + k
    PROVE  p = q
  <1>1. Dist(p, d) \in Int /\ Dist(p, d) < 2 * N /\ Dist(q, d) \in Int /\ Dist(q, d) < 2 * N
    BY DistIs, InPos, Zenon
  <1>2. p = q \/ Dist(p, d) = Dist(q, d) + N \/ Dist(q, d) = Dist(p, d) + N
    BY SameCell, Zenon
  <1>3. Dist(p, d) >= 0 /\ Dist(q, d) >= 0
    BY DistIs, InPos, Zenon
  <1> QED BY <1>1, <1>2, <1>3, SizeFacts

(* Counting on from d. *)
LEMMA CountOn ==
    ASSUME NEW d \in Pos, NEW n \in 0 .. 2 * N - 1
    PROVE  /\ Plus(d, n) \in Pos /\ Dist(Plus(d, n), d) = n
           /\ n > 0 => Plus(Plus(d, 1), n - 1) = Plus(d, n)
  <1> DEFINE e == Plus(d, n)
             d1 == Plus(d, 1)
  <1>1. /\ e = (IF d + n < 2 * N THEN d + n ELSE d + n - 2 * N) /\ e \in Pos
        /\ d1 = (IF d + 1 < 2 * N THEN d + 1 ELSE d + 1 - 2 * N) /\ d1 \in Pos
    BY PlusIs, SizeFacts
  <1> HIDE DEF e, d1
  <1>2. Dist(e, d) = (IF d <= e THEN e - d ELSE e - d + 2 * N)
    BY <1>1, DistIs, Zenon
  <1>3. Dist(e, d) = n
    BY <1>1, <1>2, InPos, SizeFacts
  <1>4. ASSUME n > 0 PROVE Plus(d1, n - 1) = e
    <2>1. n - 1 \in 0 .. 2 * N
      BY <1>4, SizeFacts
    <2>2. Plus(d1, n - 1) = (IF d1 + (n - 1) < 2 * N THEN d1 + (n - 1) ELSE d1 + (n - 1) - 2 * N)
      BY <1>1, <2>1, PlusIs, Zenon
    <2> QED BY <1>1, <1>4, <2>2, InPos, SizeFacts
  <1> QED BY <1>1, <1>3, <1>4, Zenon DEF e, d1

(* A thread that is awake has a state the scheduler can keep. *)
LEMMA AwakeType == WC!Awake \in WC!Waiting /\ WC!Awake.chan = None
  BY Zenon DEF WC!Awake, WC!Waiting

(* The queue starts in a state of the inductive invariant. *)
LEMMA QueueInit == Init => IndInv
  <1> SUFFICES ASSUME Init PROVE IndInv
    BY Zenon
  <1> USE SyncQueueAssumption DEF Init, WC!Init
  <1>1. 0 \in Pos /\ \A i \in 0 .. N - 1 : i \in Pos
    BY InPos, SizeFacts
  <1>2. cells \in [0 .. N - 1 -> [seq : Pos, val : Item \cup {None}]]
    BY <1>1, Zenon
  <1>3. TypeOK
    BY <1>1, <1>2, AwakeType, Zenon DEF TypeOK, Trying
  <1>4. Inside = 0
    BY <1>1, DistIs, Zenon DEF Inside
  <1>5. \A p \in Pos : Dist(p, deq) \in Nat
    BY <1>1, DistIs, InPos
  <1>6. ASSUME NEW p \in Pos, Dist(p, deq) >= N PROVE cells[p % N].seq = Plus(p, N)
    <2>1. p >= N
      BY <1>1, <1>6, DistIs, InPos, SizeFacts
    <2>2. Plus(p, N) = p - N /\ p % N = p - N /\ p - N \in 0 .. N - 1
      BY <2>1, PlusIs, CellIs, SizeFacts, InPos
    <2> QED BY <2>2, Zenon
  <1>7. Inside <= N /\ Claims /\ FullCells /\ FreeCells
    <2>1. Inside <= N
      BY <1>4, SizeFacts
    <2>2. Claims
      BY Zenon DEF Claims, Client
    <2>3. FullCells
      BY <1>4, <1>5 DEF FullCells
    <2>4. FreeCells
      <3>1. N + Inside = N
        BY <1>4, SizeFacts
      <3> QED BY <1>6, <3>1, Zenon DEF FreeCells
    <2> QED BY <2>1, <2>2, <2>3, <2>4, Zenon
  <1>8. Carries
    BY AwakeType, Zenon DEF Carries, Client
  <1>9. NoLostWakeup
    BY AwakeType, Zenon DEF NoLostWakeup
  <1> QED BY <1>3, <1>7, <1>8, <1>9, Zenon DEF IndInv

(* Steps that do not touch the ring leave it sound. *)
LEMMA RingKept ==
    ASSUME Inside <= N, Claims, FullCells, FreeCells, UNCHANGED <<ring, slot>>,
           \A t \in Client : pc'[t] = "commit" <=> pc[t] = "commit"
    PROVE  (Inside <= N /\ Claims /\ FullCells /\ FreeCells)'
  <1>1. UNCHANGED <<cells, enq, deq, slot>> /\ Producer \subseteq Client /\ Consumer \subseteq Client
    BY Zenon DEF ring, Client
  <1>2. Inside' = Inside
    BY <1>1, Zenon DEF Inside
  <1>3. Claims'
    BY <1>1, <1>2, Zenon DEF Claims
  <1>4. FullCells'
    BY <1>1, <1>2, Zenon DEF FullCells
  <1>5. FreeCells'
    BY <1>1, <1>2, Zenon DEF FreeCells
  <1> QED BY <1>2, <1>3, <1>4, <1>5, Zenon

LEMMA ClaimableKept ==
    ASSUME UNCHANGED ring
    PROVE  \A t \in Client : Claimable(t)' <=> Claimable(t)
  BY Zenon DEF ring, Claimable

(* Steps that change neither the ring nor a claim preserve the invariant. *)
LEMMA QuietKeeps ==
    ASSUME IndInv, NEW t \in Client,
           \/ \E m \in {"forever", "timed", "try"}, v \in Item : Start(t, m, v)
           \/ FirstFails(t) \/ SchedulingOp(t) \/ SecondFails(t) \/ ThirdFails(t)
           \/ Release(t) \/ Expire(t)
    PROVE  IndInv'
  <1> USE SyncQueueAssumption, RingKept, ClaimableKept, AwakeType DEF IndInv, Goto, Trying
  <1>1. ASSUME NEW m \in {"forever", "timed", "try"}, NEW v \in Item, Start(t, m, v) PROVE IndInv'
    <2>1. TypeOK'
      BY <1>1, Zenon DEF Start, TypeOK, ring
    <2>2. (Inside <= N /\ Claims /\ FullCells /\ FreeCells)'
      BY <1>1, Zenon DEF Start, TypeOK
    <2>3. Carries'
      BY <1>1, Zenon DEF Start, TypeOK, Carries, Client, OwnChan
    <2>4. NoLostWakeup'
      BY <1>1, Zenon DEF Start, TypeOK, NoLostWakeup, OwnChan, OtherChan
    <2> QED BY <2>1, <2>2, <2>3, <2>4, Zenon
  <1>2. CASE FirstFails(t)
    <2>1. TypeOK'
      BY <1>2, Zenon DEF FirstFails, Return, TypeOK, ring
    <2>2. (Inside <= N /\ Claims /\ FullCells /\ FreeCells)'
      BY <1>2, Zenon DEF FirstFails, Return, TypeOK
    <2>3. Carries'
      BY <1>2 DEF FirstFails, Return, TypeOK, Carries, Client, OwnChan
    <2>4. NoLostWakeup'
      BY <1>2, Zenon DEF FirstFails, Return, TypeOK, NoLostWakeup, OwnChan, OtherChan
    <2> QED BY <2>1, <2>2, <2>3, <2>4, Zenon
  <1>3. CASE SchedulingOp(t)
    <2>1. TypeOK'
      BY <1>3, Zenon DEF SchedulingOp, TypeOK, ring
    <2>2. (Inside <= N /\ Claims /\ FullCells /\ FreeCells)'
      BY <1>3, Zenon DEF SchedulingOp, TypeOK
    <2>3. Carries'
      BY <1>3, Zenon DEF SchedulingOp, TypeOK, Carries, Client, OwnChan
    <2>4. NoLostWakeup'
      BY <1>3, Zenon DEF SchedulingOp, TypeOK, NoLostWakeup, OwnChan, OtherChan
    <2> QED BY <2>1, <2>2, <2>3, <2>4, Zenon
  <1>4. CASE SecondFails(t)
    <2>1. TypeOK'
      BY <1>4, Zenon DEF SecondFails, WC!Block, WC!Waiting, OwnChan, TypeOK, ring
    <2>2. (Inside <= N /\ Claims /\ FullCells /\ FreeCells)'
      BY <1>4, Zenon DEF SecondFails, TypeOK
    <2>3. Carries'
      BY <1>4, Zenon DEF SecondFails, WC!Block, TypeOK, Carries, Client, OwnChan
    <2>4. NoLostWakeup'
      <3>1. /\ pc[t] # "release" /\ ~Claimable(t) /\ UNCHANGED ring
            /\ \A u \in Client : u # t => wait'[u] = wait[u] /\ pc'[u] = pc[u]
        BY <1>4, Zenon DEF SecondFails, WC!Block, TypeOK
      <3> QED BY <3>1, Zenon DEF NoLostWakeup, OwnChan, OtherChan
    <2> QED BY <2>1, <2>2, <2>3, <2>4, Zenon
  <1>5. CASE ThirdFails(t)
    <2>1. TypeOK'
      BY <1>5, Zenon DEF ThirdFails, Return, TypeOK, ring
    <2>2. (Inside <= N /\ Claims /\ FullCells /\ FreeCells)'
      BY <1>5, Zenon DEF ThirdFails, Return, TypeOK
    <2>3. Carries'
      BY <1>5, Zenon DEF ThirdFails, Return, TypeOK, Carries, Client, OwnChan
    <2>4. NoLostWakeup'
      BY <1>5, Zenon DEF ThirdFails, Return, TypeOK, NoLostWakeup, OwnChan, OtherChan
    <2> QED BY <2>1, <2>2, <2>3, <2>4, Zenon
  <1>6. CASE Release(t)
    <2>1. TypeOK'
      BY <1>6, Zenon DEF Release, WC!Release, Return, TypeOK, ring
    <2>2. (Inside <= N /\ Claims /\ FullCells /\ FreeCells)'
      BY <1>6, Zenon DEF Release, Return, TypeOK
    <2>3. Carries'
      BY <1>6, Zenon DEF Release, WC!Release, Return, TypeOK, Carries, Client, OwnChan
    <2>4. NoLostWakeup'
      <3>1. /\ \A u \in Client : wait'[u].chan # None
                  => wait[u].chan # None /\ OwnChan(u) # OtherChan(t)
            /\ \A u \in Client : u # t => pc'[u] = pc[u]
            /\ UNCHANGED ring
        BY <1>6, Zenon DEF Release, WC!Release, Return, TypeOK, Carries
      <3> QED BY <3>1, Zenon DEF NoLostWakeup
    <2> QED BY <2>1, <2>2, <2>3, <2>4, Zenon
  <1>7. CASE Expire(t)
    <2>1. TypeOK'
      BY <1>7, Zenon DEF Expire, WC!Expire, TypeOK, ring
    <2>2. (Inside <= N /\ Claims /\ FullCells /\ FreeCells)'
      BY <1>7, Zenon DEF Expire, TypeOK
    <2>3. Carries'
      BY <1>7, Zenon DEF Expire, WC!Expire, TypeOK, Carries, Client, OwnChan
    <2>4. NoLostWakeup'
      BY <1>7, Zenon DEF Expire, WC!Expire, TypeOK, NoLostWakeup, OwnChan, OtherChan
    <2> QED BY <2>1, <2>2, <2>3, <2>4, Zenon
  <1> QED BY <1>1, <1>2, <1>3, <1>4, <1>5, <1>6, <1>7, Zenon

(* The types of what the proofs about the ring calculate with. *)
LEMMA RingType ==
    ASSUME TypeOK
    PROVE  /\ enq \in Pos /\ deq \in Pos /\ Inside \in Pos /\ Inside \in Nat
           /\ \A p \in Pos : Dist(p, deq) \in Nat /\ Dist(p, deq) < 2 * N /\ p % N \in 0 .. N - 1
           /\ \A t \in Client : slot[t] \in Pos
           /\ Producer \subseteq Client /\ Consumer \subseteq Client
           /\ \A t \in Producer : t \notin Consumer
  <1>1. enq \in Pos /\ deq \in Pos /\ \A t \in Client : slot[t] \in Pos
    BY Zenon DEF TypeOK
  <1>2. \A p \in Pos : Dist(p, deq) \in Nat /\ Dist(p, deq) < 2 * N /\ p % N \in 0 .. N - 1
    BY <1>1, DistIs, CellIs, InPos
  <1>3. Inside \in Pos /\ Inside \in Nat
    BY <1>1, <1>2, DistIs, Zenon DEF Inside
  <1> QED BY <1>1, <1>2, <1>3, SyncQueueAssumption, Zenon DEF Client

(* A producer finds its cell free only if the ring is not full, and then no  *)
(* consumer is still reading it.                                             *)
LEMMA RoomToPut ==
    ASSUME TypeOK, Inside <= N, Claims, FullCells, FreeCells, cells[enq % N].seq = enq
    PROVE  /\ Inside < N
           /\ \A t \in Consumer : pc[t] = "commit" => Dist(slot[t], deq) # N + Inside
  <1> USE RingType
  <1>1. ASSUME Inside = N PROVE FALSE
    <2>1. Dist(enq, deq) = N
      BY <1>1, Zenon DEF Inside
    <2>2. Dist(Plus(enq, N), deq) = 0 /\ Plus(enq, N) \in Pos /\ Plus(enq, N) % N = enq % N
      BY <2>1, HalfWay, SizeFacts
    <2>3. deq % N = enq % N /\ enq # deq
      BY <2>1, <2>2, DistIs, SizeFacts
    <2>4. Plus(deq, 1) # enq
      BY <2>3, SameCell, Zenon
    <2>5. Dist(deq, deq) < Inside
      BY <1>1, DistIs, SizeFacts
    <2>6. cells[deq % N].seq = Plus(deq, 1) \/ cells[deq % N].seq = deq
      BY <2>5, Zenon DEF FullCells, Claims
    <2> QED BY <2>3, <2>4, <2>6, Zenon
  <1>2. Inside < N
    BY <1>1, SizeFacts
  <1>3. ASSUME NEW t \in Consumer, pc[t] = "commit", Dist(slot[t], deq) = N + Inside PROVE FALSE
    <2>1. Dist(Plus(enq, N), deq) = N + Inside /\ Plus(enq, N) \in Pos /\ Plus(Plus(enq, N), N) = enq
          /\ Plus(enq, N) % N = enq % N
      BY <1>2, HalfWay, SizeFacts DEF Inside
    <2>2. slot[t] = Plus(enq, N)
      BY <1>3, <2>1, DistInjective, Zenon
    <2>3. cells[enq % N].seq = Plus(slot[t], 1)
      BY <1>3, <2>1, <2>2, Zenon DEF Claims
    <2> QED BY <2>1, <2>2, <2>3, HalfWay, Zenon
  <1> QED BY <1>2, <1>3, Zenon

(* A consumer finds an item in its cell only if the ring is not empty, and   *)
(* then no producer is still writing it.                                     *)
LEMMA SomethingToTake ==
    ASSUME TypeOK, Inside <= N, Claims, FullCells, FreeCells, cells[deq % N].seq = Plus(deq, 1)
    PROVE  /\ Inside > 0 /\ enq # deq /\ cells[deq % N].val \in Item
           /\ \A t \in Client : pc[t] = "commit" => slot[t] # deq
  <1> USE RingType
  <1> DEFINE r == Plus(deq, N)
  <1>1. /\ r \in Pos /\ r % N = deq % N /\ Plus(r, N) = deq /\ Dist(r, deq) = N
        /\ Plus(deq, 1) # deq /\ Dist(deq, deq) = 0
    <2>1. Dist(deq, deq) = 0
      BY DistIs, Zenon
    <2> QED BY <2>1, HalfWay, SizeFacts
  <1>2. Plus(r, 1) # Plus(deq, 1)
    <2>1. r # deq
      BY HalfWay, Zenon
    <2> QED BY <1>1, <2>1, NextInjective, Zenon
  <1> HIDE DEF r
  <1>3. ASSUME Inside = 0 PROVE FALSE
    <2>1. Dist(r, deq) >= N + Inside
      BY <1>1, <1>3, SizeFacts
    <2>2. cells[deq % N].seq = deq \/ cells[deq % N].seq = Plus(r, 1)
      BY <1>1, <2>1 DEF FreeCells, Claims
    <2> QED BY <1>1, <1>2, <2>2, Zenon
  <1>4. Inside > 0 /\ enq # deq
    BY <1>3, DistIs DEF Inside
  <1>5. ASSUME NEW t \in Client, pc[t] = "commit", slot[t] = deq PROVE FALSE
    <2>1. CASE t \in Producer
      BY <1>1, <1>5, <2>1, Zenon DEF Claims
    <2>2. CASE t \in Consumer
      <3>1. Dist(deq, deq) >= N + Inside
        BY <1>5, <2>2, Zenon DEF Claims
      <3> QED BY <1>1, <3>1, SizeFacts
    <2> QED BY <2>1, <2>2, Zenon DEF Client
  <1>6. cells[deq % N].val \in Item
    BY <1>1, <1>4, <1>5, Zenon DEF FullCells
  <1> QED BY <1>4, <1>5, <1>6, Zenon

(* A producer claims a cell. *)
LEMMA PutKeeps ==
    ASSUME IndInv, NEW t \in Producer, Attempt(t)
    PROVE  IndInv' /\ Inside < N /\ Inside' = Inside + 1
  <1> USE RingType DEF IndInv
  <1>1. /\ pc[t] \in Trying /\ pc[t] # "commit" /\ pc[t] # "release" /\ cells[enq % N].seq = enq
        /\ slot' = [slot EXCEPT ![t] = enq] /\ enq' = Plus(enq, 1)
        /\ pc' = [pc EXCEPT ![t] = "commit"]
        /\ UNCHANGED <<deq, cells, item, queue, wait, mode>>
    BY Zenon DEF Attempt, Claim, Claimable, Trying, Goto
  <1>2. Inside < N /\ \A u \in Consumer : pc[u] = "commit" => Dist(slot[u], deq) # N + Inside
    BY <1>1, RoomToPut, Zenon
  <1>3. Plus(enq, 1) \in Pos /\ Inside' = Inside + 1
    <2>1. Dist(enq, deq) < 2 * N - 1
      BY <1>2, SizeFacts DEF Inside
    <2> QED BY <1>1, <2>1, PlusIs, DistStep, SizeFacts, Zenon DEF Inside
  <1>4. TypeOK'
    BY <1>1, <1>3, Zenon DEF TypeOK
  <1>5. /\ pc'[t] = "commit" /\ slot'[t] = enq /\ t \in Client
        /\ \A u \in Client : u # t => pc'[u] = pc[u] /\ slot'[u] = slot[u]
    BY <1>1, Zenon DEF TypeOK
  <1>6. Claims'
    <2>1. ASSUME NEW u \in Producer, pc'[u] = "commit"
          PROVE  Dist(slot'[u], deq') < Inside' /\ cells'[slot'[u] % N].seq = slot'[u]
      BY <1>1, <1>3, <1>5, <2>1 DEF Claims, Inside
    <2>2. ASSUME NEW u \in Consumer, pc'[u] = "commit"
          PROVE  /\ Dist(slot'[u], deq') >= N + Inside'
                 /\ cells'[slot'[u] % N].seq = Plus(slot'[u], 1) /\ cells'[slot'[u] % N].val \in Item
      <3>1. u # t /\ pc[u] = "commit" /\ slot'[u] = slot[u]
        BY <1>5, <2>2, Zenon
      <3>2. Dist(slot[u], deq) >= N + Inside + 1
        <4>1. Dist(slot[u], deq) >= N + Inside /\ Dist(slot[u], deq) # N + Inside
          BY <1>2, <3>1, Zenon DEF Claims
        <4>2. Dist(slot[u], deq) \in Nat /\ Inside \in Nat /\ N \in Nat
          BY SizeFacts, Zenon
        <4>3. \A x, n, k \in Nat : x >= n + k /\ x # n + k => x >= n + k + 1
          OBVIOUS
        <4> QED BY <4>1, <4>2, <4>3, Zenon
      <3> QED BY <1>1, <1>3, <3>1, <3>2, SizeFacts DEF Claims
    <2>3. ASSUME NEW u \in Client, u # t, pc[u] = "commit" PROVE slot[u] # enq
      BY <2>3, SizeFacts DEF Claims, Inside, Client
    <2>4. ASSUME NEW u \in Client, NEW v \in Client, pc'[u] = "commit", pc'[v] = "commit",
                 slot'[u] = slot'[v]
          PROVE  u = v
      BY <1>5, <2>3, <2>4, Zenon DEF Claims
    <2> QED BY <2>1, <2>2, <2>4, Zenon DEF Claims
  <1>7. FullCells'
    <2> SUFFICES ASSUME NEW p \in Pos, Dist(p, deq) < Inside + 1
                 PROVE  \/ cells[p % N].seq = Plus(p, 1) /\ cells[p % N].val \in Item
                        \/ \E u \in Producer : pc'[u] = "commit" /\ slot'[u] = p
      BY <1>1, <1>3, Zenon DEF FullCells
    <2>1. CASE Dist(p, deq) < Inside
      BY <1>1, <1>5, <2>1, Zenon DEF FullCells
    <2>2. CASE Dist(p, deq) = Inside
      BY <1>5, <2>2, DistInjective, Zenon DEF Inside
    <2> QED BY <2>1, <2>2
  <1>8. FreeCells'
    <2> SUFFICES ASSUME NEW p \in Pos, Dist(p, deq) >= N + (Inside + 1)
                 PROVE  \/ cells[p % N].seq = Plus(p, N)
                        \/ \E u \in Consumer : pc'[u] = "commit" /\ slot'[u] = p
      BY <1>1, <1>3, Zenon DEF FreeCells
    <2>1. Dist(p, deq) >= N + Inside
      BY SizeFacts
    <2> QED BY <1>1, <1>5, <2>1 DEF FreeCells
  <1>9. Carries'
    BY <1>1, <1>5, Zenon DEF Carries, Trying
  <1>10. NoLostWakeup'
    BY <1>1, <1>5, Zenon DEF NoLostWakeup, Claimable, OwnChan, OtherChan
  <1>11. Inside' <= N
    BY <1>2, <1>3, SizeFacts
  <1> QED BY <1>2, <1>3, <1>4, <1>6, <1>7, <1>8, <1>9, <1>10, <1>11, Zenon

(* A consumer claims a cell. *)
LEMMA TakeKeeps ==
    ASSUME IndInv, NEW t \in Consumer, Attempt(t)
    PROVE  IndInv' /\ Inside > 0 /\ Inside' = Inside - 1
  <1> USE RingType DEF IndInv
  <1>1. /\ pc[t] \in Trying /\ pc[t] # "commit" /\ pc[t] # "release"
        /\ cells[deq % N].seq = Plus(deq, 1)
        /\ slot' = [slot EXCEPT ![t] = deq] /\ deq' = Plus(deq, 1)
        /\ pc' = [pc EXCEPT ![t] = "commit"]
        /\ UNCHANGED <<enq, cells, item, queue, wait, mode>>
    BY Zenon DEF Attempt, Claim, Claimable, Trying, Goto
  <1>2. /\ Inside > 0 /\ enq # deq /\ cells[deq % N].val \in Item
        /\ \A u \in Client : pc[u] = "commit" => slot[u] # deq
    BY <1>1, SomethingToTake, Zenon
  <1>3. Plus(deq, 1) \in Pos /\ Inside' = Inside - 1
    BY <1>1, <1>2, PlusIs, DistStep, SizeFacts, Zenon DEF Inside
  <1>4. /\ \A p \in Pos : p # deq => Dist(p, deq') = Dist(p, deq) - 1
        /\ Dist(deq, deq') = 2 * N - 1 /\ Dist(deq, deq) = 0
    BY <1>1, DistStep, DistIs
  <1>5. TypeOK'
    BY <1>1, <1>3, Zenon DEF TypeOK
  <1>6. /\ pc'[t] = "commit" /\ slot'[t] = deq /\ t \in Client
        /\ \A u \in Client : u # t => pc'[u] = pc[u] /\ slot'[u] = slot[u]
    BY <1>1, Zenon DEF TypeOK
  <1>7. Claims'
    <2>1. ASSUME NEW u \in Producer, pc'[u] = "commit"
          PROVE  Dist(slot'[u], deq') < Inside' /\ cells'[slot'[u] % N].seq = slot'[u]
      <3>1. u # t /\ pc[u] = "commit" /\ slot'[u] = slot[u] /\ slot[u] # deq
        BY <1>2, <1>6, <2>1, Zenon
      <3>2. Dist(slot[u], deq) < Inside /\ cells[slot[u] % N].seq = slot[u]
        BY <3>1, Zenon DEF Claims
      <3> QED BY <1>1, <1>3, <1>4, <3>1, <3>2
    <2>2. ASSUME NEW u \in Consumer, pc'[u] = "commit"
          PROVE  /\ Dist(slot'[u], deq') >= N + Inside'
                 /\ cells'[slot'[u] % N].seq = Plus(slot'[u], 1) /\ cells'[slot'[u] % N].val \in Item
      <3>1. CASE u = t
        BY <1>1, <1>2, <1>3, <1>4, <1>6, <3>1, SizeFacts
      <3>2. CASE u # t
        <4>1. pc[u] = "commit" /\ slot'[u] = slot[u] /\ slot[u] # deq
          BY <1>2, <1>6, <2>2, <3>2, Zenon
        <4>2. /\ Dist(slot[u], deq) >= N + Inside
              /\ cells[slot[u] % N].seq = Plus(slot[u], 1) /\ cells[slot[u] % N].val \in Item
          BY <4>1, Zenon DEF Claims
        <4> QED BY <1>1, <1>3, <1>4, <4>1, <4>2, SizeFacts
      <3> QED BY <3>1, <3>2, Zenon
    <2>3. ASSUME NEW u \in Client, NEW v \in Client, pc'[u] = "commit", pc'[v] = "commit",
                 slot'[u] = slot'[v]
          PROVE  u = v
      BY <1>2, <1>6, <2>3, Zenon DEF Claims
    <2> QED BY <2>1, <2>2, <2>3, Zenon DEF Claims
  <1>8. FullCells'
    <2> SUFFICES ASSUME NEW p \in Pos, Dist(p, deq') < Inside - 1
                 PROVE  \/ cells[p % N].seq = Plus(p, 1) /\ cells[p % N].val \in Item
                        \/ \E u \in Producer : pc'[u] = "commit" /\ slot'[u] = p
      BY <1>1, <1>3, Zenon DEF FullCells
    <2>1. p # deq
      BY <1>4, SizeFacts
    <2>2. Dist(p, deq) < Inside
      BY <1>4, <2>1
    <2>3. \A u \in Producer : pc[u] = "commit" => pc'[u] = "commit" /\ slot'[u] = slot[u]
      BY <1>6, Zenon
    <2> QED BY <2>2, <2>3, Zenon DEF FullCells
  <1>9. FreeCells'
    <2> SUFFICES ASSUME NEW p \in Pos, Dist(p, deq') >= N + (Inside - 1)
                 PROVE  \/ cells[p % N].seq = Plus(p, N)
                        \/ \E u \in Consumer : pc'[u] = "commit" /\ slot'[u] = p
      BY <1>1, <1>3, Zenon DEF FreeCells
    <2>1. CASE p = deq
      BY <1>6, <2>1, Zenon
    <2>2. CASE p # deq
      <3>1. Dist(p, deq) >= N + Inside
        BY <1>4, <2>2, SizeFacts
      <3>2. \A u \in Consumer : pc[u] = "commit" => pc'[u] = "commit" /\ slot'[u] = slot[u]
        BY <1>1, <1>6, Zenon
      <3> QED BY <3>1, <3>2, Zenon DEF FreeCells
    <2> QED BY <2>1, <2>2, Zenon
  <1>10. Carries'
    BY <1>1, <1>6, Zenon DEF Carries, Trying
  <1>11. NoLostWakeup'
    BY <1>1, <1>6, Zenon DEF NoLostWakeup, Claimable, OwnChan, OtherChan
  <1>12. Inside' <= N
    BY <1>3, SizeFacts
  <1> QED BY <1>2, <1>3, <1>5, <1>7, <1>8, <1>9, <1>10, <1>11, <1>12, Zenon

(* A thread in the middle of a claim has the only claim on its cell, and no  *)
(* other position of the two zones shares the cell.                          *)
LEMMA OwnCell ==
    ASSUME TypeOK, Inside <= N, Claims, NEW t \in Client, pc[t] = "commit"
    PROVE  /\ \A p \in Pos : Dist(p, deq) < Inside \/ Dist(p, deq) >= N + Inside
                => p = slot[t] \/ p % N # slot[t] % N
           /\ \A u \in Client : u # t /\ pc[u] = "commit"
                => slot[u] # slot[t] /\ slot[u] % N # slot[t] % N
  <1> USE RingType
  <1>1. \A u \in Client : pc[u] = "commit"
            => Dist(slot[u], deq) < Inside \/ Dist(slot[u], deq) >= N + Inside
    BY Zenon DEF Claims, Client
  <1>2. Inside \in 0 .. N
    BY SizeFacts
  <1>3. \A p \in Pos : Dist(p, deq) < Inside \/ Dist(p, deq) >= N + Inside
                => p = slot[t] \/ p % N # slot[t] % N
    BY <1>1, <1>2, OneCell, Zenon
  <1> QED BY <1>1, <1>3, Zenon DEF Claims

(* The claims of others outlive a commit, which leaves their cells alone. *)
LEMMA ClaimsKept ==
    ASSUME Claims, deq' = deq, Inside' = Inside,
           \A u \in Client : pc'[u] = "commit" =>
               pc[u] = "commit" /\ slot'[u] = slot[u] /\ cells'[slot'[u] % N] = cells[slot[u] % N]
    PROVE  Claims'
  <1>1. \A u \in Producer : pc'[u] = "commit" =>
          Dist(slot'[u], deq') < Inside' /\ cells'[slot'[u] % N].seq = slot'[u]
    BY Zenon DEF Claims, Client
  <1>2. \A u \in Consumer : pc'[u] = "commit" =>
          /\ Dist(slot'[u], deq') >= N + Inside'
          /\ cells'[slot'[u] % N].seq = Plus(slot'[u], 1) /\ cells'[slot'[u] % N].val \in Item
    BY Zenon DEF Claims, Client
  <1>3. \A u, v \in Client :
          pc'[u] = "commit" /\ pc'[v] = "commit" /\ slot'[u] = slot'[v] => u = v
    BY Zenon DEF Claims
  <1> QED BY <1>1, <1>2, <1>3, Zenon DEF Claims

(* A producer writes its item. *)
LEMMA WriteKeeps ==
    ASSUME IndInv, NEW t \in Producer, Commit(t)
    PROVE  IndInv'
  <1> USE RingType DEF IndInv
  <1>1. /\ pc[t] = "commit"
        /\ cells' = [cells EXCEPT ![slot[t] % N] = [seq |-> Plus(slot[t], 1), val |-> item[t]]]
        /\ slot' = [slot EXCEPT ![t] = 0] /\ pc' = [pc EXCEPT ![t] = "release"]
        /\ queue' = (IF queue = t THEN None ELSE queue)
        /\ UNCHANGED <<enq, deq, item, wait, mode>>
    BY Zenon DEF Commit, Store, Goto
  <1>2. /\ slot[t] \in Pos /\ slot[t] % N \in 0 .. N - 1 /\ Plus(slot[t], 1) \in Pos
        /\ item[t] \in Item /\ 0 \in Pos /\ Inside' = Inside
    <2>1. Plus(slot[t], 1) \in Pos /\ 0 \in Pos
      <3>1. slot[t] \in Pos
        BY Zenon
      <3>2. 0 \in Pos
        BY InPos, SizeFacts
      <3> QED BY <3>1, <3>2, PlusIs, SizeFacts, Zenon
    <2>2. item[t] \in Item
      BY <1>1, Zenon DEF Carries
    <2> QED BY <1>1, <2>1, <2>2, Zenon DEF Inside
  <1>3. /\ pc'[t] = "release" /\ t \in Client
        /\ \A u \in Client : u # t => pc'[u] = pc[u] /\ slot'[u] = slot[u]
        /\ cells'[slot[t] % N] = [seq |-> Plus(slot[t], 1), val |-> item[t]]
        /\ \A i \in 0 .. N - 1 : i # slot[t] % N => cells'[i] = cells[i]
    BY <1>1, <1>2, Zenon DEF TypeOK
  <1>4. TypeOK'
    BY <1>1, <1>2, Zenon DEF TypeOK
  <1>5. /\ \A p \in Pos : Dist(p, deq) < Inside \/ Dist(p, deq) >= N + Inside
                => p = slot[t] \/ p % N # slot[t] % N
        /\ \A u \in Client : u # t /\ pc[u] = "commit"
                => slot[u] # slot[t] /\ slot[u] % N # slot[t] % N
    BY <1>1, OwnCell, Zenon
  <1>6. Claims'
    <2>1. \A u \in Client : pc'[u] = "commit" =>
            /\ u # t /\ pc[u] = "commit" /\ slot'[u] = slot[u]
            /\ cells'[slot'[u] % N] = cells[slot[u] % N]
      BY <1>3, <1>5
    <2> QED BY <1>1, <1>2, <2>1, ClaimsKept, Zenon
  <1>7. \A p \in Pos : p # slot[t] /\ (Dist(p, deq) < Inside \/ Dist(p, deq) >= N + Inside)
            => cells'[p % N] = cells[p % N]
    BY <1>3, <1>5, Zenon
  <1>8. FullCells'
    <2> SUFFICES ASSUME NEW p \in Pos, Dist(p, deq) < Inside
                 PROVE  \/ cells'[p % N].seq = Plus(p, 1) /\ cells'[p % N].val \in Item
                        \/ \E u \in Producer : pc'[u] = "commit" /\ slot'[u] = p
      BY <1>1, <1>2, Zenon DEF FullCells
    <2>1. CASE p = slot[t]
      BY <1>2, <1>3, <2>1
    <2>2. CASE p # slot[t]
      <3>1. cells'[p % N] = cells[p % N]
        BY <1>7, <2>2, Zenon
      <3>2. \A u \in Producer : pc[u] = "commit" /\ slot[u] = p => pc'[u] = "commit" /\ slot'[u] = p
        BY <1>3, <2>2, Zenon
      <3> QED BY <3>1, <3>2, Zenon DEF FullCells
    <2> QED BY <2>1, <2>2, Zenon
  <1>9. FreeCells'
    <2> SUFFICES ASSUME NEW p \in Pos, Dist(p, deq) >= N + Inside
                 PROVE  \/ cells'[p % N].seq = Plus(p, N)
                        \/ \E u \in Consumer : pc'[u] = "commit" /\ slot'[u] = p
      BY <1>1, <1>2, Zenon DEF FreeCells
    <2>1. p # slot[t]
      <3>1. Dist(slot[t], deq) < Inside
        BY <1>1, Zenon DEF Claims
      <3> QED BY <1>2, <3>1, SizeFacts
    <2>2. \A u \in Consumer : pc[u] = "commit" => pc'[u] = "commit" /\ slot'[u] = slot[u]
      BY <1>3, Zenon
    <2> QED BY <1>7, <2>1, <2>2, Zenon DEF FreeCells
  <1>10. Carries'
    BY <1>1, <1>3, Zenon DEF Carries
  <1>11. NoLostWakeup'
    <2>1. cells'[enq % N].seq = enq => cells[enq % N].seq = enq
      <3>1. CASE enq % N = slot[t] % N
        BY <1>2, <1>3, <3>1, SameCell
      <3>2. CASE enq % N # slot[t] % N
        BY <1>3, <3>2, Zenon
      <3> QED BY <3>1, <3>2, Zenon
    <2>2. \A u \in Client : wait'[u].chan # None /\ Claimable(u)' => u \in Consumer \/ Claimable(u)
      BY <1>1, <2>1, Zenon DEF Claimable, Client
    <2>3. ASSUME NEW u \in Client, wait'[u].chan # None, Claimable(u)'
          PROVE  \E v \in Client : pc'[v] = "release" /\ OtherChan(v) = OwnChan(u)
      <3>1. CASE u \in Consumer
        BY <1>3, <3>1, Zenon DEF OwnChan, OtherChan
      <3>2. CASE u \notin Consumer
        BY <1>1, <1>3, <2>2, <2>3, <3>2 DEF NoLostWakeup
      <3> QED BY <3>1, <3>2, Zenon
    <2> QED BY <2>3, Zenon DEF NoLostWakeup, OwnChan, OtherChan
  <1> QED BY <1>2, <1>4, <1>6, <1>8, <1>9, <1>10, <1>11, Zenon

(* A consumer reads its item. *)
LEMMA ReadKeeps ==
    ASSUME IndInv, NEW t \in Consumer, Commit(t)
    PROVE  IndInv'
  <1> USE RingType DEF IndInv
  <1>1. /\ pc[t] = "commit" /\ cells' = [cells EXCEPT ![slot[t] % N].seq = Plus(slot[t], N)]
        /\ item' = [item EXCEPT ![t] = cells[slot[t] % N].val]
        /\ slot' = [slot EXCEPT ![t] = 0] /\ pc' = [pc EXCEPT ![t] = "release"]
        /\ queue' = (IF queue = t THEN None ELSE queue)
        /\ UNCHANGED <<enq, deq, wait, mode>>
    BY Zenon DEF Commit, Store, Goto
  <1>2. /\ slot[t] \in Pos /\ slot[t] % N \in 0 .. N - 1 /\ Plus(slot[t], N) \in Pos
        /\ cells[slot[t] % N].val \in Item /\ 0 \in Pos /\ Inside' = Inside
    <2>1. Plus(slot[t], N) \in Pos /\ 0 \in Pos
      <3>1. slot[t] \in Pos
        BY Zenon
      <3>2. 0 \in Pos
        BY InPos, SizeFacts
      <3> QED BY <3>1, <3>2, PlusIs, SizeFacts, Zenon
    <2>2. cells[slot[t] % N].val \in Item
      BY <1>1, Zenon DEF Claims
    <2> QED BY <1>1, <2>1, <2>2, Zenon DEF Inside
  <1>3. /\ pc'[t] = "release" /\ t \in Client /\ item'[t] = cells[slot[t] % N].val
        /\ \A u \in Client : u # t => pc'[u] = pc[u] /\ slot'[u] = slot[u] /\ item'[u] = item[u]
        /\ cells'[slot[t] % N] = [cells[slot[t] % N] EXCEPT !.seq = Plus(slot[t], N)]
        /\ \A i \in 0 .. N - 1 : i # slot[t] % N => cells'[i] = cells[i]
    BY <1>1, <1>2, Zenon DEF TypeOK
  <1>4. cells'[slot[t] % N].seq = Plus(slot[t], N)
    BY <1>2, <1>3 DEF TypeOK
  <1>5. TypeOK'
    <2>1. cells' \in [0 .. N - 1 -> [seq : Pos, val : Item \cup {None}]]
      <3>1. \A c \in [seq : Pos, val : Item \cup {None}], n \in Pos :
                [c EXCEPT !.seq = n] \in [seq : Pos, val : Item \cup {None}]
        BY Zenon
      <3> QED BY <1>1, <1>2, <3>1, Zenon DEF TypeOK
    <2> QED BY <1>1, <1>2, <2>1, Zenon DEF TypeOK
  <1>6. /\ \A p \in Pos : Dist(p, deq) < Inside \/ Dist(p, deq) >= N + Inside
                => p = slot[t] \/ p % N # slot[t] % N
        /\ \A u \in Client : u # t /\ pc[u] = "commit"
                => slot[u] # slot[t] /\ slot[u] % N # slot[t] % N
    BY <1>1, OwnCell, Zenon
  <1>7. Claims'
    <2>1. \A u \in Client : pc'[u] = "commit" =>
            /\ u # t /\ pc[u] = "commit" /\ slot'[u] = slot[u]
            /\ cells'[slot'[u] % N] = cells[slot[u] % N]
      BY <1>3, <1>6
    <2> QED BY <1>1, <1>2, <2>1, ClaimsKept, Zenon
  <1>8. \A p \in Pos : p # slot[t] /\ (Dist(p, deq) < Inside \/ Dist(p, deq) >= N + Inside)
            => cells'[p % N] = cells[p % N]
    BY <1>3, <1>6, Zenon
  <1>9. FullCells'
    <2> SUFFICES ASSUME NEW p \in Pos, Dist(p, deq) < Inside
                 PROVE  \/ cells'[p % N].seq = Plus(p, 1) /\ cells'[p % N].val \in Item
                        \/ \E u \in Producer : pc'[u] = "commit" /\ slot'[u] = p
      BY <1>1, <1>2, Zenon DEF FullCells
    <2>1. p # slot[t]
      <3>1. Dist(slot[t], deq) >= N + Inside
        BY <1>1, Zenon DEF Claims
      <3> QED BY <1>2, <3>1, SizeFacts
    <2>2. \A u \in Producer : pc[u] = "commit" => pc'[u] = "commit" /\ slot'[u] = slot[u]
      BY <1>3, Zenon
    <2> QED BY <1>8, <2>1, <2>2, Zenon DEF FullCells
  <1>10. FreeCells'
    <2> SUFFICES ASSUME NEW p \in Pos, Dist(p, deq) >= N + Inside
                 PROVE  \/ cells'[p % N].seq = Plus(p, N)
                        \/ \E u \in Consumer : pc'[u] = "commit" /\ slot'[u] = p
      BY <1>1, <1>2, Zenon DEF FreeCells
    <2>1. CASE p = slot[t]
      BY <1>4, <2>1, Zenon
    <2>2. CASE p # slot[t]
      <3>1. cells'[p % N] = cells[p % N]
        BY <1>8, <2>2, Zenon
      <3>2. \A u \in Consumer : pc[u] = "commit" /\ slot[u] = p => pc'[u] = "commit" /\ slot'[u] = p
        BY <1>3, <2>2, Zenon
      <3> QED BY <3>1, <3>2, Zenon DEF FreeCells
    <2> QED BY <2>1, <2>2, Zenon
  <1>11. Carries'
    BY <1>1, <1>2, <1>3 DEF Carries
  <1>12. NoLostWakeup'
    <2>1. cells'[deq % N].seq = Plus(deq, 1) => cells[deq % N].seq = Plus(deq, 1)
      <3>1. CASE deq % N = slot[t] % N
        <4>1. Plus(slot[t], N) % N = deq % N
          BY <1>2, <3>1, HalfWay, Zenon
        <4>2. Plus(deq, 1) # Plus(slot[t], N)
          BY <1>2, <4>1, SameCell, Zenon
        <4> QED BY <1>4, <3>1, <4>2, Zenon
      <3>2. CASE deq % N # slot[t] % N
        BY <1>3, <3>2, Zenon
      <3> QED BY <3>1, <3>2, Zenon
    <2>2. \A u \in Client : Claimable(u)' => u \in Producer \/ Claimable(u)
      BY <1>1, <2>1, Zenon DEF Claimable
    <2>3. ASSUME NEW u \in Client, wait'[u].chan # None, Claimable(u)'
          PROVE  \E v \in Client : pc'[v] = "release" /\ OtherChan(v) = OwnChan(u)
      <3>1. CASE u \in Producer
        BY <1>3, <3>1, SyncQueueAssumption, Zenon DEF OwnChan, OtherChan
      <3>2. CASE u \notin Producer
        <4>1. wait[u].chan # None /\ Claimable(u)
          BY <1>1, <2>2, <2>3, <3>2, Zenon
        <4>2. PICK v \in Client : pc[v] = "release" /\ OtherChan(v) = OwnChan(u)
          BY <4>1, Zenon DEF NoLostWakeup
        <4> QED BY <1>1, <1>3, <4>2, Zenon
      <3> QED BY <3>1, <3>2, Zenon
    <2> QED BY <2>3, Zenon DEF NoLostWakeup, OwnChan, OtherChan
  <1> QED BY <1>2, <1>5, <1>7, <1>9, <1>10, <1>11, <1>12, Zenon

(* Every step of the queue preserves the inductive invariant. *)
LEMMA QueueStep == IndInv /\ [Next]_vars => IndInv'
  <1> SUFFICES ASSUME IndInv, [Next]_vars PROVE IndInv'
    BY Zenon
  <1>1. CASE UNCHANGED vars
    <2>1. UNCHANGED <<cells, enq, deq, queue, wait, pc, mode, item, slot>>
      BY <1>1, Zenon DEF vars
    <2>2. (Inside <= N /\ Claims /\ FullCells /\ FreeCells)'
      BY <2>1, RingKept, Zenon DEF IndInv, ring
    <2>3. TypeOK' /\ Carries'
      BY <2>1, Zenon DEF IndInv, TypeOK, Carries
    <2>4. NoLostWakeup'
      BY <2>1, Zenon DEF IndInv, NoLostWakeup, Claimable
    <2> QED BY <2>2, <2>3, <2>4, Zenon DEF IndInv
  <1>2. ASSUME NEW t \in Client, Attempt(t) \/ Commit(t) PROVE IndInv'
    BY <1>2, PutKeeps, TakeKeeps, WriteKeeps, ReadKeeps, Zenon DEF Client
  <1> QED BY <1>1, <1>2, QuietKeeps, Zenon DEF Next, Step

(* IndInv holds in every reachable state of the queue. *)
THEOREM QueueInvariance == Spec => []IndInv
  BY QueueInit, QueueStep, PTL DEF Spec

(* No thread sleeps on the queue while the ring would let it go on, unless a *)
(* thread that changed the ring has still to call release.                   *)
THEOREM QueueWakeupsKept == Spec => []NoLostWakeup
  <1>1. IndInv => NoLostWakeup
    BY Zenon DEF IndInv
  <1> QED BY <1>1, QueueInvariance, PTL

(* What is in the queue, as the abstract channel sees it. *)
View ==
    /\ \A p \in Pos, t \in Producer : Writes(t, p) => Entry(p) = item[t]
    /\ \A p \in Pos : (\A t \in Producer : ~Writes(t, p)) => Entry(p) = cells[p % N].val
    /\ Contents \in Seq(Item) /\ Len(Contents) = Inside
    /\ \A i \in 1 .. Inside : Contents[i] = Entry(Plus(deq, i - 1))

LEMMA ViewIs == IndInv => View
  <1> SUFFICES ASSUME IndInv PROVE View
    BY Zenon
  <1> USE RingType DEF IndInv
  <1>1. ASSUME NEW p \in Pos, NEW t \in Producer, Writes(t, p) PROVE Entry(p) = item[t]
    <2>1. \A u \in Producer : Writes(u, p) => u = t
      BY <1>1, Zenon DEF Writes, Claims
    <2> QED BY <1>1, <2>1, Zenon DEF Entry
  <1>2. ASSUME NEW p \in Pos, \A t \in Producer : ~Writes(t, p) PROVE Entry(p) = cells[p % N].val
    BY <1>2, Zenon DEF Entry
  <1>3. ASSUME NEW p \in Pos, Dist(p, deq) < Inside PROVE Entry(p) \in Item
    <2>1. CASE \E t \in Producer : Writes(t, p)
      BY <1>1, <2>1, Zenon DEF Writes, Carries
    <2>2. CASE ~\E t \in Producer : Writes(t, p)
      BY <1>2, <1>3, <2>2, Zenon DEF Writes, FullCells
    <2> QED BY <2>1, <2>2, Zenon
  <1>4. ASSUME NEW i \in 1 .. Inside PROVE Entry(Plus(deq, i - 1)) \in Item
    <2>1. i - 1 \in 0 .. 2 * N - 1 /\ i - 1 < Inside
      BY SizeFacts
    <2>2. Plus(deq, i - 1) \in Pos /\ Dist(Plus(deq, i - 1), deq) < Inside
      BY <2>1, CountOn, Zenon
    <2> QED BY <1>3, <2>2, Zenon
  <1>5. Contents \in [1 .. Inside -> Item]
    BY <1>4, Zenon DEF Contents
  <1>6. Contents \in Seq(Item) /\ Len(Contents) = Inside
    BY <1>5, LenProperties
  <1>7. \A i \in 1 .. Inside : Contents[i] = Entry(Plus(deq, i - 1))
    BY Zenon DEF Contents
  <1> QED BY <1>1, <1>2, <1>6, <1>7, Zenon DEF View

(* Contents stays if deq, enq and every entry between them do. *)
LEMMA SameContents ==
    ASSUME TypeOK, UNCHANGED <<enq, deq>>,
           \A p \in Pos : Dist(p, deq) < Inside => Entry(p)' = Entry(p)
    PROVE  Contents' = Contents
  <1> USE RingType
  <1>1. Inside' = Inside /\ deq' = deq
    BY Zenon DEF Inside
  <1>2. ASSUME NEW i \in 1 .. Inside PROVE Entry(Plus(deq, i - 1))' = Entry(Plus(deq, i - 1))
    <2> DEFINE p == Plus(deq, i - 1)
    <2>1. i - 1 \in 0 .. 2 * N - 1 /\ i - 1 < Inside
      BY InPos, SizeFacts
    <2>2. p \in Pos /\ Dist(p, deq) < Inside
      BY <2>1, CountOn, Zenon
    <2>3. p' = p
      BY <1>1, Zenon DEF Plus
    <2> QED BY <2>2, <2>3, Zenon
  <1> QED BY <1>1, <1>2, Zenon DEF Contents

(* An entry stays if neither its writer, with its item, nor its cell changes. *)
LEMMA SameEntry ==
    ASSUME View, View', NEW p \in Pos,
           \A u \in Producer : Writes(u, p)' <=> Writes(u, p),
           \A u \in Producer : Writes(u, p) => item'[u] = item[u],
           (\A u \in Producer : ~Writes(u, p)) => cells'[p % N].val = cells[p % N].val
    PROVE  Entry(p)' = Entry(p)
  <1>1. CASE \E u \in Producer : Writes(u, p)
    <2>1. PICK u \in Producer : Writes(u, p) /\ Writes(u, p)'
      BY <1>1, Zenon
    <2>2. Entry(p) = item[u]
      BY <2>1, Zenon DEF View
    <2>3. Entry(p)' = item'[u]
      BY <2>1, Zenon DEF View
    <2> QED BY <2>1, <2>2, <2>3, Zenon
  <1>2. CASE \A u \in Producer : ~Writes(u, p)
    <2>1. Entry(p) = cells[p % N].val
      BY <1>2, Zenon DEF View
    <2>2. \A u \in Producer : ~Writes(u, p)'
      BY <1>2, Zenon
    <2>3. Entry(p)' = cells'[p % N].val
      BY <2>2, Zenon DEF View
    <2> QED BY <1>2, <2>1, <2>3, Zenon
  <1> QED BY <1>1, <1>2, Zenon

(* A producer's claim puts its item into the channel. *)
LEMMA ClaimPuts ==
    ASSUME IndInv, View, View', NEW t \in Producer, Attempt(t)
    PROVE  C!Put(item[t]) /\ item[t] \in Item
  <1> USE RingType DEF IndInv
  <1>1. /\ pc[t] \in Trying /\ pc[t] # "commit" /\ pc[t] # "idle"
        /\ slot' = [slot EXCEPT ![t] = enq] /\ pc' = [pc EXCEPT ![t] = "commit"]
        /\ UNCHANGED <<deq, cells, item>>
    BY Zenon DEF Attempt, Claim, Trying, Goto
  <1>2. Inside < N /\ Inside' = Inside + 1 /\ item[t] \in Item
    BY <1>1, PutKeeps, Zenon DEF Carries
  <1>3. /\ pc'[t] = "commit" /\ slot'[t] = enq
        /\ \A u \in Client : u # t => pc'[u] = pc[u] /\ slot'[u] = slot[u]
    BY <1>1, Zenon DEF TypeOK
  <1>4. ASSUME NEW p \in Pos, Dist(p, deq) < Inside PROVE Entry(p)' = Entry(p)
    <2>1. p # enq
      BY <1>4 DEF Inside
    <2>2. \A u \in Producer : Writes(u, p)' <=> Writes(u, p)
      BY <1>1, <1>3, <2>1, Zenon DEF Writes
    <2> QED BY <1>1, <2>2, SameEntry, Zenon
  <1>5. ASSUME NEW p \in Pos, p = enq PROVE Entry(p)' = item[t]
    <2>1. Writes(t, p)'
      BY <1>3, <1>5, Zenon DEF Writes
    <2> QED BY <1>1, <2>1, Zenon DEF View
  <1>6. Contents' = Append(Contents, item[t])
    <2> DEFINE a == Append(Contents, item[t])
    <2>1. /\ a \in Seq(Item) /\ Len(a) = Inside + 1 /\ a[Inside + 1] = item[t]
          /\ \A i \in 1 .. Inside : a[i] = Contents[i]
      BY <1>2, AppendProperties DEF View
    <2> HIDE DEF a
    <2>2. Contents' \in Seq(Item) /\ Len(Contents') = Inside + 1
      BY <1>2, Zenon DEF View
    <2>3. ASSUME NEW i \in 1 .. Inside + 1 PROVE Contents'[i] = a[i]
      <3>1. i - 1 \in 0 .. 2 * N - 1
        BY <1>2, SizeFacts
      <3>2. PICK p \in Pos : p = Plus(deq, i - 1) /\ Dist(p, deq) = i - 1
        BY <3>1, CountOn, Zenon
      <3>3. Contents'[i] = Entry(p)'
        BY <1>1, <1>2, <3>2, Zenon DEF View
      <3>4. CASE i = Inside + 1
        <4>1. p = enq
          BY <3>2, <3>4, DistInjective DEF Inside
        <4> QED BY <1>5, <2>1, <3>3, <3>4, <4>1, Zenon
      <3>5. CASE i \in 1 .. Inside
        <4>1. Contents[i] = Entry(p)
          BY <3>2, <3>5, Zenon DEF View
        <4>2. Dist(p, deq) < Inside
          BY <3>2, <3>5
        <4> QED BY <1>4, <2>1, <3>3, <3>5, <4>1, <4>2, Zenon
      <3> QED BY <3>4, <3>5
    <2> QED BY <2>1, <2>2, <2>3, SeqEqual, Zenon DEF a
  <1>7. ASSUME NEW u \in Client PROVE Got(u)' = Got(u)
    <2>1. CASE u \in Producer
      BY <2>1, Zenon DEF Got
    <2>2. CASE u \notin Producer
      <3>1. pc'[u] = pc[u] /\ slot'[u] = slot[u] /\ cells' = cells /\ item' = item
        BY <1>1, <1>3, <2>2, Zenon
      <3> QED BY <2>2, <3>1, Zenon DEF Got
    <2> QED BY <2>1, <2>2, Zenon
  <1> QED BY <1>2, <1>6, <1>7, Zenon DEF C!Put, View

(* A consumer's claim takes the oldest item out of the channel. *)
LEMMA ClaimTakes ==
    ASSUME IndInv, View, View', NEW t \in Consumer, Attempt(t)
    PROVE  C!Take(t)
  <1> USE RingType DEF IndInv
  <1>1. /\ pc[t] \in Trying /\ pc[t] # "commit" /\ pc[t] # "release"
        /\ cells[deq % N].seq = Plus(deq, 1) /\ deq' = Plus(deq, 1)
        /\ slot' = [slot EXCEPT ![t] = deq] /\ pc' = [pc EXCEPT ![t] = "commit"]
        /\ UNCHANGED <<cells, item>>
    BY Zenon DEF Attempt, Claim, Claimable, Trying, Goto
  <1>2. Inside > 0 /\ Inside' = Inside - 1
    BY TakeKeeps, Zenon
  <1>3. \A u \in Client : pc[u] = "commit" => slot[u] # deq
    BY <1>1, SomethingToTake, Zenon
  <1>4. /\ pc'[t] = "commit" /\ slot'[t] = deq /\ t \in Client /\ t \notin Producer
        /\ \A u \in Client : u # t => pc'[u] = pc[u] /\ slot'[u] = slot[u]
    BY <1>1, Zenon DEF TypeOK
  <1>5. ASSUME NEW p \in Pos PROVE Entry(p)' = Entry(p)
    <2>1. \A u \in Producer : Writes(u, p)' <=> Writes(u, p)
      BY <1>4, Zenon DEF Writes
    <2> QED BY <1>1, <2>1, SameEntry, Zenon
  <1>6. Contents \in Seq(Item) /\ Len(Contents) = Inside /\ Contents # <<>>
    BY <1>2 DEF View
  <1>7. Head(Contents) = cells[deq % N].val
    <2>1. Plus(deq, 0) = deq
      BY PlusIs, InPos, SizeFacts
    <2>2. Entry(deq) = cells[deq % N].val
      BY <1>3, Zenon DEF View, Writes
    <2>3. Contents[1] = Entry(deq)
      BY <1>2, <2>1 DEF View
    <2>4. Head(Contents) = Contents[1]
      BY <1>6
    <2> QED BY <2>2, <2>3, <2>4, Zenon
  <1>8. Contents' = Tail(Contents)
    <2> DEFINE a == Tail(Contents)
    <2>1. /\ a \in Seq(Item) /\ Len(a) = Inside - 1
          /\ \A i \in 1 .. Inside - 1 : a[i] = Contents[i + 1]
      BY <1>6, HeadTailProperties
    <2> HIDE DEF a
    <2>2. Contents' \in Seq(Item) /\ Len(Contents') = Inside - 1
      BY <1>2, Zenon DEF View
    <2>3. ASSUME NEW i \in 1 .. Inside - 1 PROVE Contents'[i] = a[i]
      <3>1. i \in 0 .. 2 * N - 1 /\ i > 0 /\ i + 1 \in 1 .. Inside /\ (i + 1) - 1 = i
        BY <1>2, SizeFacts
      <3>2. PICK p \in Pos : p = Plus(deq, i) /\ p = Plus(Plus(deq, 1), i - 1)
        BY <3>1, CountOn, Zenon
      <3>3. Contents'[i] = Entry(p)'
        BY <1>1, <1>2, <3>2, Zenon DEF View
      <3>4. Contents[i + 1] = Entry(p)
        <4>1. Contents[i + 1] = Entry(Plus(deq, (i + 1) - 1))
          BY <3>1, Zenon DEF View
        <4> QED BY <3>1, <3>2, <4>1, Zenon
      <3> QED BY <1>5, <2>1, <3>3, <3>4, Zenon
    <2> QED BY <2>1, <2>2, <2>3, SeqEqual, Zenon DEF a
  <1>9. Got(t) = None /\ Got(t)' = cells[deq % N].val
    <2>1. item[t] = None
      BY <1>1, <1>4, Zenon DEF Carries, TypeOK
    <2> QED BY <1>1, <1>4, <2>1, Zenon DEF Got
  <1>10. ASSUME NEW u \in Client, u # t PROVE Got(u)' = Got(u)
    <2>1. pc'[u] = pc[u] /\ slot'[u] = slot[u] /\ cells' = cells /\ item' = item
      BY <1>1, <1>4, <1>10, Zenon
    <2> QED BY <2>1, Zenon DEF Got
  <1>11. [u \in Client |-> Got(u)]' = [[u \in Client |-> Got(u)] EXCEPT ![t] = Head(Contents)]
    BY <1>4, <1>7, <1>9, <1>10, Zenon
  <1> QED BY <1>4, <1>6, <1>8, <1>9, <1>11, Zenon DEF C!Take

(* Writing and reading a claimed cell are invisible. *)
LEMMA CommitInvisible ==
    ASSUME IndInv, View, View', NEW t \in Client, Commit(t)
    PROVE  Contents' = Contents /\ \A u \in Client : Got(u)' = Got(u)
  <1> USE RingType DEF IndInv
  <1>1. /\ pc[t] = "commit" /\ slot' = [slot EXCEPT ![t] = 0] /\ pc' = [pc EXCEPT ![t] = "release"]
        /\ UNCHANGED <<enq, deq>>
    BY Zenon DEF Commit, Store, Goto
  <1>2. /\ pc'[t] = "release"
        /\ \A u \in Client : u # t => pc'[u] = pc[u] /\ slot'[u] = slot[u]
        /\ slot[t] \in Pos /\ slot[t] % N \in 0 .. N - 1
    BY <1>1, Zenon DEF TypeOK
  <1>3. /\ \A p \in Pos : Dist(p, deq) < Inside \/ Dist(p, deq) >= N + Inside
                => p = slot[t] \/ p % N # slot[t] % N
        /\ \A u \in Client : u # t /\ pc[u] = "commit"
                => slot[u] # slot[t] /\ slot[u] % N # slot[t] % N
    BY <1>1, OwnCell, Zenon
  <1>4. CASE t \in Producer
    <2>1. /\ cells' = [cells EXCEPT ![slot[t] % N] = [seq |-> Plus(slot[t], 1), val |-> item[t]]]
          /\ item' = item
      BY <1>4, Zenon DEF Commit, Store
    <2>2. /\ cells'[slot[t] % N].val = item[t]
          /\ \A i \in 0 .. N - 1 : i # slot[t] % N => cells'[i] = cells[i]
      BY <1>2, <2>1, Zenon DEF TypeOK
    <2>3. ASSUME NEW p \in Pos, Dist(p, deq) < Inside PROVE Entry(p)' = Entry(p)
      <3>1. CASE p = slot[t]
        <4>1. Entry(p) = item[t]
          BY <1>1, <1>4, <3>1, Zenon DEF View, Writes
        <4>2. \A u \in Producer : ~Writes(u, p)'
          BY <1>2, <1>3, <3>1, Zenon DEF Writes
        <4>3. Entry(p)' = cells'[p % N].val
          BY <4>2, Zenon DEF View
        <4> QED BY <2>2, <3>1, <4>1, <4>3, Zenon
      <3>2. CASE p # slot[t]
        <4>1. \A u \in Producer : Writes(u, p)' <=> Writes(u, p)
          BY <1>1, <1>2, <3>2, Zenon DEF Writes
        <4>2. cells'[p % N] = cells[p % N]
          BY <1>3, <2>2, <2>3, <3>2, Zenon
        <4> QED BY <2>1, <4>1, <4>2, SameEntry, Zenon
      <3> QED BY <3>1, <3>2, Zenon
    <2>4. ASSUME NEW u \in Client PROVE Got(u)' = Got(u)
      <3>1. CASE u \in Producer
        BY <3>1, Zenon DEF Got
      <3>2. CASE u \notin Producer
        <4>1. u # t /\ pc'[u] = pc[u] /\ slot'[u] = slot[u] /\ item' = item
          BY <1>2, <1>4, <2>1, <3>2, Zenon
        <4>2. pc[u] = "commit" => cells'[slot[u] % N] = cells[slot[u] % N]
          BY <1>3, <2>2, <4>1, Zenon
        <4> QED BY <3>2, <4>1, <4>2, Zenon DEF Got
      <3> QED BY <3>1, <3>2, Zenon
    <2> QED BY <1>1, <2>3, <2>4, SameContents, Zenon
  <1>5. CASE t \in Consumer
    <2>1. /\ cells' = [cells EXCEPT ![slot[t] % N].seq = Plus(slot[t], N)]
          /\ item' = [item EXCEPT ![t] = cells[slot[t] % N].val]
          /\ t \notin Producer
      BY <1>5, Zenon DEF Commit, Store
    <2>2. \A i \in 0 .. N - 1 : cells'[i].val = cells[i].val
      BY <2>1, Zenon DEF TypeOK
    <2>3. /\ item'[t] = cells[slot[t] % N].val
          /\ \A u \in Client : u # t => item'[u] = item[u]
      BY <2>1, Zenon DEF TypeOK
    <2>4. ASSUME NEW p \in Pos, Dist(p, deq) < Inside PROVE Entry(p)' = Entry(p)
      <3>1. \A u \in Producer : (Writes(u, p)' <=> Writes(u, p)) /\ item'[u] = item[u]
        BY <1>2, <2>1, <2>3, Zenon DEF Writes
      <3> QED BY <2>2, <3>1, SameEntry, Zenon
    <2>5. ASSUME NEW u \in Client PROVE Got(u)' = Got(u)
      <3>1. CASE u = t
        BY <1>1, <1>2, <2>1, <2>3, <3>1, Zenon DEF Got
      <3>2. CASE u # t
        BY <1>2, <2>2, <2>3, <3>2, Zenon DEF Got
      <3> QED BY <3>1, <3>2, Zenon
    <2> QED BY <1>1, <2>4, <2>5, SameContents, Zenon
  <1> QED BY <1>4, <1>5, Zenon DEF Client

(* The other steps leave what is inside alone; what a consumer has taken out *)
(* it keeps until it returns.                                                *)
LEMMA QuietInvisible ==
    ASSUME IndInv, View, View', NEW t \in Client,
           \/ \E m \in {"forever", "timed", "try"}, v \in Item : Start(t, m, v)
           \/ FirstFails(t) \/ SchedulingOp(t) \/ SecondFails(t) \/ ThirdFails(t)
           \/ Release(t) \/ Expire(t)
    PROVE  /\ Contents' = Contents
           /\ \/ \A u \in Client : Got(u)' = Got(u)
              \/ C!Return(t)
  <1> USE RingType DEF IndInv
  <1> DEFINE Drops ==
        /\ pc[t] # "commit" /\ (t \in Producer \/ item'[t] = None)
        /\ \A u \in Client : u # t => item'[u] = item[u]
  <1>1. /\ UNCHANGED <<cells, enq, deq, slot>>
        /\ \A u \in Client : pc'[u] = "commit" <=> pc[u] = "commit"
        /\ item' = item \/ Drops
    <2>1. ASSUME NEW m \in {"forever", "timed", "try"}, NEW v \in Item, Start(t, m, v)
          PROVE  UNCHANGED <<cells, enq, deq, slot>> /\ Drops
                 /\ \A u \in Client : pc'[u] = "commit" <=> pc[u] = "commit"
      BY <2>1, Zenon DEF Start, Goto, ring, TypeOK
    <2>2. CASE FirstFails(t) \/ ThirdFails(t)
      BY <2>2, Zenon DEF FirstFails, ThirdFails, Return, Goto, ring, TypeOK
    <2>3. CASE SchedulingOp(t) \/ SecondFails(t) \/ Expire(t)
      BY <2>3, Zenon DEF SchedulingOp, SecondFails, Expire, Goto, ring, TypeOK
    <2>4. CASE Release(t)
      BY <2>4, Zenon DEF Release, Return, Goto, ring, TypeOK
    <2> HIDE DEF Drops
    <2> QED BY <2>1, <2>2, <2>3, <2>4, Zenon
  <1>2. ASSUME NEW p \in Pos PROVE Entry(p)' = Entry(p)
    <2>1. \A u \in Producer : Writes(u, p)' <=> Writes(u, p)
      BY <1>1, Zenon DEF Writes
    <2>2. \A u \in Producer : Writes(u, p) => item'[u] = item[u]
      BY <1>1, Zenon DEF Writes
    <2> QED BY <1>1, <2>1, <2>2, SameEntry, Zenon
  <1>3. Contents' = Contents
    BY <1>1, <1>2, SameContents, Zenon
  <1>4. ASSUME NEW u \in Client, u # t \/ u \in Producer \/ item' = item PROVE Got(u)' = Got(u)
    BY <1>1, <1>4, Zenon DEF Got
  <1>5. CASE t \notin Producer /\ Drops /\ item[t] # None
    <2>1. Got(t) = item[t] /\ Got(t)' = None
      BY <1>1, <1>5, Zenon DEF Got
    <2>2. [u \in Client |-> Got(u)]' = [[u \in Client |-> Got(u)] EXCEPT ![t] = None]
      BY <1>4, <2>1, Zenon
    <2> QED BY <1>3, <1>5, <2>1, <2>2, Zenon DEF C!Return
  <1>6. CASE t \notin Producer /\ Drops /\ item[t] = None
    <2>1. Got(t)' = Got(t)
      BY <1>1, <1>6, Zenon DEF Got
    <2> QED BY <1>3, <1>4, <2>1, Zenon
  <1> HIDE DEF Drops
  <1> QED BY <1>1, <1>3, <1>4, <1>5, <1>6, Zenon

(* Every step of the queue is a step of the abstract channel, or invisible. *)
THEOREM IsAChannel == Spec => ImplementsChannel
  <1> DEFINE got == [t \in Client |-> Got(t)]
  <1>1. Init => C!Init
    <2> SUFFICES ASSUME Init PROVE C!Init
      BY Zenon
    <2>1. View /\ Inside = 0 /\ TypeOK
      <3>1. IndInv
        BY QueueInit, Zenon
      <3>2. Inside = 0
        BY <3>1, DistIs, Zenon DEF Inside, Init, IndInv, TypeOK
      <3> QED BY <3>1, <3>2, ViewIs, Zenon DEF IndInv
    <2>2. Contents = <<>>
      BY <2>1, EmptySeq, Zenon DEF View
    <2>3. \A t \in Client : Got(t) = None
      BY Zenon DEF Got, Init
    <2> QED BY <2>2, <2>3, Zenon DEF C!Init
  <1>2. IndInv' => View'
    BY ViewIs, PTL
  <1>3. IndInv /\ [Next]_vars => [C!Next]_<<Contents, got>>
    <2> SUFFICES ASSUME IndInv, [Next]_vars PROVE [C!Next]_<<Contents, got>>
      BY Zenon
    <2>1. View /\ View'
      BY <1>2, ViewIs, QueueStep, Zenon
    <2>2. ASSUME NEW t \in Client, Attempt(t) PROVE C!Next
      <3>1. CASE t \in Producer
        BY <2>1, <2>2, <3>1, ClaimPuts, Zenon DEF C!Next
      <3>2. CASE t \in Consumer
        BY <2>1, <2>2, <3>2, ClaimTakes, Zenon DEF C!Next
      <3> QED BY <3>1, <3>2, Zenon DEF Client
    <2>3. ASSUME NEW t \in Client, Commit(t) PROVE UNCHANGED <<Contents, got>>
      BY <2>1, <2>3, CommitInvisible, Zenon
    <2>4. ASSUME NEW t \in Client,
                 \/ \E m \in {"forever", "timed", "try"}, v \in Item : Start(t, m, v)
                 \/ FirstFails(t) \/ SchedulingOp(t) \/ SecondFails(t) \/ ThirdFails(t)
                 \/ Release(t) \/ Expire(t)
          PROVE  C!Next \/ UNCHANGED <<Contents, got>>
      BY <2>1, <2>4, QuietInvisible, Zenon DEF C!Next
    <2>5. CASE UNCHANGED vars
      <3>1. UNCHANGED <<cells, enq, deq, pc, item, slot>>
        BY <2>5, Zenon DEF vars
      <3>2. Contents' = Contents
        BY <3>1, Zenon DEF Contents, Entry, Writes, Inside
      <3>3. \A t \in Client : Got(t)' = Got(t)
        BY <3>1, Zenon DEF Got
      <3> QED BY <3>2, <3>3, Zenon
    <2> QED BY <2>2, <2>3, <2>4, <2>5, Zenon DEF Next, Step
  <1> QED
    BY <1>1, <1>3, QueueInvariance, PTL DEF Spec, ImplementsChannel, C!Spec
=============================================================================
