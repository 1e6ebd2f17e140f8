--------------------------- MODULE VirtQueueProofs ---------------------------
(***************************************************************************)
(* Proofs about VirtQueue for every queue size, index width and set of     *)
(* buffers.  IndInv has three parts.  Places: every head in flight is in   *)
(* one place only, the available ring, the device, the used ring or the    *)
(* driver's hand.  Layout: the free list and the chains behind these heads *)
(* are linked sequences that share no descriptor and together have all of  *)
(* them.  Contents: a descriptor in use refers to the buffer that is its   *)
(* associated data, no buffer is at two descriptors, and the chain that is *)
(* being offered is a batch.  The rings cannot overrun because a ring      *)
(* without repetitions has no more entries than there are descriptors.     *)
(***************************************************************************)
EXTENDS VirtQueue, FiniteSetTheorems, TLAPS

-----------------------------------------------------------------------------
(* Ring indices *)

(* Values of a u16 ring index. *)
Idx == 0 .. Width - 1

(* What the arithmetic needs of the two sizes: a queue is smaller than the   *)
(* range of its indices, and divides it.                                     *)
LEMMA SizeFacts == Size \in Nat \ {0} /\ Width \in Nat \ {0} /\ Size < Width /\ Width % Size = 0
  BY VirtQueueAssumption

(* Entries of the ring fewer than Size apart are different entries. *)
LEMMA CellsDiffer ==
    ASSUME NEW x \in Idx, NEW y \in Idx, (y - x) % Width \in 1 .. Size - 1
    PROVE  x % Size # y % Size
  <1> DEFINE a == x \div Size
             b == y \div Size
             q == Width \div Size
  <1>1. \A z \in Nat : z \div Size \in Nat /\ z = Size * (z \div Size) + (z % Size)
    BY SizeFacts
  <1>2. x \in Nat /\ y \in Nat /\ Width \in Nat
    BY SizeFacts DEF Idx
  <1>3. /\ a \in Nat /\ x = Size * a + (x % Size)
        /\ b \in Nat /\ y = Size * b + (y % Size)
        /\ q \in Nat /\ Width = Size * q + (Width % Size)
    BY <1>1, <1>2, Zenon
  <1> HIDE DEF a, b, q
  <1>4. Width = Size * q
    BY <1>3, SizeFacts
  <1>5. (y - x) % Width = IF x <= y THEN y - x ELSE y - x + Width
    <2> DEFINE z == y - x
    <2>1. z \in Int /\ -Width < z /\ z < Width /\ (0 <= z <=> x <= y)
      BY SizeFacts DEF Idx
    <2> HIDE DEF z
    <2>2. z % Width = IF 0 <= z THEN z ELSE z + Width
      BY <2>1, SizeFacts
    <2> QED BY <2>1, <2>2, SizeFacts DEF z, Idx
  <1>6. SUFFICES ASSUME x % Size = y % Size PROVE FALSE
    OBVIOUS
  <1>7. x % Size \in Int /\ Size * a \in Int /\ Size * b \in Int
    BY <1>2, <1>3, SizeFacts
  <1>8. y - x = Size * b - Size * a
    BY <1>3, <1>6, <1>7
  <1>9. PICK m \in Int : (y - x) % Width = Size * m
    <2>1. Size * b - Size * a = Size * (b - a) /\ Size * b - Size * a + Size * q = Size * (b - a + q)
      BY <1>3, SizeFacts
    <2> QED BY <1>3, <1>4, <1>5, <1>8, <2>1
  <1>10. CASE m >= 1
    <2>1. Size * m >= Size
      BY <1>10, SizeFacts
    <2> QED BY <1>9, <2>1, SizeFacts
  <1>11. CASE m <= 0
    <2>1. Size * m <= 0
      BY <1>11, SizeFacts
    <2> QED BY <1>9, <2>1, SizeFacts
  <1> QED BY <1>10, <1>11

(* wrapping_add(1) on an index. *)
LEMMA IncrIs ==
    ASSUME NEW i \in Idx
    PROVE  Incr(i) = (IF i + 1 < Width THEN i + 1 ELSE 0) /\ Incr(i) \in Idx
  <1> DEFINE z == i + 1
  <1>1. z \in Int /\ 0 < z /\ z <= Width
    BY SizeFacts DEF Idx
  <1> HIDE DEF z
  <1>2. z % Width = IF z < Width THEN z ELSE 0
    BY <1>1, SizeFacts
  <1> QED BY <1>1, <1>2, SizeFacts DEF z, Incr, Idx

(* The wrapping difference of two indices. *)
LEMMA AheadIs ==
    ASSUME NEW x \in Idx, NEW y \in Idx
    PROVE  /\ (y - x) % Width = IF x <= y THEN y - x ELSE y - x + Width
           /\ (y - x) % Width \in Idx
  <1> DEFINE z == y - x
  <1>1. z \in Int /\ -Width < z /\ z < Width /\ (0 <= z <=> x <= y)
    BY SizeFacts DEF Idx
  <1> HIDE DEF z
  <1>2. z % Width = IF 0 <= z THEN z ELSE z + Width
    BY <1>1, SizeFacts
  <1> QED BY <1>1, <1>2, SizeFacts DEF z, Idx

(* The index k - 1 places after i, across the wraparound. *)
LEMMA EntryIs ==
    ASSUME NEW i \in Idx, NEW k \in 1 .. Width
    PROVE  /\ (i + k - 1) % Width = IF i + k - 1 < Width THEN i + k - 1 ELSE i + k - 1 - Width
           /\ (i + k - 1) % Width \in Idx
  <1> DEFINE z == i + k - 1
  <1>1. z \in Int /\ 0 <= z /\ z < 2 * Width
    BY SizeFacts DEF Idx
  <1> HIDE DEF z
  <1>2. z % Width = IF z < Width THEN z ELSE z - Width
    BY <1>1, SizeFacts
  <1> QED BY <1>1, <1>2, SizeFacts DEF z, Idx

(* The entries of the ring r from index i on. *)
Ahead(r, i) == (r.idx - i) % Width

(* A ring entry is a descriptor. *)
LEMMA InRing ==
    ASSUME NEW r \in Ring
    PROVE  /\ r.idx \in Idx /\ r.idx % Size \in Desc
           /\ \A x \in Idx : x % Size \in Desc /\ r.ring[x % Size] \in Desc
  <1>1. \A x \in Idx : x % Size \in Desc
    BY SizeFacts DEF Idx, Desc
  <1>2. r.idx \in Idx /\ r.ring \in [Desc -> Desc]
    BY DEF Ring, Idx
  <1> QED BY <1>1, <1>2

(* Heads is a sequence of descriptors, as long as the ring has entries that  *)
(* are not read.                                                             *)
LEMMA HeadsAre ==
    ASSUME NEW r \in Ring, NEW i \in Idx
    PROVE  /\ Ahead(r, i) \in Idx /\ (Ahead(r, i) = 0 <=> i = r.idx)
           /\ Heads(r, i) \in [1 .. Ahead(r, i) -> Desc]
           /\ Heads(r, i) \in Seq(Desc) /\ Len(Heads(r, i)) = Ahead(r, i)
  <1>1. r.idx \in Idx
    BY InRing
  <1>2. Ahead(r, i) \in Idx /\ (Ahead(r, i) = 0 <=> i = r.idx)
    <2>1. Ahead(r, i) \in Idx /\ Ahead(r, i) = IF i <= r.idx THEN r.idx - i ELSE r.idx - i + Width
      BY <1>1, AheadIs, Zenon DEF Ahead
    <2> QED BY <1>1, <2>1, SizeFacts DEF Idx
  <1>3. ASSUME NEW k \in 1 .. Ahead(r, i) PROVE r.ring[((i + k - 1) % Width) % Size] \in Desc
    <2>1. k \in 1 .. Width
      BY <1>2, SizeFacts DEF Idx
    <2> QED BY <2>1, EntryIs, InRing, Zenon
  <1>4. Heads(r, i) \in [1 .. Ahead(r, i) -> Desc]
    BY <1>3, Zenon DEF Heads, Ahead
  <1>5. Heads(r, i) \in Seq(Desc) /\ Len(Heads(r, i)) = Ahead(r, i)
    BY <1>2, <1>4 DEF Idx
  <1> QED BY <1>2, <1>4, <1>5, Zenon

(* Taking the entry at the index i of a ring that is not empty. *)
LEMMA Pop ==
    ASSUME NEW r \in Ring, NEW i \in Idx, i # r.idx
    PROVE  /\ Heads(r, i) # <<>> /\ Head(Heads(r, i)) = r.ring[i % Size]
           /\ Heads(r, Incr(i)) = Tail(Heads(r, i))
  <1> DEFINE n == Ahead(r, i)
             j == Incr(i)
             s == Heads(r, i)
             t == Heads(r, j)
  <1>1. /\ n \in Idx /\ n # 0 /\ s \in Seq(Desc) /\ Len(s) = n
        /\ s = [k \in 1 .. n |-> r.ring[((i + k - 1) % Width) % Size]]
    BY HeadsAre, Zenon DEF Heads, Ahead
  <1>2. j \in Idx /\ j = IF i + 1 < Width THEN i + 1 ELSE 0
    BY IncrIs, Zenon
  <1>3. r.idx \in Idx
    BY InRing, Zenon
  <1>4. Ahead(r, j) = n - 1
    <2>1. /\ Ahead(r, j) = (IF j <= r.idx THEN r.idx - j ELSE r.idx - j + Width)
          /\ n = (IF i <= r.idx THEN r.idx - i ELSE r.idx - i + Width)
      BY <1>2, <1>3, AheadIs DEF Ahead
    <2> QED BY <1>2, <1>3, <2>1, SizeFacts DEF Idx
  <1>5. t = [k \in 1 .. n - 1 |-> r.ring[((j + k - 1) % Width) % Size]]
    BY <1>4 DEF Heads, Ahead
  <1>6. s[1] = r.ring[i % Size]
    <2>1. (i + 1 - 1) % Width = i
      BY EntryIs, SizeFacts DEF Idx
    <2> QED BY <1>1, <2>1 DEF Idx
  <1>7. ASSUME NEW k \in 1 .. n - 1 PROVE t[k] = s[k + 1]
    <2>1. k \in 1 .. Width /\ k + 1 \in 1 .. Width /\ k + 1 \in 1 .. n
      BY <1>1, SizeFacts DEF Idx
    <2>2. /\ (j + k - 1) % Width = (IF j + k - 1 < Width THEN j + k - 1 ELSE j + k - 1 - Width)
          /\ (i + (k + 1) - 1) % Width = (IF i + (k + 1) - 1 < Width THEN i + (k + 1) - 1 ELSE i + (k + 1) - 1 - Width)
      BY <1>2, <2>1, EntryIs
    <2>3. (j + k - 1) % Width = (i + (k + 1) - 1) % Width
      BY <1>2, <2>2, SizeFacts DEF Idx
    <2> QED BY <1>1, <1>5, <2>1, <2>3, Zenon
  <1> HIDE DEF n, j, s, t
  <1>8. t = Tail(s)
    <2>1. Tail(s) = [k \in 1 .. n - 1 |-> s[k + 1]]
      BY <1>1 DEF Idx
    <2> QED BY <1>5, <1>7, <2>1
  <1>9. s # <<>> /\ Head(s) = s[1]
    BY <1>1, SizeFacts DEF Idx
  <1> QED BY <1>6, <1>8, <1>9, Zenon DEF s, t, j

(* An entry written ahead of the index is not read yet. *)
LEMMA Push ==
    ASSUME NEW r \in Ring, NEW i \in Idx, NEW d \in Desc, Ahead(r, i) < Size
    PROVE  /\ PushRing(r, d) \in Ring /\ PushRing(r, d).idx = r.idx
           /\ PushRing(r, d).ring[r.idx % Size] = d
           /\ Heads(PushRing(r, d), i) = Heads(r, i)
  <1> DEFINE n == Ahead(r, i)
             q == PushRing(r, d)
             c == r.idx % Size
             at(k) == ((i + k - 1) % Width) % Size
  <1>1. r = [idx |-> r.idx, ring |-> r.ring] /\ r.idx \in Idx /\ r.ring \in [Desc -> Desc] /\ c \in Desc
    <2>1. r = [idx |-> r.idx, ring |-> r.ring] /\ r.ring \in [Desc -> Desc]
      BY DEF Ring
    <2> QED BY <2>1, InRing, Zenon
  <1>2. q = [idx |-> r.idx, ring |-> [r.ring EXCEPT ![c] = d]]
    BY <1>1 DEF PushRing
  <1>3. q \in Ring /\ q.idx = r.idx /\ q.ring = [r.ring EXCEPT ![c] = d] /\ q.ring[c] = d
    BY <1>1, <1>2 DEF Ring, Idx
  <1>4. n \in Idx
    BY HeadsAre, Zenon
  <1>5. ASSUME NEW k \in 1 .. n PROVE at(k) # c /\ at(k) \in Desc
    <2> DEFINE x == (i + k - 1) % Width
    <2>1. k \in 1 .. Width
      BY <1>4, SizeFacts DEF Idx
    <2>2. x \in Idx /\ x = IF i + k - 1 < Width THEN i + k - 1 ELSE i + k - 1 - Width
      BY <2>1, EntryIs, Zenon
    <2>3. (r.idx - x) % Width = IF x <= r.idx THEN r.idx - x ELSE r.idx - x + Width
      BY <1>1, <2>2, AheadIs, Zenon
    <2>4. n = IF i <= r.idx THEN r.idx - i ELSE r.idx - i + Width
      BY <1>1, AheadIs, Zenon DEF Ahead
    <2> HIDE DEF x
    <2>5. (r.idx - x) % Width \in 1 .. Size - 1
      BY <1>1, <1>4, <2>2, <2>3, <2>4, SizeFacts DEF Idx
    <2>6. x % Size # c
      BY <1>1, <2>2, <2>5, CellsDiffer, Zenon
    <2> QED BY <2>2, <2>6, InRing, Zenon DEF x
  <1>6. \A k \in 1 .. n : q.ring[at(k)] = r.ring[at(k)]
    BY <1>1, <1>3, <1>5, Zenon
  <1>7. /\ Heads(q, i) = [k \in 1 .. n |-> q.ring[at(k)]]
        /\ Heads(r, i) = [k \in 1 .. n |-> r.ring[at(k)]]
    BY <1>3, Zenon DEF Heads, Ahead
  <1> QED BY <1>3, <1>6, <1>7, Zenon

(* Advancing the index publishes the entry written there. *)
LEMMA Advance ==
    ASSUME NEW r \in Ring, NEW i \in Idx, Ahead(r, i) < Size
    PROVE  /\ [r EXCEPT !.idx = Incr(@)] \in Ring
           /\ Heads([r EXCEPT !.idx = Incr(@)], i) = Append(Heads(r, i), r.ring[r.idx % Size])
  <1> DEFINE n == Ahead(r, i)
             q == [r EXCEPT !.idx = Incr(@)]
             j == Incr(r.idx)
             s == Heads(r, i)
             at(k) == ((i + k - 1) % Width) % Size
  <1>1. r = [idx |-> r.idx, ring |-> r.ring] /\ r.idx \in Idx /\ r.ring \in [Desc -> Desc]
    <2>1. r = [idx |-> r.idx, ring |-> r.ring] /\ r.ring \in [Desc -> Desc]
      BY DEF Ring
    <2> QED BY <2>1, InRing, Zenon
  <1>2. j \in Idx /\ j = IF r.idx + 1 < Width THEN r.idx + 1 ELSE 0
    BY <1>1, IncrIs, Zenon
  <1>3. q = [idx |-> j, ring |-> r.ring]
    BY <1>1
  <1>4. q \in Ring /\ q.idx = j /\ q.ring = r.ring
    BY <1>1, <1>2, <1>3 DEF Ring, Idx
  <1>5. n < Size /\ n \in Idx /\ n = IF i <= r.idx THEN r.idx - i ELSE r.idx - i + Width
    BY <1>1, AheadIs, Zenon DEF Ahead
  <1>6. Ahead(q, i) = n + 1
    <2>1. Ahead(q, i) = IF i <= j THEN j - i ELSE j - i + Width
      BY <1>2, <1>4, AheadIs DEF Ahead
    <2> HIDE DEF n, j, q
    <2> QED BY <1>1, <1>2, <1>5, <2>1, SizeFacts DEF Idx
  <1>7. (i + (n + 1) - 1) % Width = r.idx
    <2>1. n + 1 \in 1 .. Width
      BY <1>5, SizeFacts DEF Idx
    <2>2. (i + (n + 1) - 1) % Width
            = IF i + (n + 1) - 1 < Width THEN i + (n + 1) - 1 ELSE i + (n + 1) - 1 - Width
      BY <2>1, EntryIs, Zenon
    <2> HIDE DEF n
    <2> QED BY <1>1, <1>5, <2>2, SizeFacts DEF Idx
  <1>8. /\ Heads(q, i) = [k \in 1 .. n + 1 |-> r.ring[at(k)]]
        /\ s = [k \in 1 .. n |-> r.ring[at(k)]]
    <2>1. /\ Heads(q, i) = [k \in 1 .. Ahead(q, i) |-> q.ring[at(k)]]
          /\ s = [k \in 1 .. n |-> r.ring[at(k)]]
      BY Zenon DEF Heads, Ahead
    <2> HIDE DEF q, s, n, at
    <2> QED BY <1>4, <1>6, <2>1
  <1>9. s \in Seq(Desc) /\ Len(s) = n /\ r.ring[at(n + 1)] = r.ring[r.idx % Size]
    BY <1>7, HeadsAre, Zenon
  <1>10. n \in Nat
    BY <1>5, SizeFacts DEF Idx
  <1>11. r.ring[r.idx % Size] \in Desc
    BY <1>1, InRing, Zenon
  <1>12. \A k \in 1 .. n + 1 : r.ring[at(k)] = Append(s, r.ring[r.idx % Size])[k]
    <2>1. \A k \in 1 .. n : s[k] = r.ring[at(k)]
      BY <1>8, Zenon
    <2> HIDE DEF at, s, n
    <2> QED BY <1>9, <1>10, <1>11, <2>1
  <1>13. Append(s, r.ring[r.idx % Size]) = [k \in 1 .. n + 1 |-> r.ring[at(k)]]
    <2> HIDE DEF at, s, n
    <2> QED BY <1>9, <1>10, <1>11, <1>12
  <1> QED BY <1>4, <1>8, <1>13, Zenon

(* No more heads without repetition than descriptors. *)
LEMMA Room ==
    ASSUME NEW n \in Nat, NEW s \in [1 .. n -> Desc], Once(s)
    PROVE  n <= Size /\ (n = Size => Elems(s) = Desc)
  <1>1. s \in Injection(1 .. n, Desc)
    BY Zenon DEF Injection, IsInjective, Once
  <1>2. IsFiniteSet(Desc) /\ Cardinality(Desc) = Size
    BY FS_Interval, SizeFacts DEF Desc
  <1>3. IsFiniteSet(1 .. n) /\ Cardinality(1 .. n) = n
    BY FS_Interval
  <1>4. /\ Cardinality(1 .. n) <= Cardinality(Desc)
        /\ Cardinality(1 .. n) = Cardinality(Desc) <=> s \in Surjection(1 .. n, Desc)
    BY <1>1, <1>2, FS_Injection, Zenon
  <1>5. s \in Surjection(1 .. n, Desc) => Elems(s) = Desc
    BY DEF Surjection, Elems
  <1> QED BY <1>2, <1>3, <1>4, <1>5
-----------------------------------------------------------------------------
(* Linked descriptors *)

(* A set of numbers that is not empty has a least element. *)
LEMMA Least ==
    ASSUME NEW T \in SUBSET Nat, T # {}
    PROVE  \E m \in T : \A k \in T : m <= k
  <1> DEFINE R == OpToRel(<, Nat)
  <1>1. IsWellFoundedOn(R, Nat)
    BY NatLessThanWellFounded, Zenon
  <1>2. \A x, y \in Nat : <<x, y>> \in R <=> x < y
    BY DEF OpToRel
  <1> HIDE DEF R
  <1>3. PICK m \in T : \A k \in T : ~(<<k, m>> \in R)
    BY <1>1, WFMin, Zenon
  <1>4. \A k \in T : ~(k < m)
    BY <1>2, <1>3, Zenon
  <1>5. \A k \in T : m <= k
    BY <1>4
  <1> QED BY <1>5

(* None is no descriptor. *)
LEMMA NoneFacts == None \notin Desc
  BY VirtQueueAssumption DEF Desc

(* Following next from the start of what is linked gives just that. *)
LEMMA PathIs ==
    ASSUME next \in [Desc -> Desc \cup {None}], NEW d,
           NEW n \in Nat, NEW m \in Nat, NEW c \in [1 .. m -> Desc], Linked(c),
           n > 0 => m > 0 /\ c[1] = d
    PROVE  Path(d, n) = [i \in 1 .. n |-> IF i <= m THEN c[i] ELSE None]
  <1> DEFINE step(f, i) == IF i = 1 THEN d ELSE IF f[i - 1] = None THEN None ELSE next[f[i - 1]]
             g == [i \in 1 .. n |-> IF i <= m THEN c[i] ELSE None]
             p == Path(d, n)
  <1>1. \A i \in 1 .. n : g[i] = step(g, i)
    <2> SUFFICES ASSUME NEW i \in 1 .. n PROVE g[i] = step(g, i)
      OBVIOUS
    <2>1. CASE i = 1
      BY <2>1
    <2>2. CASE i # 1 /\ i <= m
      <3>1. i - 1 \in 1 .. n /\ i - 1 \in DOMAIN c /\ (i - 1) + 1 \in DOMAIN c /\ (i - 1) + 1 = i
        BY <2>2
      <3>2. next[c[i - 1]] = c[i]
        BY <3>1 DEF Linked
      <3>3. g[i - 1] = c[i - 1] /\ c[i - 1] # None /\ g[i] = c[i]
        BY <2>2, <3>1, NoneFacts
      <3> QED BY <2>2, <3>2, <3>3
    <2>3. CASE i # 1 /\ i - 1 = m
      <3>1. i - 1 \in 1 .. n /\ m \in DOMAIN c /\ ~(m + 1 \in DOMAIN c)
        BY <2>3
      <3>2. next[c[m]] = None
        BY <3>1 DEF Linked
      <3>3. g[i - 1] = c[m] /\ c[m] # None /\ g[i] = None
        BY <2>3, <3>1, NoneFacts
      <3> QED BY <2>3, <3>2, <3>3
    <2>4. CASE i # 1 /\ i - 1 > m
      <3>1. i - 1 \in 1 .. n
        BY <2>4
      <3>2. g[i - 1] = None /\ g[i] = None
        BY <2>4, <3>1
      <3> QED BY <2>4, <3>2
    <2> QED BY <2>1, <2>2, <2>3, <2>4
  <1>2. g = [i \in 1 .. n |-> step(g, i)]
    BY <1>1
  <1>3. p = [i \in 1 .. n |-> step(p, i)]
    <2>1. p = CHOOSE f : f = [i \in 1 .. n |-> step(f, i)]
      BY Zenon DEF Path
    <2> HIDE DEF g, p
    <2> QED BY <1>2, <2>1, Zenon
  <1>0. \A i \in 1 .. n : p[i] = step(p, i)
    <2> HIDE DEF p
    <2> QED BY <1>3
  <1> DEFINE T == {i \in 1 .. n : p[i] # g[i]}
  <1>4. CASE T = {}
    <2>1. p = [i \in 1 .. n |-> p[i]]
      BY <1>3, Zenon
    <2>2. \A i \in 1 .. n : p[i] = g[i]
      BY <1>4, Zenon
    <2> HIDE DEF p
    <2> QED BY <2>1, <2>2 DEF p
  <1>5. CASE T # {}
    <2>1. T \in SUBSET Nat
      OBVIOUS
    <2>2. PICK t \in T : \A k \in T : t <= k
      BY <1>5, <2>1, Least, Zenon
    <2>3. p[t] = step(p, t) /\ g[t] = step(g, t) /\ t \in 1 .. n /\ p[t] # g[t]
      <3> HIDE DEF p, g
      <3> QED BY <1>1, <1>0, <2>2, Zenon
    <2>4. t # 1
      BY <2>3, Zenon
    <2>5. t - 1 \in 1 .. n /\ ~(t <= t - 1)
      BY <2>3, <2>4
    <2>6. p[t - 1] = g[t - 1]
      BY <2>2, <2>5, Zenon
    <2> QED BY <2>3, <2>6, Zenon
  <1> QED BY <1>4, <1>5, Zenon

(* The same for Chain, which follows next until it ends. *)
LEMMA ChainIs ==
    ASSUME next \in [Desc -> Desc \cup {None}], NEW c, NEW h, IsChain(c, h)
    PROVE  Chain(h) = c
  <1>1. PICK m \in 1 .. Size : c \in [1 .. m -> Desc]
    BY DEF IsChain
  <1>2. m \in Nat /\ m > 0 /\ Size \in Nat /\ m <= Size
    BY <1>1, SizeFacts
  <1> DEFINE p == Path(h, Size)
  <1>3. p = [i \in 1 .. Size |-> IF i <= m THEN c[i] ELSE None]
    <2>1. c[1] = h /\ Linked(c)
      BY DEF IsChain
    <2> QED BY <1>1, <1>2, <2>1, PathIs
  <1> HIDE DEF p
  <1>4. {j \in 1 .. Size : p[j] # None} = 1 .. m
    BY <1>1, <1>2, <1>3, NoneFacts
  <1>5. Chain(h) = [i \in 1 .. m |-> p[i]]
    BY <1>4, Zenon DEF Chain, p
  <1>6. \A i \in 1 .. m : p[i] = c[i]
    BY <1>2, <1>3
  <1> QED BY <1>1, <1>5, <1>6
-----------------------------------------------------------------------------
(* The places of the heads *)

(* Adding a new member to a sequence without repetition. *)
LEMMA AppendOnce ==
    ASSUME NEW s \in Seq(Desc), NEW x \in Desc, Once(s), x \notin Elems(s)
    PROVE  Once(Append(s, x)) /\ Elems(Append(s, x)) = Elems(s) \cup {x}
  <1> DEFINE t == Append(s, x)
             n == Len(s)
  <1>1. /\ n \in Nat /\ DOMAIN s = 1 .. n /\ DOMAIN t = 1 .. n + 1
        /\ t[n + 1] = x /\ \A i \in 1 .. n : t[i] = s[i]
    OBVIOUS
  <1> HIDE DEF t, n
  <1>2. \A i \in 1 .. n + 1 : i \in 1 .. n \/ i = n + 1
    BY <1>1
  <1>3. \A i \in 1 .. n : i \in 1 .. n + 1 /\ i # n + 1
    BY <1>1
  <1>4. \A i \in 1 .. n : s[i] # x
    BY <1>1, Zenon DEF Elems
  <1>5. Once(t)
    BY <1>1, <1>2, <1>4, Zenon DEF Once
  <1>6. n + 1 \in 1 .. n + 1
    BY <1>1
  <1>7. Elems(t) = Elems(s) \cup {x}
    BY <1>1, <1>2, <1>3, <1>6, Zenon DEF Elems
  <1> QED BY <1>5, <1>7, Zenon DEF t

(* Taking the first member of a sequence without repetition. *)
LEMMA TailOnce ==
    ASSUME NEW s \in Seq(Desc), s # <<>>, Once(s)
    PROVE  /\ Head(s) \in Elems(s) /\ Once(Tail(s))
           /\ Elems(Tail(s)) = Elems(s) \ {Head(s)}
  <1> DEFINE t == Tail(s)
             n == Len(s)
  <1>1. /\ n \in Nat /\ n > 0 /\ DOMAIN s = 1 .. n /\ DOMAIN t = 1 .. n - 1
        /\ Head(s) = s[1] /\ \A i \in 1 .. n - 1 : t[i] = s[i + 1]
    OBVIOUS
  <1> HIDE DEF t, n
  <1>2. /\ 1 \in 1 .. n
        /\ \A i \in 1 .. n - 1 : i + 1 \in 1 .. n /\ i + 1 # 1
        /\ \A i \in 1 .. n : i # 1 => i - 1 \in 1 .. n - 1 /\ (i - 1) + 1 = i
        /\ \A i, j \in 1 .. n - 1 : i + 1 = j + 1 => i = j
    BY <1>1
  <1>3. Head(s) \in Elems(s)
    BY <1>1, <1>2, Zenon DEF Elems
  <1>4. Once(t)
    <2> SUFFICES ASSUME NEW i \in 1 .. n - 1, NEW j \in 1 .. n - 1, t[i] = t[j] PROVE i = j
      BY <1>1, Zenon DEF Once
    <2>1. s[i + 1] = s[j + 1]
      BY <1>1, Zenon
    <2>2. i + 1 = j + 1
      BY <1>1, <1>2, <2>1, Zenon DEF Once
    <2> QED BY <1>2, <2>2, Zenon
  <1>5. ASSUME NEW x \in Elems(t) PROVE x \in Elems(s) /\ x # Head(s)
    <2>1. PICK i \in 1 .. n - 1 : x = s[i + 1]
      BY <1>1, Zenon DEF Elems
    <2> QED BY <1>1, <1>2, <2>1, Zenon DEF Elems, Once
  <1>6. ASSUME NEW x \in Elems(s), x # Head(s) PROVE x \in Elems(t)
    <2>1. PICK i \in 1 .. n : x = s[i]
      BY <1>1, Zenon DEF Elems
    <2>2. i # 1
      BY <1>1, <1>6, <2>1, Zenon
    <2>3. t[i - 1] = s[i] /\ i - 1 \in DOMAIN t
      BY <1>1, <1>2, <2>2
    <2> QED BY <2>1, <2>3, Zenon DEF Elems
  <1>7. Elems(t) = Elems(s) \ {Head(s)}
    BY <1>5, <1>6, Zenon
  <1> QED BY <1>3, <1>4, <1>7, Zenon DEF t

(* The rings, as sequences of heads. *)
LEMMA RingsAre ==
    ASSUME TypeOK
    PROVE  /\ avail \in Ring /\ used \in Ring /\ seen \in Idx /\ lastUsed \in Idx
           /\ Offered \in Seq(Desc) /\ Finished \in Seq(Desc)
           /\ Elems(Offered) \subseteq Desc /\ Elems(Finished) \subseteq Desc
  <1>1. avail \in Ring /\ used \in Ring /\ seen \in Idx /\ lastUsed \in Idx
    BY DEF TypeOK, Idx
  <1>2. Offered \in Seq(Desc) /\ Finished \in Seq(Desc)
    BY <1>1, HeadsAre, Zenon DEF Offered, Finished
  <1>3. \A s \in Seq(Desc) : Elems(s) \subseteq Desc
    BY DEF Elems
  <1> QED BY <1>1, <1>2, <1>3, Zenon

(* The head that the driver works on, by its position. *)
LEMMA HandIs ==
    ASSUME TypeOK
    PROVE  /\ op.at \in {"enqueue", "publish", "free"} => InHand = {op.i}
           /\ op.at \notin {"enqueue", "publish", "free"} => InHand = {}
           /\ op.at \in {"idle", "enqueue", "publish", "free", "collect"} /\ op.i \in Desc
           /\ op = [at |-> op.at, i |-> op.i]
  BY DEF TypeOK, InHand

(* A ring that misses a head has room for it. *)
LEMMA RingRoom ==
    ASSUME NEW r \in Ring, NEW i \in Idx, NEW h \in Desc, Once(Heads(r, i)), h \notin Elems(Heads(r, i))
    PROVE  Ahead(r, i) < Size
  <1>1. Ahead(r, i) \in Idx /\ Heads(r, i) \in [1 .. Ahead(r, i) -> Desc]
    BY HeadsAre, Zenon
  <1>2. Ahead(r, i) \in Nat
    BY <1>1, SizeFacts DEF Idx
  <1>3. Ahead(r, i) <= Size /\ (Ahead(r, i) = Size => Elems(Heads(r, i)) = Desc)
    BY <1>1, <1>2, Room, Zenon
  <1>4. Ahead(r, i) # Size
    BY <1>3, Zenon
  <1> QED BY <1>2, <1>3, <1>4, SizeFacts

(* What each step does to the places of the heads. *)
LEMMA TransferMoves ==
    ASSUME TypeOK, NEW bs, Transfer(bs)
    PROVE  /\ Offered' = Offered /\ held' = held /\ Finished' = Finished
           /\ op.at = "idle" /\ op' = [at |-> "enqueue", i |-> first]
           /\ InHand = {} /\ InHand' = {first}
           /\ UNCHANGED <<avail, used, seen, lastUsed>>
  <1>1. op = Idle /\ op' = [at |-> "enqueue", i |-> first] /\ UNCHANGED <<avail, lastUsed, device>>
    BY Zenon DEF Transfer, Take
  <1>2. op.at = "idle" /\ op'.at = "enqueue" /\ op'.i = first
    BY <1>1 DEF Idle
  <1>3. UNCHANGED <<avail, used, seen, lastUsed>> /\ held' = held
    BY <1>1 DEF device
  <1>4. Offered' = Offered /\ Finished' = Finished
    BY <1>3 DEF Offered, Finished, Heads
  <1>5. InHand = {} /\ InHand' = {first}
    BY <1>2 DEF InHand
  <1> QED BY <1>1, <1>2, <1>3, <1>4, <1>5, Zenon

(* enqueue_to_available_ring writes an entry that is not read before it is   *)
(* published.                                                                *)
LEMMA EnqueueMoves ==
    ASSUME TypeOK, Places, Enqueue
    PROVE  /\ Offered' = Offered /\ held' = held /\ Finished' = Finished
           /\ op.at = "enqueue" /\ op' = [at |-> "publish", i |-> op.i]
           /\ InHand' = InHand /\ avail' \in Ring /\ avail'.ring[avail'.idx % Size] = op.i
           /\ UNCHANGED <<next, buf, data, first, free, used, seen, lastUsed>>
  <1>1. /\ op.at = "enqueue" /\ avail' = PushRing(avail, op.i)
        /\ UNCHANGED <<next, buf, data, first, free, used, seen, lastUsed>> /\ held' = held
    BY DEF Enqueue, device
  <1>2. op' = [at |-> "publish", i |-> op.i]
    BY HandIs DEF Enqueue
  <1>3. InHand = {op.i} /\ InHand' = {op.i} /\ op.i \in Desc
    BY <1>1, <1>2, HandIs DEF InHand
  <1>4. Ahead(avail, seen) < Size
    <2>1. Once(Offered) /\ op.i \notin Elems(Offered)
      BY <1>3, Zenon DEF Places
    <2> QED BY <1>3, <2>1, RingsAre, RingRoom, Zenon DEF Offered
  <1>5. /\ avail' \in Ring /\ avail'.idx = avail.idx /\ avail'.ring[avail.idx % Size] = op.i
        /\ Heads(avail', seen) = Heads(avail, seen)
    BY <1>1, <1>3, <1>4, RingsAre, Push
  <1>6. Offered' = Offered /\ Finished' = Finished
    BY <1>1, <1>5 DEF Offered, Finished, Heads
  <1> QED BY <1>1, <1>2, <1>3, <1>5, <1>6

(* Advancing the available index offers the head. *)
LEMMA PublishMoves ==
    ASSUME TypeOK, Places, Publish
    PROVE  /\ Offered' = Append(Offered, op.i) /\ held' = held /\ Finished' = Finished
           /\ op.at = "publish" /\ op' = Idle
           /\ InHand = {op.i} /\ InHand' = {} /\ avail' \in Ring
           /\ UNCHANGED <<next, buf, data, first, free, used, seen, lastUsed>>
  <1>1. /\ op.at = "publish" /\ avail' = [avail EXCEPT !.idx = Incr(@)] /\ op' = Idle
        /\ UNCHANGED <<next, buf, data, first, free, used, seen, lastUsed>> /\ held' = held
    BY DEF Publish, device
  <1>2. InHand = {op.i} /\ InHand' = {} /\ op.i \in Desc
    BY <1>1, HandIs DEF InHand, Idle
  <1>3. Ahead(avail, seen) < Size
    <2>1. Once(Offered) /\ op.i \notin Elems(Offered)
      BY <1>2, Zenon DEF Places
    <2> QED BY <1>2, <2>1, RingsAre, RingRoom, Zenon DEF Offered
  <1>4. avail.ring[avail.idx % Size] = op.i
    BY <1>1, Zenon DEF Places
  <1>5. avail' \in Ring /\ Heads(avail', seen) = Append(Heads(avail, seen), op.i)
    <2>1. /\ [avail EXCEPT !.idx = Incr(@)] \in Ring
          /\ Heads([avail EXCEPT !.idx = Incr(@)], seen)
               = Append(Heads(avail, seen), avail.ring[avail.idx % Size])
      BY <1>3, RingsAre, Advance, ZenonT(40)
    <2> QED BY <1>1, <1>4, <2>1, Zenon
  <1>6. Offered' = Append(Offered, op.i) /\ Finished' = Finished
    BY <1>1, <1>5, Zenon DEF Offered, Finished, Heads
  <1> QED BY <1>1, <1>2, <1>5, <1>6, Zenon

(* collect takes the next head of the used ring in hand. *)
LEMMA DequeueMoves ==
    ASSUME TypeOK, Dequeue
    PROVE  /\ Offered' = Offered /\ held' = held
           /\ Finished # <<>> /\ Finished' = Tail(Finished)
           /\ op.at \in {"idle", "collect"} /\ op' = [at |-> "free", i |-> Head(Finished)]
           /\ InHand = {} /\ InHand' = {Head(Finished)} /\ lastUsed' \in Idx
           /\ UNCHANGED <<next, buf, data, first, free, avail, used, seen>>
  <1>1. /\ op.at \in {"idle", "collect"} /\ lastUsed # used.idx /\ lastUsed' = Incr(lastUsed)
        /\ op' = [at |-> "free", i |-> used.ring[lastUsed % Size]]
        /\ UNCHANGED <<next, buf, data, first, free, avail, used, seen>> /\ held' = held
    BY DEF Dequeue, device
  <1>2. /\ Heads(used, lastUsed) # <<>> /\ Head(Heads(used, lastUsed)) = used.ring[lastUsed % Size]
        /\ Heads(used, Incr(lastUsed)) = Tail(Heads(used, lastUsed))
    BY <1>1, RingsAre, Pop
  <1>3. lastUsed' \in Idx
    BY <1>1, RingsAre, IncrIs, Zenon
  <1>4. Offered' = Offered /\ Finished # <<>> /\ Finished' = Tail(Finished)
    BY <1>1, <1>2, Zenon DEF Offered, Finished, Heads
  <1>5. op' = [at |-> "free", i |-> Head(Finished)]
    BY <1>1, <1>2 DEF Finished
  <1>6. InHand = {} /\ InHand' = {Head(Finished)}
    BY <1>1, <1>5 DEF InHand
  <1> QED BY <1>1, <1>3, <1>4, <1>5, <1>6, Zenon

(* Freeing a descriptor leaves the rest of its chain in hand, if there is    *)
(* one.                                                                      *)
LEMMA FreeMoves ==
    ASSUME TypeOK, Free
    PROVE  /\ Offered' = Offered /\ held' = held /\ Finished' = Finished
           /\ op.at = "free" /\ InHand = {op.i}
           /\ next[op.i] = None => op'.at = "collect" /\ op'.i = 0 /\ InHand' = {}
           /\ next[op.i] # None => op'.at = "free" /\ op'.i = next[op.i] /\ InHand' = {next[op.i]}
           /\ op' \in [at : {"free", "collect"}, i : Desc]
           /\ UNCHANGED <<buf, avail, used, seen, lastUsed>>
  <1>1. /\ op.at = "free" /\ UNCHANGED <<buf, avail, used, seen, lastUsed>> /\ held' = held
        /\ op' = IF next[op.i] = None THEN [at |-> "collect", i |-> 0] ELSE [op EXCEPT !.i = next[op.i]]
    BY DEF Free, FreeTo, device
  <1>2. op = [at |-> op.at, i |-> op.i] /\ op.i \in Desc /\ InHand = {op.i} /\ next[op.i] \in Desc \cup {None} /\ 0 \in Desc
    <2>1. next[op.i] \in Desc \cup {None}
      BY HandIs DEF TypeOK
    <2>2. 0 \in Desc
      BY SizeFacts DEF Desc
    <2> QED BY <1>1, <2>1, <2>2, HandIs, Zenon
  <1>3. /\ next[op.i] = None => op'.at = "collect" /\ op'.i = 0
        /\ next[op.i] # None => op'.at = "free" /\ op'.i = next[op.i]
        /\ op' \in [at : {"free", "collect"}, i : Desc]
    BY <1>1, <1>2
  <1>4. Offered' = Offered /\ Finished' = Finished
    BY <1>1 DEF Offered, Finished, Heads
  <1>5. /\ next[op.i] = None => InHand' = {}
        /\ next[op.i] # None => InHand' = {next[op.i]}
    BY <1>3 DEF InHand
  <1> QED BY <1>1, <1>2, <1>3, <1>4, <1>5, Zenon

(* collect ends with nothing in hand. *)
LEMMA CollectEndsMoves ==
    ASSUME TypeOK, CollectEnds
    PROVE  /\ Offered' = Offered /\ held' = held /\ Finished' = Finished
           /\ op.at = "collect" /\ op' = Idle
           /\ InHand = {} /\ InHand' = {}
           /\ UNCHANGED <<next, buf, data, first, free, avail, used, seen, lastUsed>>
  <1>1. /\ op.at = "collect" /\ op' = Idle /\ held' = held
        /\ UNCHANGED <<next, buf, data, first, free, avail, used, seen, lastUsed>>
    BY DEF CollectEnds, device
  <1>2. InHand = {} /\ InHand' = {}
    BY <1>1 DEF InHand, Idle
  <1>3. Offered' = Offered /\ Finished' = Finished
    BY <1>1 DEF Offered, Finished, Heads
  <1> QED BY <1>1, <1>2, <1>3, Zenon

(* The device takes the next head of the available ring. *)
LEMMA DeviceTakeMoves ==
    ASSUME TypeOK, DeviceTake
    PROVE  /\ Offered # <<>> /\ Offered' = Tail(Offered) /\ held' = held \cup {Head(Offered)}
           /\ Finished' = Finished /\ InHand' = InHand /\ seen' \in Idx
           /\ UNCHANGED <<next, buf, data, first, free, avail, used, lastUsed, op>>
  <1>1. /\ seen # avail.idx /\ held' = held \cup {avail.ring[seen % Size]} /\ seen' = Incr(seen)
        /\ UNCHANGED <<next, buf, data, first, free, avail, used, lastUsed, op>>
    BY DEF DeviceTake
  <1>2. /\ Heads(avail, seen) # <<>> /\ Head(Heads(avail, seen)) = avail.ring[seen % Size]
        /\ Heads(avail, Incr(seen)) = Tail(Heads(avail, seen))
    BY <1>1, RingsAre, Pop
  <1>3. seen' \in Idx
    BY <1>1, RingsAre, IncrIs, Zenon
  <1>4. Offered # <<>> /\ Offered' = Tail(Offered) /\ Finished' = Finished
    BY <1>1, <1>2, Zenon DEF Offered, Finished, Heads
  <1>5. InHand' = InHand
    BY <1>1 DEF InHand
  <1>6. held' = held \cup {Head(Offered)}
    BY <1>1, <1>2 DEF Offered
  <1> QED BY <1>1, <1>3, <1>4, <1>5, <1>6, Zenon

(* The device puts a head it holds into the used ring. *)
LEMMA DeviceUseMoves ==
    ASSUME TypeOK, Places, NEW h \in held, DeviceUse(h)
    PROVE  /\ Offered' = Offered /\ held' = held \ {h} /\ Finished' = Append(Finished, h)
           /\ InHand' = InHand /\ used' \in Ring /\ h \in Desc
           /\ UNCHANGED <<next, buf, data, first, free, avail, lastUsed, op, seen>>
  <1>1. /\ held' = held \ {h} /\ used' = [PushRing(used, h) EXCEPT !.idx = Incr(@)]
        /\ UNCHANGED <<next, buf, data, first, free, avail, lastUsed, op, seen>>
    BY DEF DeviceUse
  <1>2. h \in Desc
    BY DEF TypeOK
  <1>3. Ahead(used, lastUsed) < Size
    <2>1. Once(Finished) /\ h \notin Elems(Finished)
      BY DEF Places
    <2> QED BY <1>2, <2>1, RingsAre, RingRoom, Zenon DEF Finished
  <1> DEFINE r == PushRing(used, h)
  <1>4. /\ r \in Ring /\ r.idx = used.idx /\ r.ring[used.idx % Size] = h
        /\ Heads(r, lastUsed) = Heads(used, lastUsed)
    BY <1>2, <1>3, RingsAre, Push, Zenon
  <1>5. Ahead(r, lastUsed) < Size
    BY <1>3, <1>4, Zenon DEF Ahead
  <1>6. /\ [r EXCEPT !.idx = Incr(@)] \in Ring
        /\ Heads([r EXCEPT !.idx = Incr(@)], lastUsed) = Append(Heads(r, lastUsed), r.ring[r.idx % Size])
    BY <1>4, <1>5, RingsAre, Advance, Zenon
  <1>7. used' = [r EXCEPT !.idx = Incr(@)]
    BY <1>1, Zenon
  <1> HIDE DEF r
  <1>8. used' \in Ring /\ Heads(used', lastUsed) = Append(Heads(used, lastUsed), h)
    BY <1>4, <1>6, <1>7, ZenonT(40)
  <1>9. Offered' = Offered /\ Finished' = Append(Finished, h) /\ InHand' = InHand
    BY <1>1, <1>8, Zenon DEF Offered, Finished, Heads, InHand
  <1> QED BY <1>1, <1>2, <1>8, <1>9, Zenon

(* The steps that leave the descriptors as they are. *)
Quiet ==
    \/ Enqueue \/ Publish \/ Dequeue \/ CollectEnds \/ DeviceTake
    \/ \E h \in held : DeviceUse(h)

(* Heads that only move from place to place. *)
LEMMA QuietMoves ==
    ASSUME TypeOK, Places, Quiet
    PROVE  TypeOK' /\ Places' /\ InFlight' = InFlight /\ UNCHANGED <<next, buf, data, first, free>>
  <1> DEFINE a == Elems(Offered)
             u == Elems(Finished)
  <1>1. /\ a \subseteq Desc /\ u \subseteq Desc /\ held \subseteq Desc
        /\ Offered \in Seq(Desc) /\ Finished \in Seq(Desc)
    BY RingsAre DEF TypeOK
  <1>2. /\ Once(Offered) /\ Once(Finished) /\ a \cap held = {} /\ a \cap u = {} /\ held \cap u = {}
        /\ InHand \cap (a \cup held \cup u) = {}
        /\ op.at = "publish" => avail.ring[avail.idx % Size] = op.i
    BY Zenon DEF Places
  <1>3. InFlight = a \cup held \cup u \cup InHand /\ InFlight' = a' \cup held' \cup u' \cup InHand'
    BY Zenon DEF InFlight
  <1>4. Idle \in [at : {"idle", "enqueue", "publish", "free", "collect"}, i : Desc] /\ Idle.at = "idle"
    BY SizeFacts DEF Idle, Desc
  <1> DEFINE Rest == op'.at = "publish" => avail'.ring[avail'.idx % Size] = op'.i
  <1>5. ASSUME Once(Offered)', Once(Finished)',
               a' \cap held' = {}, a' \cap u' = {}, held' \cap u' = {},
               InHand' \cap (a' \cup held' \cup u') = {}, Rest
        PROVE  Places'
    BY <1>5, Zenon DEF Places
  <1>6. CASE Enqueue
    <2>1. /\ Offered' = Offered /\ held' = held /\ Finished' = Finished
          /\ op.at = "enqueue" /\ op' = [at |-> "publish", i |-> op.i]
          /\ InHand' = InHand /\ avail' \in Ring /\ avail'.ring[avail'.idx % Size] = op.i
          /\ UNCHANGED <<next, buf, data, first, free, used, seen, lastUsed>>
      BY <1>6, EnqueueMoves, Zenon
    <2>2. TypeOK'
      BY <2>1, HandIs DEF TypeOK
    <2>3. a' = a /\ u' = u /\ Once(Offered)' /\ Once(Finished)'
      BY <1>2, <2>1 DEF Elems, Once
    <2>4. Rest
      BY <2>1
    <2>5. Places'
      <3> HIDE DEF a, u, Rest
      <3> QED BY <1>2, <1>5, <2>1, <2>3, <2>4
    <2> QED BY <1>3, <2>1, <2>2, <2>3, <2>5, Zenon
  <1>7. CASE Publish
    <2>1. /\ Offered' = Append(Offered, op.i) /\ held' = held /\ Finished' = Finished
          /\ op.at = "publish" /\ op' = Idle
          /\ InHand = {op.i} /\ InHand' = {} /\ avail' \in Ring
          /\ UNCHANGED <<next, buf, data, first, free, used, seen, lastUsed>>
      BY <1>7, PublishMoves, Zenon
    <2>2. TypeOK'
      BY <1>4, <2>1 DEF TypeOK
    <2>3. op.i \in Desc /\ op.i \notin a
      BY <1>2, <2>1, HandIs, Zenon
    <2>4. Once(Append(Offered, op.i)) /\ Elems(Append(Offered, op.i)) = a \cup {op.i}
      BY <1>1, <1>2, <2>3, AppendOnce, Zenon
    <2>5. a' = a \cup {op.i} /\ u' = u /\ Once(Offered)' /\ Once(Finished)'
      BY <1>2, <2>1, <2>4 DEF Elems, Once
    <2>6. Rest
      BY <1>4, <2>1
    <2>7. Places'
      <3> HIDE DEF a, u, Rest
      <3> QED BY <1>2, <1>5, <2>1, <2>5, <2>6
    <2> QED BY <1>3, <2>1, <2>2, <2>5, <2>7, Zenon
  <1>8. CASE Dequeue
    <2>1. /\ Offered' = Offered /\ held' = held
          /\ Finished # <<>> /\ Finished' = Tail(Finished)
          /\ op.at \in {"idle", "collect"} /\ op' = [at |-> "free", i |-> Head(Finished)]
          /\ InHand = {} /\ InHand' = {Head(Finished)} /\ lastUsed' \in Idx
          /\ UNCHANGED <<next, buf, data, first, free, avail, used, seen>>
      BY <1>8, DequeueMoves, Zenon
    <2>2. /\ Head(Finished) \in u /\ Once(Tail(Finished))
          /\ Elems(Tail(Finished)) = u \ {Head(Finished)}
      BY <1>1, <1>2, <2>1, TailOnce, Zenon
    <2>3. TypeOK'
      <3>1. Head(Finished) \in Desc
        BY <1>1, <2>2, Zenon
      <3> HIDE DEF a, u
      <3> QED BY <2>1, <3>1 DEF TypeOK, Idx
    <2>4. a' = a /\ u' = u \ {Head(Finished)} /\ Once(Offered)' /\ Once(Finished)'
      <3>1. a' = a /\ u' = Elems(Tail(Finished))
        BY <2>1, Zenon DEF Elems
      <3>2. Once(Offered)' /\ Once(Finished)'
        BY <1>2, <2>1, <2>2, Zenon DEF Once
      <3> QED BY <2>2, <3>1, <3>2, Zenon
    <2>5. Rest
      BY <2>1
    <2>6. Places'
      <3> HIDE DEF a, u, Rest
      <3> QED BY <1>2, <1>5, <2>1, <2>2, <2>4, <2>5
    <2> QED BY <1>3, <2>1, <2>2, <2>3, <2>4, <2>6, Zenon
  <1>9. CASE CollectEnds
    <2>1. /\ Offered' = Offered /\ held' = held /\ Finished' = Finished
          /\ op.at = "collect" /\ op' = Idle
          /\ InHand = {} /\ InHand' = {}
          /\ UNCHANGED <<next, buf, data, first, free, avail, used, seen, lastUsed>>
      BY <1>9, CollectEndsMoves, Zenon
    <2>2. TypeOK'
      BY <1>4, <2>1 DEF TypeOK
    <2>3. a' = a /\ u' = u /\ Once(Offered)' /\ Once(Finished)'
      BY <1>2, <2>1 DEF Elems, Once
    <2>4. Rest
      BY <1>4, <2>1
    <2>5. Places'
      <3> HIDE DEF a, u, Rest
      <3> QED BY <1>2, <1>5, <2>1, <2>3, <2>4
    <2> QED BY <1>3, <2>1, <2>2, <2>3, <2>5, Zenon
  <1>10. CASE DeviceTake
    <2>1. /\ Offered # <<>> /\ Offered' = Tail(Offered) /\ held' = held \cup {Head(Offered)}
          /\ Finished' = Finished /\ InHand' = InHand /\ seen' \in Idx
          /\ UNCHANGED <<next, buf, data, first, free, avail, used, lastUsed, op>>
      BY <1>10, DeviceTakeMoves, Zenon
    <2>2. /\ Head(Offered) \in a /\ Once(Tail(Offered))
          /\ Elems(Tail(Offered)) = a \ {Head(Offered)}
      BY <1>1, <1>2, <2>1, TailOnce, Zenon
    <2>3. TypeOK'
      <3>1. Head(Offered) \in Desc
        BY <1>1, <2>2, Zenon
      <3> HIDE DEF a, u
      <3> QED BY <2>1, <3>1 DEF TypeOK, Idx
    <2>4. a' = a \ {Head(Offered)} /\ u' = u /\ Once(Offered)' /\ Once(Finished)'
      <3>1. a' = Elems(Tail(Offered)) /\ u' = u
        BY <2>1, Zenon DEF Elems
      <3>2. Once(Offered)' /\ Once(Finished)'
        BY <1>2, <2>1, <2>2, Zenon DEF Once
      <3> QED BY <2>2, <3>1, <3>2, Zenon
    <2>5. Rest
      BY <1>2, <2>1
    <2>6. Places'
      <3> HIDE DEF a, u, Rest
      <3> QED BY <1>2, <1>5, <2>1, <2>2, <2>4, <2>5
    <2> QED BY <1>3, <2>1, <2>2, <2>3, <2>4, <2>6, Zenon
  <1>11. ASSUME NEW h \in held, DeviceUse(h)
         PROVE  TypeOK' /\ Places' /\ InFlight' = InFlight /\ UNCHANGED <<next, buf, data, first, free>>
    <2>1. /\ Offered' = Offered /\ held' = held \ {h} /\ Finished' = Append(Finished, h)
          /\ InHand' = InHand /\ used' \in Ring /\ h \in Desc
          /\ UNCHANGED <<next, buf, data, first, free, avail, lastUsed, op, seen>>
      BY <1>11, DeviceUseMoves, Zenon
    <2>2. TypeOK'
      BY <2>1 DEF TypeOK
    <2>3. h \notin u
      BY <1>2, Zenon
    <2>4. Once(Append(Finished, h)) /\ Elems(Append(Finished, h)) = u \cup {h}
      BY <1>1, <1>2, <2>1, <2>3, AppendOnce, Zenon
    <2>5. a' = a /\ u' = u \cup {h} /\ Once(Offered)' /\ Once(Finished)'
      BY <1>2, <2>1, <2>4 DEF Elems, Once
    <2>6. Rest
      BY <1>2, <2>1
    <2>7. Places'
      <3> HIDE DEF a, u, Rest
      <3> QED BY <1>2, <1>5, <2>1, <2>5, <2>6
    <2> QED BY <1>3, <2>1, <2>2, <2>5, <2>7, Zenon
  <1> QED BY <1>6, <1>7, <1>8, <1>9, <1>10, <1>11, Zenon DEF Quiet
-----------------------------------------------------------------------------
(* Steps that leave the descriptors alone *)

(* The layout is the one that following next finds. *)
Unique ==
    \A list, chain : Layout(list, chain) =>
        /\ Path(first, free) = list /\ \A h \in InFlight : Chain(h) = chain[h]
        /\ Layout(Path(first, free), [h \in InFlight |-> Chain(h)])

(* Whatever sequences satisfy the layout, they are Path and Chain. *)
LEMMA UniqueIs == TypeOK => Unique
  <1> SUFFICES ASSUME TypeOK, NEW list, NEW chain, Layout(list, chain)
               PROVE  /\ Path(first, free) = list /\ \A h \in InFlight : Chain(h) = chain[h]
                      /\ Layout(Path(first, free), [h \in InFlight |-> Chain(h)])
    BY Zenon DEF Unique
  <1>1. next \in [Desc -> Desc \cup {None}] /\ free \in Nat
    BY DEF TypeOK
  <1>2. Path(first, free) = list
    <2>1. list \in [1 .. free -> Desc] /\ Linked(list) /\ (free > 0 => free > 0 /\ list[1] = first)
      BY Zenon DEF Layout
    <2>2. Path(first, free) = [i \in 1 .. free |-> IF i <= free THEN list[i] ELSE None]
      BY <1>1, <2>1, PathIs
    <2>3. \A i \in 1 .. free : i <= free
      BY <1>1
    <2> QED BY <2>1, <2>2, <2>3
  <1>3. ASSUME NEW h \in InFlight PROVE Chain(h) = chain[h]
    <2>1. IsChain(chain[h], h)
      BY Zenon DEF Layout
    <2> QED BY <1>1, <2>1, ChainIs, Zenon
  <1> DEFINE c == [h \in InFlight |-> Chain(h)]
  <1>4. \A h \in InFlight : c[h] = chain[h]
    BY <1>3, Zenon
  <1> HIDE DEF c
  <1>5. Layout(list, c)
    <2>1. \A h \in InFlight : IsChain(c[h], h)
      BY <1>4 DEF Layout
    <2>2. \A g, h \in InFlight : g # h => Elems(c[g]) \cap Elems(c[h]) = {}
      BY <1>4 DEF Layout
    <2>3. \A d \in Desc : data[d] # None <=> \E h \in InFlight : d \in Elems(c[h])
      BY <1>4 DEF Layout
    <2> QED BY <2>1, <2>2, <2>3, Zenon DEF Layout
  <1> QED BY <1>2, <1>3, <1>5, Zenon DEF c

(* A head starts its chain, and its descriptor is in use. *)
LEMMA HeadFacts ==
    ASSUME TypeOK, NEW list, NEW chain, Layout(list, chain), NEW h \in InFlight
    PROVE  /\ h \in Desc /\ h \in Elems(chain[h]) /\ data[h] # None
           /\ \E m \in 1 .. Size : chain[h] \in [1 .. m -> Desc]
           /\ chain[h][1] = h /\ Once(chain[h]) /\ Linked(chain[h])
           /\ \A x \in Elems(chain[h]) : x \in Desc /\ data[x] # None
  <1>1. IsChain(chain[h], h)
    BY Zenon DEF Layout
  <1>2. PICK m \in 1 .. Size : chain[h] \in [1 .. m -> Desc]
    BY <1>1, Zenon DEF IsChain
  <1>3. chain[h][1] = h /\ Once(chain[h]) /\ Linked(chain[h])
    BY <1>1, Zenon DEF IsChain
  <1>4. 1 \in 1 .. m
    BY <1>2, SizeFacts
  <1>5. h \in Desc /\ h \in Elems(chain[h])
    BY <1>2, <1>3, <1>4, Zenon DEF Elems
  <1>6. ASSUME NEW x \in Elems(chain[h]) PROVE x \in Desc /\ data[x] # None
    <2>1. x \in Desc
      BY <1>2, Zenon DEF Elems
    <2> QED BY <2>1, Zenon DEF Layout
  <1> QED BY <1>2, <1>3, <1>5, <1>6, Zenon

(* The layout does not depend on anything else than next, first, free and    *)
(* data.                                                                     *)
LEMMA LayoutKept ==
    ASSUME InFlight' = InFlight, UNCHANGED <<next, data, first, free>>,
           NEW list, NEW chain, Layout(list, chain)
    PROVE  Layout(list, chain)'
  <1>1. InFlight' = InFlight /\ next' = next /\ data' = data /\ first' = first /\ free' = free
    BY Zenon
  <1>2. \A s : Linked(s) => Linked(s)'
    BY <1>1 DEF Linked
  <1>3. \A h \in InFlight : IsChain(chain[h], h)'
    <2> SUFFICES ASSUME NEW h \in InFlight PROVE IsChain(chain[h], h)'
      OBVIOUS
    <2>1. IsChain(chain[h], h)
      BY Zenon DEF Layout
    <2> QED BY <1>2, <2>1, Zenon DEF IsChain
  <1>4. list \in [1 .. free' -> Desc] /\ Once(list) /\ Linked(list)' /\ (free' > 0 => list[1] = first')
    BY <1>1, <1>2 DEF Layout
  <1>5. /\ \A d \in Desc : data'[d] = None <=> d \in Elems(list)
        /\ \A g, h \in InFlight' : g # h => Elems(chain[g]) \cap Elems(chain[h]) = {}
        /\ \A d \in Desc : data'[d] # None <=> \E h \in InFlight' : d \in Elems(chain[h])
    BY <1>1, SMTT(20) DEF Layout
  <1>6. \A h \in InFlight' : IsChain(chain[h], h)'
    BY <1>1, <1>3
  <1> QED BY <1>4, <1>5, <1>6, Zenon DEF Layout

(* A step that leaves next alone leaves the chains as they are. *)
LEMMA ChainKept ==
    ASSUME next' = next, NEW h
    PROVE  Chain(h)' = Chain(h)
  <1>1. Path(h, Size)' = Path(h, Size)
    BY Zenon DEF Path
  <1> QED BY <1>1 DEF Chain

(* What is behind a head does not change in a quiet step. *)
LEMMA QuietContents ==
    ASSUME TypeOK, Places, Quiet, Contents
    PROVE  Contents'
  <1>1. next' = next /\ data' = data /\ buf' = buf
    BY QuietMoves, Zenon
  <1>2. /\ \A d \in Desc : data'[d] # None => data'[d] = buf'[d]
        /\ \A d, e \in Desc : data'[d] = data'[e] /\ data'[d] # None => d = e
    BY <1>1 DEF Contents
  <1>3. ASSUME NEW h PROVE Behind(h)' = Behind(h)
    <2>1. Chain(h)' = Chain(h)
      BY <1>1, ChainKept, Zenon
    <2> QED BY <1>1, <2>1, Zenon DEF Behind, Through
  <1>4. op'.at \in {"enqueue", "publish"} => op.at \in {"enqueue", "publish"} /\ op'.i = op.i
    <2>1. CASE Enqueue
      BY <2>1, EnqueueMoves
    <2>2. CASE Publish \/ CollectEnds
      BY <2>2, PublishMoves, CollectEndsMoves DEF Idle
    <2>3. CASE Dequeue
      BY <2>3, DequeueMoves
    <2>4. CASE DeviceTake \/ \E h \in held : DeviceUse(h)
      BY <2>4 DEF DeviceTake, DeviceUse
    <2> QED BY <2>1, <2>2, <2>3, <2>4, Zenon DEF Quiet
  <1>5. ASSUME op'.at \in {"enqueue", "publish"} PROVE Behind(op.i)' \in Batch
    <2>1. PICK h : h = op.i
      OBVIOUS
    <2>2. Behind(h) \in Batch
      BY <1>4, <1>5, <2>1, Zenon DEF Contents
    <2>3. Behind(h)' \in Batch /\ h = op'.i
      BY <1>3, <1>4, <1>5, <2>1, <2>2, Zenon
    <2> QED BY <2>3, Zenon
  <1> QED BY <1>2, <1>5, Zenon DEF Contents
-----------------------------------------------------------------------------
(* transfer *)

(* Buffers of one transfer. *)
LEMMA BatchIs ==
    ASSUME NEW bs \in Batch
    PROVE  /\ Len(bs) \in 1 .. MaxBatch /\ bs \in [1 .. Len(bs) -> Buffer] /\ DOMAIN bs = 1 .. Len(bs)
           /\ \A i, j \in 1 .. Len(bs) : bs[i] = bs[j] => i = j
  <1>1. PICK n \in 1 .. MaxBatch :
            bs \in [1 .. n -> Buffer] /\ \A i, j \in 1 .. n : bs[i] = bs[j] => i = j
    BY Zenon DEF Batch
  <1>2. n \in Nat
    BY <1>1, VirtQueueAssumption
  <1>3. Len(bs) = n
    BY <1>1, <1>2
  <1> QED BY <1>1, <1>3

(* None is no buffer. *)
LEMMA NoneFree == None \notin Buffer
  BY VirtQueueAssumption

(* What transfer does to the descriptors, when list is the free list. *)
TakesFrom(list, bs, n) ==
    /\ n \in 1 .. free /\ list[1] = first
    /\ next' = [next EXCEPT ![list[n]] = None]
    /\ first' = (IF free = n THEN list[n] ELSE next[list[n]]) /\ free' = free - n
    /\ buf' \in [Desc -> Buffer \cup {None}] /\ data' \in [Desc -> Buffer \cup {None}]
    /\ \A i \in 1 .. n : buf'[list[i]] = bs[i] /\ data'[list[i]] = bs[i]
    /\ \A d \in Desc : (\A i \in 1 .. n : list[i] # d) => buf'[d] = buf[d] /\ data'[d] = data[d]

(* transfer takes the first Len(bs) descriptors of the free list. *)
LEMMA TransferIs ==
    ASSUME TypeOK, NEW list, NEW chain, Layout(list, chain), NEW bs \in Batch, Transfer(bs),
           NEW n, n = Len(bs)
    PROVE  TakesFrom(list, bs, n)
  <1> DEFINE path == Path(first, n)
             taken == {path[i] : i \in 1 .. n}
             at(d) == CHOOSE i \in 1 .. n : path[i] = d
  <1>1. /\ n \in 1 .. MaxBatch /\ bs \in [1 .. n -> Buffer]
        /\ \A i, j \in 1 .. n : bs[i] = bs[j] => i = j
    BY BatchIs, Zenon
  <1>2. /\ free >= n
        /\ buf' = [d \in Desc |-> IF d \in taken THEN bs[at(d)] ELSE buf[d]]
        /\ data' = [d \in Desc |-> IF d \in taken THEN bs[at(d)] ELSE data[d]]
        /\ next' = [next EXCEPT ![path[n]] = None]
        /\ first' = IF free = n THEN path[n] ELSE next[path[n]]
        /\ free' = free - n
    BY DEF Transfer, Take
  <1>3. n \in 1 .. free /\ n \in Nat /\ free \in Nat /\ next \in [Desc -> Desc \cup {None}]
    BY <1>1, <1>2, VirtQueueAssumption DEF TypeOK
  <1>4. list \in [1 .. free -> Desc] /\ Linked(list) /\ Once(list) /\ list[1] = first
    BY <1>3 DEF Layout
  <1>5. path = [i \in 1 .. n |-> IF i <= free THEN list[i] ELSE None]
    <2>1. n > 0 => free > 0 /\ list[1] = first
      BY <1>3, <1>4
    <2> QED BY <1>3, <1>4, <2>1, PathIs
  <1> HIDE DEF path
  <1>6. \A i \in 1 .. n : path[i] = list[i] /\ list[i] \in Desc /\ i \in 1 .. free
    BY <1>3, <1>4, <1>5
  <1>7. \A i, j \in 1 .. n : path[i] = path[j] => i = j
    BY <1>4, <1>6 DEF Once
  <1>8. ASSUME NEW i \in 1 .. n PROVE path[i] \in taken /\ at(path[i]) = i
    BY <1>7
  <1>9. \A i \in 1 .. n : buf'[list[i]] = bs[i] /\ data'[list[i]] = bs[i]
    <2> HIDE DEF taken, at
    <2> QED BY <1>2, <1>6, <1>8
  <1>10. ASSUME NEW d \in Desc, \A i \in 1 .. n : list[i] # d
         PROVE  d \notin taken /\ buf'[d] = buf[d] /\ data'[d] = data[d]
    <2>1. d \notin taken
      BY <1>6, <1>10
    <2> HIDE DEF taken, at
    <2> QED BY <1>2, <2>1
  <1>11. ASSUME NEW d \in Desc
         PROVE  buf'[d] \in Buffer \cup {None} /\ data'[d] \in Buffer \cup {None}
    <2>1. CASE \E i \in 1 .. n : list[i] = d
      BY <1>1, <1>9, <2>1
    <2>2. CASE \A i \in 1 .. n : list[i] # d
      BY <1>10, <2>2 DEF TypeOK
    <2> QED BY <2>1, <2>2, Zenon
  <1>12. buf' \in [Desc -> Buffer \cup {None}] /\ data' \in [Desc -> Buffer \cup {None}]
    <2> HIDE DEF taken, at
    <2> QED BY <1>2, <1>11
  <1>13. path[n] = list[n]
    BY <1>3, <1>6
  <1> QED BY <1>2, <1>3, <1>4, <1>9, <1>10, <1>12, <1>13, Zenon DEF TakesFrom

(* The new free list and the new chain. *)
Rest(list, n, k) == [i \in 1 .. k - n |-> list[i + n]]
(* The first n members of a list. *)
Front(list, n) == [i \in 1 .. n |-> list[i]]

(* The list of length k, split after its first n members. *)
IsSplit(list, n, k) ==
    /\ Rest(list, n, k) \in [1 .. k - n -> Desc] /\ Once(Rest(list, n, k))
    /\ Front(list, n) \in [1 .. n -> Desc] /\ Once(Front(list, n)) /\ Front(list, n)[1] = list[1]
    /\ \A x : x \in Elems(Front(list, n)) <=> \E i \in 1 .. n : x = list[i]
    /\ Elems(Rest(list, n, k)) = Elems(list) \ Elems(Front(list, n))

(* Both parts of a list without repetition, and what they have in common:    *)
(* nothing.                                                                  *)
LEMMA SplitList ==
    ASSUME NEW k \in Nat, NEW n \in 1 .. k, NEW list \in [1 .. k -> Desc], Once(list)
    PROVE  IsSplit(list, n, k)
  <1> DEFINE r == Rest(list, n, k)
             f == Front(list, n)
  <1>1. \A i \in 1 .. k - n : i + n \in 1 .. k /\ i + n \notin 1 .. n
    OBVIOUS
  <1>2. \A i \in 1 .. n : i \in 1 .. k
    OBVIOUS
  <1>3. r \in [1 .. k - n -> Desc] /\ \A i \in 1 .. k - n : r[i] = list[i + n]
    BY <1>1 DEF Rest
  <1>4. f \in [1 .. n -> Desc] /\ \A i \in 1 .. n : f[i] = list[i]
    BY <1>2, Zenon DEF Front
  <1>5. Once(r)
    <2> HIDE DEF r
    <2> SUFFICES ASSUME NEW i \in 1 .. k - n, NEW j \in 1 .. k - n, r[i] = r[j] PROVE i = j
      BY <1>3, Zenon DEF Once
    <2>1. i + n = j + n
      BY <1>1, <1>3, Zenon DEF Once
    <2> QED BY <2>1
  <1>6. Once(f)
    BY <1>2, <1>4, Zenon DEF Once
  <1>7. f[1] = list[1]
    BY <1>4
  <1>8. \A x : x \in Elems(f) <=> \E i \in 1 .. n : x = list[i]
    BY <1>4, Zenon DEF Elems
  <1>9. ASSUME NEW x \in Elems(r) PROVE x \in Elems(list) /\ x \notin Elems(f)
    <2>1. PICK i \in 1 .. k - n : x = list[i + n]
      BY <1>3, Zenon DEF Elems
    <2>2. ASSUME NEW j \in 1 .. n PROVE x # list[j]
      <3>1. j # i + n /\ j \in 1 .. k /\ i + n \in 1 .. k
        BY <1>1, <1>2, Zenon
      <3> QED BY <2>1, <3>1, Zenon DEF Once
    <2>3. x \notin Elems(f)
      BY <1>8, <2>2, Zenon
    <2> QED BY <1>1, <2>1, <2>3, Zenon DEF Elems
  <1>10. ASSUME NEW x \in Elems(list), x \notin Elems(f) PROVE x \in Elems(r)
    <2>1. PICK i \in 1 .. k : x = list[i]
      BY Zenon DEF Elems
    <2>2. i \notin 1 .. n
      BY <1>8, <1>10, <2>1, Zenon
    <2>3. i - n \in 1 .. k - n /\ (i - n) + n = i
      BY <2>1, <2>2
    <2>4. r[i - n] = list[i]
      BY <1>3, <2>3
    <2> QED BY <1>3, <2>1, <2>3, <2>4, Zenon DEF Elems
  <1> QED BY <1>3, <1>4, <1>5, <1>6, <1>7, <1>8, <1>9, <1>10, Zenon DEF IsSplit

(* transfer takes the head of the new chain in hand. *)
LEMMA TransferPlaces ==
    ASSUME TypeOK, Places, NEW list, NEW chain, Layout(list, chain), NEW bs \in Batch, Transfer(bs)
    PROVE  TypeOK' /\ Places' /\ InFlight' = InFlight \cup {first} /\ first \notin InFlight
  <1> DEFINE n == Len(bs)
  <1>1. /\ n \in 1 .. free /\ list[1] = first
        /\ next' = [next EXCEPT ![list[n]] = None]
        /\ first' = (IF free = n THEN list[n] ELSE next[list[n]]) /\ free' = free - n
        /\ buf' \in [Desc -> Buffer \cup {None}] /\ data' \in [Desc -> Buffer \cup {None}]
    <2>1. TakesFrom(list, bs, n)
      BY TransferIs
    <2> QED BY <2>1, Zenon DEF TakesFrom
  <1> HIDE DEF n
  <1>2. /\ Offered' = Offered /\ held' = held /\ Finished' = Finished
        /\ op.at = "idle" /\ op' = [at |-> "enqueue", i |-> first]
        /\ InHand = {} /\ InHand' = {first}
        /\ UNCHANGED <<avail, used, seen, lastUsed>>
    BY TransferMoves, Zenon
  <1>3. list \in [1 .. free -> Desc] /\ Once(list) /\ Linked(list) /\ free \in Nat /\ free <= Size
    BY DEF Layout, TypeOK
  <1>4. data[first] = None /\ first \in Desc
    <2>1. 1 \in 1 .. free
      BY <1>1, <1>3
    <2>2. first \in Elems(list) /\ first \in Desc
      BY <1>1, <1>3, <2>1, Zenon DEF Elems
    <2> QED BY <2>2, Zenon DEF Layout
  <1>5. first \notin InFlight
    BY <1>4, HeadFacts, Zenon
  <1>6. InFlight' = InFlight \cup {first}
    <2>1. Elems(Offered)' = Elems(Offered) /\ Elems(Finished)' = Elems(Finished)
      BY <1>2, Zenon DEF Elems
    <2> QED BY <1>2, <2>1, Zenon DEF InFlight
  <1>7. first' \in Desc
    <2>1. n \in DOMAIN list /\ (free # n => n + 1 \in DOMAIN list)
      BY <1>1, <1>3
    <2>2. free # n => next[list[n]] = list[n + 1]
      BY <1>3, <2>1 DEF Linked
    <2> QED BY <1>1, <1>3, <2>1, <2>2
  <1>8. next' \in [Desc -> Desc \cup {None}]
    BY <1>1, Zenon DEF TypeOK
  <1>9. TypeOK'
    <2>1. free' \in 0 .. Size
      BY <1>1, <1>3, SizeFacts
    <2>2. op' \in [at : {"idle", "enqueue", "publish", "free", "collect"}, i : Desc]
      BY <1>2, <1>4
    <2> QED BY <1>1, <1>2, <1>7, <1>8, <2>1, <2>2 DEF TypeOK
  <1>10. Places'
    <2>1. /\ Once(Offered)' /\ Once(Finished)'
          /\ Elems(Offered)' = Elems(Offered) /\ Elems(Finished)' = Elems(Finished)
      BY <1>2, Zenon DEF Once, Elems, Places
    <2>2. op'.at # "publish"
      BY <1>2
    <2>3. first \notin Elems(Offered) \cup held \cup Elems(Finished)
      BY <1>5, Zenon DEF InFlight
    <2>4. InHand' \cap (Elems(Offered)' \cup held' \cup Elems(Finished)') = {}
      BY <1>2, <2>1, <2>3, Zenon
    <2>5. /\ Elems(Offered)' \cap held' = {} /\ Elems(Offered)' \cap Elems(Finished)' = {}
          /\ held' \cap Elems(Finished)' = {}
      BY <1>2, <2>1 DEF Places
    <2> QED BY <2>1, <2>2, <2>4, <2>5, Zenon DEF Places
  <1> QED BY <1>5, <1>6, <1>9, <1>10, Zenon

(* After transfer the rest of the free list and the new chain are laid out,  *)
(* and nothing else moves.                                                   *)
LEMMA TransferLayout ==
    ASSUME TypeOK, Places, NEW list, NEW chain, Layout(list, chain), NEW bs \in Batch, Transfer(bs),
           NEW n, n = Len(bs), NEW list2, list2 = Rest(list, n, free), NEW front, front = Front(list, n),
           NEW chain2, chain2 = [h \in InFlight \cup {first} |-> IF h = first THEN front ELSE chain[h]]
    PROVE  Layout(list2, chain2)'
  <1> DEFINE T == Elems(front)
  <1>1. /\ n \in 1 .. free /\ list[1] = first
        /\ next' = [next EXCEPT ![list[n]] = None]
        /\ first' = (IF free = n THEN list[n] ELSE next[list[n]]) /\ free' = free - n
        /\ \A i \in 1 .. n : data'[list[i]] = bs[i]
        /\ \A d \in Desc : (\A i \in 1 .. n : list[i] # d) => data'[d] = data[d]
    <2>1. TakesFrom(list, bs, n)
      BY TransferIs
    <2> QED BY <2>1 DEF TakesFrom
  <1>2. InFlight' = InFlight \cup {first} /\ first \notin InFlight
    BY TransferPlaces, Zenon
  <1>3. /\ list \in [1 .. free -> Desc] /\ Once(list) /\ Linked(list) /\ free \in Nat /\ free <= Size
        /\ next \in [Desc -> Desc \cup {None}]
        /\ \A d \in Desc : data[d] = None <=> d \in Elems(list)
        /\ \A d \in Desc : data[d] # None <=> \E h \in InFlight : d \in Elems(chain[h])
        /\ \A g, h \in InFlight : g # h => Elems(chain[g]) \cap Elems(chain[h]) = {}
    <2>1. free \in Nat /\ free <= Size /\ next \in [Desc -> Desc \cup {None}]
      BY DEF TypeOK
    <2> QED BY <2>1, Zenon DEF Layout
  <1>4. /\ list2 \in [1 .. free - n -> Desc] /\ Once(list2)
        /\ front \in [1 .. n -> Desc] /\ Once(front) /\ front[1] = list[1]
        /\ \A x : x \in T <=> \E i \in 1 .. n : x = list[i]
        /\ Elems(list2) = Elems(list) \ T
    <2>1. free \in Nat /\ n \in 1 .. free /\ list \in [1 .. free -> Desc] /\ Once(list)
      BY <1>1, <1>3, Zenon
    <2>2. IsSplit(list, n, free)
      BY <2>1, SplitList, SMTT(20)
    <2> QED BY <2>2, Zenon DEF IsSplit
  <1> HIDE DEF T
  <1>5. n \in DOMAIN list /\ list[n] \in Desc /\ n \in Nat /\ n > 0 /\ n <= free
    BY <1>1, <1>3
  <1>6. T \subseteq Elems(list) /\ T \subseteq Desc /\ list[n] \in T
    <2>1. \A i \in 1 .. n : i \in 1 .. free
      BY <1>3, <1>5
    <2>2. n \in 1 .. n
      BY <1>5, SMTT(20)
    <2>3. T \subseteq Elems(list) /\ list[n] \in T
      BY <1>3, <1>4, <2>1, <2>2, SMTT(20) DEF Elems
    <2>4. Elems(list) \subseteq Desc
      BY <1>3 DEF Elems
    <2> QED BY <2>3, <2>4, Zenon
  <1>7. /\ \A d \in T : data'[d] # None
        /\ \A d \in Desc \ T : data'[d] = data[d]
    <2>1. \A i \in 1 .. n : bs[i] \in Buffer
      BY BatchIs, Zenon
    <2>2. ASSUME NEW d \in T PROVE data'[d] # None
      <3>1. PICK i \in 1 .. n : d = list[i]
        BY <1>4, Zenon
      <3> QED BY <1>1, <2>1, <3>1, NoneFree
    <2>3. ASSUME NEW d \in Desc \ T PROVE data'[d] = data[d]
      <3>1. \A i \in 1 .. n : list[i] # d
        BY <1>4, Zenon
      <3> QED BY <1>1, <3>1, Zenon
    <2> QED BY <2>2, <2>3, Zenon
  <1>8. next'[list[n]] = None /\ \A d \in Desc : d # list[n] => next'[d] = next[d]
    BY <1>1, <1>3, <1>5
  <1>9. Linked(list2)'
    <2> SUFFICES ASSUME NEW i \in 1 .. free - n
                 PROVE  next'[list2[i]] = IF i + 1 \in 1 .. free - n THEN list2[i + 1] ELSE None
      BY <1>4, Zenon DEF Linked
    <2>1. i + n \in 1 .. free /\ i + n # n
      BY <1>3, <1>5, SMTT(20)
    <2>2. list2[i] = list[i + n] /\ list2[i] \in Desc /\ list[i + n] # list[n]
      BY <1>3, <1>4, <1>5, <2>1, SMTT(20) DEF Rest, Once
    <2>3. next[list[i + n]] = IF i + n + 1 \in 1 .. free THEN list[i + n + 1] ELSE None
      BY <1>3, <2>1 DEF Linked
    <2>4. CASE i + 1 \in 1 .. free - n
      <3>1. list2[i + 1] = list[i + n + 1] /\ i + n + 1 \in 1 .. free
        <4>1. list2[i + 1] = list[(i + 1) + n]
          BY <2>4, Zenon DEF Rest
        <4>2. (i + 1) + n = i + n + 1 /\ i + n + 1 \in 1 .. free
          BY <1>3, <1>5, <2>4
        <4> QED BY <4>1, <4>2, Zenon
      <3> QED BY <1>8, <2>2, <2>3, <2>4, <3>1, Zenon
    <2>5. CASE i + 1 \notin 1 .. free - n
      <3>1. i + n + 1 \notin 1 .. free
        BY <1>3, <1>5, <2>5
      <3> QED BY <1>8, <2>2, <2>3, <2>5, <3>1, ZenonT(40)
    <2> QED BY <2>4, <2>5, Zenon
  <1>10. free' > 0 => list2[1] = first'
    <2> SUFFICES ASSUME free - n > 0 PROVE list2[1] = first'
      BY <1>1, SMTT(20)
    <2>1. 1 \in 1 .. free - n /\ n + 1 \in DOMAIN list /\ free # n /\ 1 + n = n + 1
      BY <1>3, <1>5
    <2>2. list2[1] = list[n + 1]
      BY <2>1 DEF Rest
    <2>3. next[list[n]] = list[n + 1]
      BY <1>3, <1>5, <2>1, ZenonT(40) DEF Linked
    <2> QED BY <1>1, <2>1, <2>2, <2>3, ZenonT(40)
  <1>11. \A d \in Desc : data'[d] = None <=> d \in Elems(list2)
    BY <1>3, <1>4, <1>7, SMTT(20)
  <1>12. PICK f : f = first
    OBVIOUS
  <1>0. IsChain(front, f)'
    <2>1. Linked(front)'
      <3> SUFFICES ASSUME NEW i \in 1 .. n
                   PROVE  next'[front[i]] = IF i + 1 \in 1 .. n THEN front[i + 1] ELSE None
        BY <1>4, Zenon DEF Linked
      <3>1. front[i] = list[i] /\ list[i] \in Desc /\ i \in 1 .. free
        BY <1>3, <1>5 DEF Front
      <3>2. CASE i = n
        <4>1. i + 1 \notin 1 .. n
          BY <1>5, <3>2
        <4> QED BY <1>8, <3>1, <3>2, <4>1, Zenon
      <3>3. CASE i # n
        <4>1. i + 1 \in 1 .. n /\ i + 1 \in 1 .. free
          BY <1>3, <1>5, <3>3
        <4>2. front[i + 1] = list[i + 1] /\ next[list[i]] = list[i + 1]
          BY <1>3, <3>1, <4>1, Zenon DEF Linked, Front
        <4>3. list[i] # list[n]
          BY <1>3, <1>5, <3>1, <3>3, Zenon DEF Once
        <4> QED BY <1>8, <3>1, <4>1, <4>2, <4>3, ZenonT(40)
      <3> QED BY <3>2, <3>3, Zenon
    <2>2. n \in 1 .. Size
      BY <1>3, <1>5, SizeFacts
    <2>3. front[1] = f
      BY <1>1, <1>4, <1>12, Zenon
    <2> QED BY <1>4, <2>1, <2>2, <2>3, Zenon DEF IsChain
  <1>13. ASSUME NEW h \in InFlight
         PROVE  IsChain(chain[h], h)' /\ Elems(chain[h]) \cap T = {}
    <2>1. /\ \E m \in 1 .. Size : chain[h] \in [1 .. m -> Desc]
          /\ chain[h][1] = h /\ Once(chain[h]) /\ Linked(chain[h])
          /\ \A x \in Elems(chain[h]) : x \in Desc /\ data[x] # None
      BY HeadFacts, Zenon
    <2>2. Elems(chain[h]) \cap T = {}
      BY <1>3, <1>6, <2>1, Zenon
    <2>3. \A i \in DOMAIN chain[h] : next'[chain[h][i]] = next[chain[h][i]]
      BY <1>6, <1>8, <2>1, <2>2, ZenonT(40) DEF Elems
    <2>4. Linked(chain[h])'
      BY <2>1, <2>3 DEF Linked
    <2> QED BY <2>1, <2>2, <2>4, Zenon DEF IsChain
  <1>14. chain2[first] = front /\ \A h \in InFlight : chain2[h] = chain[h]
    BY <1>2, Zenon
  <1>15. \A h \in InFlight' : IsChain(chain2[h], h)'
    <2> SUFFICES ASSUME NEW h \in InFlight \cup {first} PROVE IsChain(chain2[h], h)'
      BY <1>2, Zenon
    <2>1. CASE h = first
      BY <1>12, <1>0, <1>14, <2>1, Zenon
    <2>2. CASE h \in InFlight
      BY <1>13, <1>14, <2>2, Zenon
    <2> QED BY <2>1, <2>2, Zenon
  <1>16. \A g, h \in InFlight' : g # h => Elems(chain2[g]) \cap Elems(chain2[h]) = {}
    <2> SUFFICES ASSUME NEW g \in InFlight \cup {first}, NEW h \in InFlight \cup {first}, g # h
                 PROVE  Elems(chain2[g]) \cap Elems(chain2[h]) = {}
      BY <1>2, Zenon
    <2>1. CASE g \in InFlight /\ h \in InFlight
      BY <1>3, <1>14, <2>1, Zenon
    <2>2. CASE g = first /\ h \in InFlight
      BY <1>4, <1>13, <1>14, <2>2, SMTT(20) DEF T
    <2>3. CASE h = first /\ g \in InFlight
      BY <1>4, <1>13, <1>14, <2>3 DEF T
    <2> QED BY <2>1, <2>2, <2>3, Zenon
  <1>17. \A d \in Desc : data'[d] # None <=> \E h \in InFlight' : d \in Elems(chain2[h])
    <2> SUFFICES ASSUME NEW d \in Desc
                 PROVE  data'[d] # None <=> \E h \in InFlight \cup {first} : d \in Elems(chain2[h])
      BY <1>2, Zenon
    <2>1. CASE d \in T
      BY <1>4, <1>7, <1>14, <2>1, Zenon DEF T
    <2>2. CASE d \notin T
      <3>1. data'[d] # None <=> \E h \in InFlight : d \in Elems(chain[h])
        BY <1>3, <1>7, <2>2, Zenon
      <3> QED BY <1>4, <1>14, <2>2, <3>1, Zenon DEF T
    <2> QED BY <2>1, <2>2, Zenon
  <1>18. list2 \in [1 .. free' -> Desc]
    BY <1>1, <1>4, Zenon
  <1> QED BY <1>4, <1>9, <1>10, <1>11, <1>15, <1>16, <1>17, <1>18, ZenonT(40) DEF Layout

(* transfer preserves the invariant. *)
LEMMA TransferStep ==
    ASSUME IndInv, NEW bs \in Batch, \A i \in DOMAIN bs : bs[i] \in Unused, Transfer(bs)
    PROVE  IndInv' /\ \A h \in InFlight : Behind(h)' = Behind(h)
  <1>1. TypeOK /\ Places /\ Contents
    BY Zenon DEF IndInv
  <1>2. PICK list, chain : Layout(list, chain)
    BY Zenon DEF IndInv
  <1>3. PICK n : n = Len(bs)
    BY Zenon
  <1>4. PICK f : f = first
    OBVIOUS
  <1>5. PICK front : front = Front(list, n)
    OBVIOUS
  <1>6. PICK list2 : list2 = Rest(list, n, free)
    OBVIOUS
  <1>7. PICK chain2 : chain2 = [h \in InFlight \cup {first} |-> IF h = first THEN front ELSE chain[h]]
    BY Zenon
  <1>8. TypeOK' /\ Places' /\ InFlight' = InFlight \cup {first} /\ first \notin InFlight
    BY <1>1, <1>2, TransferPlaces, Zenon
  <1>9. Layout(list2, chain2)'
    BY <1>1, <1>2, <1>3, <1>5, <1>6, <1>7, TransferLayout, ZenonT(40)
  <1>10. Unique'
    BY <1>8, UniqueIs, PTL
  <1>11. Layout(Path(first, free), [h \in InFlight |-> Chain(h)])'
    BY <1>9, <1>10, Zenon DEF Unique
  <1>12. Chain(f)' = front
    <2>1. f \in InFlight' /\ chain2[f] = front
      BY <1>4, <1>7, <1>8, Zenon
    <2>2. Chain(f)' = chain2[f]
      BY <1>9, <1>10, <2>1, Zenon DEF Unique
    <2> QED BY <2>1, <2>2, Zenon
  <1>13. TakesFrom(list, bs, n)
    BY <1>1, <1>2, <1>3, TransferIs
  <1>14. /\ bs \in [1 .. n -> Buffer] /\ \A i, j \in 1 .. n : bs[i] = bs[j] => i = j
         /\ DOMAIN bs = 1 .. n
    BY <1>3, BatchIs, Zenon
  <1>15. /\ \A i \in 1 .. n : buf'[list[i]] = bs[i] /\ data'[list[i]] = bs[i]
         /\ \A d \in Desc : (\A i \in 1 .. n : list[i] # d) => buf'[d] = buf[d] /\ data'[d] = data[d]
    BY <1>13, Zenon DEF TakesFrom
  <1>16. \A d \in Desc : data'[d] # None => data'[d] = buf'[d]
    <2> SUFFICES ASSUME NEW d \in Desc, data'[d] # None PROVE data'[d] = buf'[d]
      BY Zenon
    <2>1. CASE \E i \in 1 .. n : list[i] = d
      BY <1>15, <2>1, Zenon
    <2>2. CASE \A i \in 1 .. n : list[i] # d
      <3>1. data'[d] = data[d] /\ buf'[d] = buf[d]
        BY <1>15, <2>2, Zenon
      <3> QED BY <1>1, <3>1, Zenon DEF Contents
    <2> QED BY <2>1, <2>2, Zenon
  <1>17. \A d, e \in Desc : data'[d] = data'[e] /\ data'[d] # None => d = e
    <2> SUFFICES ASSUME NEW d \in Desc, NEW e \in Desc, data'[d] = data'[e], data'[d] # None
                 PROVE  d = e
      BY Zenon
    <2>1. \A i \in 1 .. n : \A x \in Desc : bs[i] # data[x]
      BY <1>14 DEF Unused
    <2>2. CASE (\E i \in 1 .. n : list[i] = d) /\ (\E i \in 1 .. n : list[i] = e)
      <3>1. PICK i \in 1 .. n, j \in 1 .. n : list[i] = d /\ list[j] = e
        BY <2>2, Zenon
      <3>2. data'[d] = bs[i] /\ data'[e] = bs[j]
        BY <1>15, <3>1, Zenon
      <3>3. i = j
        BY <1>14, <3>2, Zenon
      <3> QED BY <3>1, <3>3
    <2>3. CASE (\E i \in 1 .. n : list[i] = d) /\ (\A i \in 1 .. n : list[i] # e)
      <3>1. PICK i \in 1 .. n : list[i] = d
        BY <2>3, Zenon
      <3>2. data'[d] = bs[i] /\ data'[e] = data[e]
        BY <1>15, <2>3, <3>1, Zenon
      <3> QED BY <2>1, <3>2, Zenon
    <2>4. CASE (\A i \in 1 .. n : list[i] # d) /\ (\E i \in 1 .. n : list[i] = e)
      <3>1. PICK i \in 1 .. n : list[i] = e
        BY <2>4, Zenon
      <3>2. data'[e] = bs[i] /\ data'[d] = data[d]
        BY <1>15, <2>4, <3>1, Zenon
      <3> QED BY <2>1, <3>2
    <2>5. CASE (\A i \in 1 .. n : list[i] # d) /\ (\A i \in 1 .. n : list[i] # e)
      <3>1. data'[d] = data[d] /\ data'[e] = data[e]
        BY <1>15, <2>5, Zenon
      <3> QED BY <1>1, <3>1, Zenon DEF Contents
    <2> QED BY <2>2, <2>3, <2>4, <2>5, Zenon
  <1>18. Behind(f)' = bs
    <2>1. Behind(f)' = [i \in DOMAIN front |-> buf'[front[i]]]
      BY <1>12, Zenon DEF Behind, Through
    <2>2. DOMAIN front = 1 .. n /\ \A i \in 1 .. n : front[i] = list[i]
      BY <1>5, Zenon DEF Front
    <2>3. \A i \in 1 .. n : buf'[front[i]] = bs[i]
      BY <1>15, <2>2, Zenon
    <2> QED BY <1>14, <2>1, <2>2, <2>3
  <1>19. op'.at = "enqueue" /\ op'.i = f
    <2>1. op' = [at |-> "enqueue", i |-> f]
      BY <1>1, <1>4, TransferMoves, Zenon
    <2> QED BY <2>1
  <1>20. Behind(op.i)' \in Batch
    BY <1>18, <1>19, Zenon
  <1>21. Contents'
    BY <1>16, <1>17, <1>20, Zenon DEF Contents
  <1>22. IndInv'
    BY <1>8, <1>11, <1>21, Zenon DEF IndInv
  <1>23. ASSUME NEW h \in InFlight PROVE Behind(h)' = Behind(h)
    <2>1. PICK c : c = chain[h]
      OBVIOUS
    <2>2. Chain(h) = c
      BY <1>1, <1>2, <2>1, UniqueIs, Zenon DEF Unique
    <2>3. Chain(h)' = c
      <3>1. h \in InFlight' /\ chain2[h] = c
        BY <1>7, <1>8, <2>1, Zenon
      <3> QED BY <1>9, <1>10, <3>1, Zenon DEF Unique
    <2>4. \A x \in Elems(c) : x \in Desc /\ data[x] # None
      BY <1>1, <1>2, <2>1, HeadFacts, Zenon
    <2>5. \A i \in 1 .. n : list[i] \in Desc /\ data[list[i]] = None
      <3>1. n \in 1 .. free /\ free \in Nat /\ list \in [1 .. free -> Desc]
        BY <1>1, <1>2, <1>13, SMTT(20) DEF TakesFrom, Layout, TypeOK
      <3>2. \A i \in 1 .. n : i \in 1 .. free
        BY <3>1
      <3> QED BY <1>2, <3>1, <3>2, ZenonT(40) DEF Layout, Elems
    <2>6. \A i \in DOMAIN c : buf'[c[i]] = buf[c[i]]
      <3>1. \A x \in Elems(c) : \A i \in 1 .. n : list[i] # x
        BY <2>4, <2>5, Zenon
      <3> QED BY <1>15, <2>4, <3>1, Zenon DEF Elems
    <2> QED BY <2>2, <2>3, <2>6, SMTT(20) DEF Behind, Through
  <1> QED BY <1>22, <1>23, Zenon

(* The quiet steps preserve the invariant. *)
LEMMA QuietStep ==
    ASSUME IndInv, Quiet
    PROVE  IndInv'
  <1>1. TypeOK /\ Places /\ Contents
    BY Zenon DEF IndInv
  <1>2. PICK list, chain : Layout(list, chain)
    BY Zenon DEF IndInv
  <1>3. TypeOK' /\ Places'
    BY <1>1, QuietMoves, Zenon
  <1>4. Contents'
    BY <1>1, QuietContents, Zenon
  <1>5. Layout(list, chain)'
    BY <1>1, <1>2, QuietMoves, LayoutKept, Zenon
  <1>6. Unique'
    BY <1>3, UniqueIs, PTL
  <1>7. Layout(Path(first, free), [h \in InFlight |-> Chain(h)])'
    BY <1>5, <1>6, Zenon DEF Unique
  <1> QED BY <1>3, <1>4, <1>7, Zenon DEF IndInv
-----------------------------------------------------------------------------
(* collect *)

(* The list of length k with d in front. *)
Cons(d, list, k) == [i \in 1 .. k + 1 |-> IF i = 1 THEN d ELSE list[i - 1]]

(* The chain c = chain[op.i], of length m, and what comes after its head. *)
IsCut(c, m, d) ==
    /\ m \in 1 .. Size /\ c \in [1 .. m -> Desc] /\ c[1] = d /\ Once(c)
    /\ d \in Elems(c) /\ \A x \in Elems(c) : x \in Desc /\ data[x] # None
    /\ Rest(c, 1, m) \in [1 .. m - 1 -> Desc] /\ Once(Rest(c, 1, m))
    /\ Elems(Rest(c, 1, m)) = Elems(c) \ {d}
    /\ next[d] = None <=> m = 1
    /\ next[d] # None => Rest(c, 1, m)[1] = next[d] /\ next[d] \in Elems(c) /\ next[d] # d
    /\ \A i \in 1 .. m - 1 : next[Rest(c, 1, m)[i]]
                               = IF i + 1 \in 1 .. m - 1 THEN Rest(c, 1, m)[i + 1] ELSE None

(* A chain without its head is a chain. *)
LEMMA CutIs ==
    ASSUME TypeOK, NEW list, NEW chain, Layout(list, chain), NEW d \in InFlight
    PROVE  \E m : IsCut(chain[d], m, d)
  <1> DEFINE c == chain[d]
  <1>1. /\ \E m \in 1 .. Size : c \in [1 .. m -> Desc]
        /\ c[1] = d /\ Once(c) /\ Linked(c) /\ d \in Elems(c)
        /\ \A x \in Elems(c) : x \in Desc /\ data[x] # None
    BY HeadFacts, Zenon
  <1> HIDE DEF c
  <1>2. PICK m \in 1 .. Size : c \in [1 .. m -> Desc]
    BY <1>1, Zenon
  <1>3. m \in Nat /\ m > 0 /\ 1 \in 1 .. m /\ DOMAIN c = 1 .. m
    BY <1>2, SizeFacts, SMTT(20)
  <1> DEFINE r == Rest(c, 1, m)
  <1>4. IsSplit(c, 1, m)
    BY <1>1, <1>2, <1>3, SplitList
  <1>5. r \in [1 .. m - 1 -> Desc] /\ Once(r) /\ r = [i \in 1 .. m - 1 |-> c[i + 1]]
    BY <1>4, Zenon DEF IsSplit, Rest
  <1>6. Elems(r) = Elems(c) \ {d}
    <2>1. Elems(Front(c, 1)) = {d}
      BY <1>1, <1>4 DEF IsSplit
    <2> QED BY <1>4, <2>1, Zenon DEF IsSplit
  <1>7. \A i \in 1 .. m : next[c[i]] = IF i + 1 \in 1 .. m THEN c[i + 1] ELSE None
    BY <1>1, <1>3, Zenon DEF Linked
  <1>8. next[d] = IF 2 \in 1 .. m THEN c[2] ELSE None
    BY <1>1, <1>3, <1>7, SMTT(20)
  <1>9. 2 \in 1 .. m => c[2] \in Desc /\ c[2] # None /\ c[2] # d /\ c[2] \in Elems(c)
    BY <1>1, <1>2, <1>3, NoneFacts, SMTT(20) DEF Once, Elems
  <1>10. next[d] = None <=> m = 1
    BY <1>3, <1>8, <1>9
  <1>11. next[d] # None => r[1] = next[d] /\ next[d] \in Elems(c) /\ next[d] # d
    <2> SUFFICES ASSUME next[d] # None PROVE r[1] = next[d] /\ next[d] \in Elems(c) /\ next[d] # d
      BY Zenon
    <2>1. 2 \in 1 .. m /\ next[d] = c[2] /\ 1 \in 1 .. m - 1
      BY <1>3, <1>8
    <2>2. r[1] = c[2]
      BY <1>5, <2>1
    <2> QED BY <1>9, <2>1, <2>2, Zenon
  <1>12. \A i \in 1 .. m - 1 : next[r[i]] = IF i + 1 \in 1 .. m - 1 THEN r[i + 1] ELSE None
    <2> SUFFICES ASSUME NEW i \in 1 .. m - 1
                 PROVE  next[r[i]] = IF i + 1 \in 1 .. m - 1 THEN r[i + 1] ELSE None
      BY Zenon
    <2>1. i + 1 \in 1 .. m /\ ((i + 1) + 1 \in 1 .. m <=> i + 1 \in 1 .. m - 1)
      BY <1>3
    <2>2. r[i] = c[i + 1] /\ (i + 1 \in 1 .. m - 1 => r[i + 1] = c[(i + 1) + 1])
      <3> HIDE DEF r
      <3> QED BY <1>5
    <2> QED BY <1>7, <2>1, <2>2, Zenon
  <1>13. IsCut(c, m, d)
    BY <1>1, <1>2, <1>5, <1>6, <1>10, <1>11, <1>12, Zenon DEF IsCut
  <1> QED BY <1>13, Zenon DEF c

(* The head of a chain goes to the front of the free list. *)
FreesTo(d, list, list2) ==
    /\ op.i = d /\ d \in InFlight /\ d \in Desc /\ data[d] # None
    /\ first' = d /\ free' = free + 1 /\ free' \in 0 .. Size
    /\ next' \in [Desc -> Desc \cup {None}] /\ data' \in [Desc -> Buffer \cup {None}]
    /\ data'[d] = None /\ \A x \in Desc : x # d => next'[x] = next[x] /\ data'[x] = data[x]
    /\ list2 \in [1 .. free' -> Desc] /\ Once(list2) /\ Linked(list2)' /\ list2[1] = d
    /\ Elems(list2) = Elems(list) \cup {d}

(* What free_descriptor does to the descriptors, when list is the free list. *)
LEMMA FreeIs ==
    ASSUME TypeOK, Free, NEW list, NEW chain, Layout(list, chain),
           NEW d, d = op.i, NEW list2, list2 = Cons(d, list, free)
    PROVE  FreesTo(d, list, list2)
  <1>1. /\ first' = d /\ free' = free + 1 /\ data' = [data EXCEPT ![d] = None]
        /\ next' = [next EXCEPT ![d] = IF free = 0 THEN None ELSE first]
    BY DEF Free, FreeTo
  <1>2. d \in InFlight
    BY FreeMoves, Zenon DEF InFlight
  <1>3. d \in Desc /\ data[d] # None
    BY <1>2, HeadFacts, Zenon
  <1>4. /\ free \in Nat /\ next \in [Desc -> Desc \cup {None}] /\ first \in Desc
        /\ data \in [Desc -> Buffer \cup {None}]
    BY DEF TypeOK
  <1>5. /\ list \in [1 .. free -> Desc] /\ Once(list) /\ Linked(list)
        /\ free > 0 => list[1] = first
        /\ \A x \in Desc : data[x] = None <=> x \in Elems(list)
    BY Zenon DEF Layout
  <1>6. /\ next' \in [Desc -> Desc \cup {None}] /\ data' \in [Desc -> Buffer \cup {None}]
        /\ data'[d] = None /\ \A x \in Desc : x # d => next'[x] = next[x] /\ data'[x] = data[x]
        /\ next'[d] = IF free = 0 THEN None ELSE first
    BY <1>1, <1>3, <1>4, SMTT(20)
  <1>7. \A i \in 1 .. free + 1 : i # 1 => i - 1 \in 1 .. free
    BY <1>4
  <1>8. 1 \in 1 .. free + 1 /\ \A i \in 1 .. free : i + 1 \in 1 .. free + 1 /\ i + 1 # 1 /\ (i + 1) - 1 = i
    BY <1>4
  <1>9. /\ list2 \in [1 .. free + 1 -> Desc] /\ list2[1] = d
        /\ \A i \in 1 .. free + 1 : i # 1 => list2[i] = list[i - 1] /\ list[i - 1] \in Desc
        /\ \A i \in 1 .. free : list2[i + 1] = list[i]
    <2>1. list2 = [i \in 1 .. free + 1 |-> IF i = 1 THEN d ELSE list[i - 1]]
      BY Zenon DEF Cons
    <2>2. \A i \in 1 .. free + 1 : i # 1 => list2[i] = list[i - 1] /\ list[i - 1] \in Desc
      BY <1>5, <1>7, <2>1, Zenon
    <2>3. list2[1] = d
      BY <1>8, <2>1, Zenon
    <2>4. list2 \in [1 .. free + 1 -> Desc]
      BY <1>3, <1>5, <1>7, <2>1, Zenon
    <2>5. ASSUME NEW i \in 1 .. free PROVE list2[i + 1] = list[i]
      <3>1. list2[i + 1] = list[(i + 1) - 1]
        BY <1>8, <2>2, Zenon
      <3> QED BY <1>8, <3>1, Zenon
    <2> QED BY <2>2, <2>3, <2>4, <2>5, Zenon
  <1>10. d \notin Elems(list)
    BY <1>3, <1>5, Zenon
  <1>11. \A i \in 1 .. free : list[i] # d
    BY <1>5, <1>10, Zenon DEF Elems
  <1>12. Once(list2)
    <2> SUFFICES ASSUME NEW i \in 1 .. free + 1, NEW j \in 1 .. free + 1, list2[i] = list2[j]
                 PROVE  i = j
      BY <1>9, ZenonT(40) DEF Once
    <2>1. CASE i = 1 \/ j = 1
      BY <1>7, <1>9, <1>11, <2>1, ZenonT(40)
    <2>2. CASE i # 1 /\ j # 1
      <3>1. list[i - 1] = list[j - 1] /\ i - 1 \in DOMAIN list /\ j - 1 \in DOMAIN list
        BY <1>5, <1>7, <1>9, <2>2
      <3>2. i - 1 = j - 1
        BY <1>5, <3>1, Zenon DEF Once
      <3> QED BY <3>2, SMTT(20)
    <2> QED BY <2>1, <2>2, Zenon
  <1>13. Elems(list2) = Elems(list) \cup {d}
    <2>1. ASSUME NEW x \in Elems(list2) PROVE x \in Elems(list) \cup {d}
      <3>1. PICK i \in 1 .. free + 1 : x = list2[i]
        BY <1>9, Zenon DEF Elems
      <3> QED BY <1>5, <1>7, <1>9, <3>1, Zenon DEF Elems
    <2>2. ASSUME NEW x \in Elems(list) PROVE x \in Elems(list2)
      <3>1. PICK i \in 1 .. free : x = list[i]
        BY <1>5, Zenon DEF Elems
      <3> QED BY <1>8, <1>9, <3>1, Zenon DEF Elems
    <2>3. d \in Elems(list2)
      BY <1>8, <1>9, Zenon DEF Elems
    <2> QED BY <2>1, <2>2, <2>3, Zenon
  <1>14. Linked(list2)'
    <2> SUFFICES ASSUME NEW i \in 1 .. free + 1
                 PROVE  next'[list2[i]] = IF i + 1 \in 1 .. free + 1 THEN list2[i + 1] ELSE None
      BY <1>9, ZenonT(40) DEF Linked
    <2>1. CASE i = 1
      <3>1. CASE free = 0
        BY <1>4, <1>6, <1>9, <2>1, <3>1, SMTT(20)
      <3>2. CASE free # 0
        <4>1. 1 \in 1 .. free /\ i + 1 \in 1 .. free + 1 /\ free > 0
          BY <1>4, <2>1, <3>2
        <4>2. list2[i + 1] = list[1] /\ list[1] = first
          BY <1>5, <1>9, <2>1, <4>1, ZenonT(40)
        <4> QED BY <1>6, <1>9, <2>1, <3>2, <4>1, <4>2, Zenon
      <3> QED BY <3>1, <3>2, Zenon
    <2>2. CASE i # 1
      <3>1. i - 1 \in 1 .. free /\ ((i - 1) + 1 \in 1 .. free <=> i + 1 \in 1 .. free + 1) /\ (i - 1) + 1 = i
        BY <1>4, <2>2
      <3>2. list2[i] = list[i - 1] /\ list[i - 1] \in Desc /\ list[i - 1] # d
        BY <1>9, <1>11, <2>2, <3>1, Zenon
      <3>3. next[list[i - 1]] = IF (i - 1) + 1 \in 1 .. free THEN list[(i - 1) + 1] ELSE None
        BY <1>5, <3>1, Zenon DEF Linked
      <3>4. i \in 1 .. free => list2[i + 1] = list[i]
        BY <1>9, Zenon
      <3>5. next'[list2[i]] = next[list[i - 1]]
        BY <1>6, <3>2, Zenon
      <3> QED BY <3>1, <3>3, <3>4, <3>5, SMTT(20)
    <2> QED BY <2>1, <2>2, Zenon
  <1>15. free' \in 0 .. Size
    <2>1. free + 1 \in Nat
      BY <1>4
    <2>2. free + 1 <= Size
      BY <1>9, <1>12, <2>1, Room
    <2> QED BY <1>1, <1>4, <2>2, SizeFacts, SMTT(20)
  <1>16. list2 \in [1 .. free' -> Desc]
    BY <1>1, <1>9, Zenon
  <1> QED BY <1>1, <1>2, <1>3, <1>6, <1>9, <1>12, <1>13, <1>14, <1>15, <1>16, Zenon DEF FreesTo

(* Freeing replaces the head in hand by the one after it. *)
LEMMA FreePlaces ==
    ASSUME TypeOK, Places, Free, NEW list, NEW chain, Layout(list, chain),
           NEW d, d = op.i, NEW x, x = next[d], NEW m, IsCut(chain[d], m, d)
    PROVE  /\ TypeOK' /\ Places' /\ (x # None => x \notin InFlight)
           /\ InFlight' = (InFlight \ {d}) \cup (IF x = None THEN {} ELSE {x})
  <1>1. PICK list2 : list2 = Cons(d, list, free)
    OBVIOUS
  <1>2. FreesTo(d, list, list2)
    BY <1>1, FreeIs, SMTT(20)
  <1>3. /\ Offered' = Offered /\ held' = held /\ Finished' = Finished
        /\ op.at = "free" /\ InHand = {d}
        /\ x = None => InHand' = {}
        /\ x # None => InHand' = {x}
        /\ op' \in [at : {"free", "collect"}, i : Desc]
        /\ UNCHANGED <<buf, avail, used, seen, lastUsed>>
    BY FreeMoves
  <1>4. d \in InFlight /\ d \in Desc
    BY <1>2, Zenon DEF FreesTo
  <1>5. ASSUME x # None PROVE x \notin InFlight
    <2>1. x \in Elems(chain[d]) /\ x # d
      BY <1>5, Zenon DEF IsCut
    <2>2. ASSUME x \in InFlight PROVE FALSE
      <3>1. x \in Elems(chain[x])
        BY <2>2, HeadFacts, Zenon
      <3>2. Elems(chain[x]) \cap Elems(chain[d]) = {}
        BY <1>4, <2>1, <2>2, Zenon DEF Layout
      <3> QED BY <2>1, <3>1, <3>2, Zenon
    <2> QED BY <2>2, Zenon
  <1>6. TypeOK'
    <2>1. /\ first' = d /\ free' \in 0 .. Size
          /\ next' \in [Desc -> Desc \cup {None}] /\ data' \in [Desc -> Buffer \cup {None}]
      BY <1>2, Zenon DEF FreesTo
    <2>2. op' \in [at : {"idle", "enqueue", "publish", "free", "collect"}, i : Desc]
      BY <1>3
    <2> QED BY <1>3, <1>4, <2>1, <2>2, SMTT(20) DEF TypeOK
  <1>7. Elems(Offered)' = Elems(Offered) /\ Elems(Finished)' = Elems(Finished)
    BY <1>3, Zenon DEF Elems
  <1>8. d \notin Elems(Offered) \cup held \cup Elems(Finished)
    BY <1>3, Zenon DEF Places
  <1>9. InFlight' = (InFlight \ {d}) \cup (IF x = None THEN {} ELSE {x})
    <2>1. InFlight \ {d} = Elems(Offered) \cup held \cup Elems(Finished)
      BY <1>3, <1>8, Zenon DEF InFlight
    <2>2. InFlight' = Elems(Offered) \cup held \cup Elems(Finished) \cup InHand'
      BY <1>3, <1>7, Zenon DEF InFlight
    <2>3. InHand' = IF x = None THEN {} ELSE {x}
      BY <1>3, Zenon
    <2> QED BY <2>1, <2>2, <2>3, Zenon
  <1>10. Places'
    <2>1. Once(Offered)' /\ Once(Finished)'
      BY <1>3, Zenon DEF Once, Places
    <2>2. op'.at # "publish"
      BY <1>3, SMTT(20)
    <2>3. /\ Elems(Offered)' \cap held' = {} /\ Elems(Offered)' \cap Elems(Finished)' = {}
          /\ held' \cap Elems(Finished)' = {}
      BY <1>3, <1>7 DEF Places
    <2>4. InHand' \cap (Elems(Offered)' \cup held' \cup Elems(Finished)') = {}
      <3>1. x # None => x \notin Elems(Offered) \cup held \cup Elems(Finished)
        BY <1>5, Zenon DEF InFlight
      <3> QED BY <1>3, <1>7, <3>1, Zenon
    <2> QED BY <2>1, <2>2, <2>3, <2>4, Zenon DEF Places
  <1> QED BY <1>5, <1>6, <1>9, <1>10, Zenon

(* After freeing, the free list has one more member and the chain in hand    *)
(* one less.                                                                 *)
LEMMA FreeLayout ==
    ASSUME TypeOK, Places, Free, NEW list, NEW chain, Layout(list, chain),
           NEW d, d = op.i, NEW x, x = next[d], NEW m, IsCut(chain[d], m, d),
           NEW rest, rest = Rest(chain[d], 1, m), NEW list2, list2 = Cons(d, list, free),
           NEW chain2, chain2 = [h \in Desc |-> IF x # None /\ h = x THEN rest ELSE chain[h]]
    PROVE  Layout(list2, chain2)'
  <1>1. FreesTo(d, list, list2)
    BY FreeIs
  <1>2. /\ x # None => x \notin InFlight
        /\ InFlight' = (InFlight \ {d}) \cup (IF x = None THEN {} ELSE {x})
    BY FreePlaces, Zenon
  <1>3. /\ d \in InFlight /\ d \in Desc /\ data[d] # None
        /\ first' = d /\ free' = free + 1
        /\ data'[d] = None /\ \A y \in Desc : y # d => next'[y] = next[y] /\ data'[y] = data[y]
        /\ list2 \in [1 .. free' -> Desc] /\ Once(list2) /\ Linked(list2)' /\ list2[1] = d
        /\ Elems(list2) = Elems(list) \cup {d}
    BY <1>1, Zenon DEF FreesTo
  <1>4. /\ m \in 1 .. Size
        /\ \A y \in Elems(chain[d]) : y \in Desc /\ data[y] # None
        /\ rest \in [1 .. m - 1 -> Desc] /\ Once(rest) /\ Elems(rest) = Elems(chain[d]) \ {d}
        /\ x = None <=> m = 1
        /\ x # None => rest[1] = x /\ x \in Elems(chain[d]) /\ x # d
        /\ \A i \in 1 .. m - 1 : next[rest[i]] = IF i + 1 \in 1 .. m - 1 THEN rest[i + 1] ELSE None
    BY Zenon DEF IsCut
  <1>5. /\ \A y \in Desc : data[y] = None <=> y \in Elems(list)
        /\ \A y \in Desc : data[y] # None <=> \E h \in InFlight : y \in Elems(chain[h])
        /\ \A g, h \in InFlight : g # h => Elems(chain[g]) \cap Elems(chain[h]) = {}
    BY ZenonT(40) DEF Layout
  <1>6. \A y \in Desc : data'[y] = None <=> y \in Elems(list2)
    BY <1>3, <1>5
  <1>7. ASSUME NEW h \in InFlight, h # d
        PROVE  chain2[h] = chain[h] /\ IsChain(chain[h], h)' /\ d \notin Elems(chain[h]) /\ h \in Desc
    <2>1. /\ \E k \in 1 .. Size : chain[h] \in [1 .. k -> Desc]
          /\ chain[h][1] = h /\ Once(chain[h]) /\ Linked(chain[h]) /\ h \in Desc
          /\ \A y \in Elems(chain[h]) : y \in Desc /\ data[y] # None
      BY HeadFacts, Zenon
    <2>2. d \in Elems(chain[d])
      BY Zenon DEF IsCut
    <2>3. d \notin Elems(chain[h])
      BY <1>3, <1>5, <1>7, <2>2, Zenon
    <2>4. \A i \in DOMAIN chain[h] : next'[chain[h][i]] = next[chain[h][i]]
      BY <1>3, <2>1, <2>3, ZenonT(40) DEF Elems
    <2>5. Linked(chain[h])'
      BY <2>1, <2>4 DEF Linked
    <2>6. chain2[h] = chain[h]
      BY <1>2, <2>1, Zenon
    <2> QED BY <2>1, <2>3, <2>5, <2>6, Zenon DEF IsChain
  <1>8. ASSUME x # None PROVE x \in Desc /\ chain2[x] = rest /\ IsChain(rest, x)'
    <2>1. x \in Desc /\ chain2[x] = rest /\ rest[1] = x
      BY <1>4, <1>8, ZenonT(40)
    <2>2. m - 1 \in 1 .. Size
      BY <1>4, <1>8, SizeFacts
    <2>3. \A i \in 1 .. m - 1 : rest[i] \in Desc /\ rest[i] # d
      BY <1>4, ZenonT(40) DEF Elems
    <2>4. Linked(rest)'
      <3>1. \A i \in 1 .. m - 1 : next'[rest[i]] = IF i + 1 \in 1 .. m - 1 THEN rest[i + 1] ELSE None
        BY <1>3, <1>4, <2>3, ZenonT(40)
      <3>2. DOMAIN rest = 1 .. m - 1
        BY <1>4, Zenon
      <3> QED BY <3>1, <3>2, Zenon DEF Linked
    <2> QED BY <1>4, <2>1, <2>2, <2>4, Zenon DEF IsChain
  <1>9. \A h \in InFlight' : IsChain(chain2[h], h)'
    <2> SUFFICES ASSUME NEW h, h \in (InFlight \ {d}) \cup (IF x = None THEN {} ELSE {x})
                 PROVE  IsChain(chain2[h], h)'
      BY <1>2, Zenon
    <2>1. CASE h \in InFlight /\ h # d
      BY <1>7, <2>1, Zenon
    <2>2. CASE x # None /\ h = x
      BY <1>8, <2>2, Zenon
    <2> QED BY <2>1, <2>2, Zenon
  <1>10. x # None => Elems(chain2[x]) \subseteq Elems(chain[d])
    BY <1>4, <1>8, Zenon
  <1>11. \A g, h \in InFlight' : g # h => Elems(chain2[g]) \cap Elems(chain2[h]) = {}
    <2> SUFFICES ASSUME NEW g \in InFlight', NEW h \in InFlight', g # h
                 PROVE  Elems(chain2[g]) \cap Elems(chain2[h]) = {}
      BY Zenon
    <2>0. /\ g \in InFlight \ {d} \/ (x # None /\ g = x)
          /\ h \in InFlight \ {d} \/ (x # None /\ h = x)
      BY <1>2
    <2>1. CASE g \in InFlight \ {d} /\ h \in InFlight \ {d}
      BY <1>5, <1>7, <2>1, Zenon
    <2>2. CASE x # None /\ g = x /\ h \in InFlight \ {d}
      <3>1. Elems(chain[d]) \cap Elems(chain[h]) = {} /\ chain2[h] = chain[h]
        BY <1>3, <1>5, <1>7, <2>2, Zenon
      <3> QED BY <1>10, <2>2, <3>1, Zenon
    <2>3. CASE x # None /\ h = x /\ g \in InFlight \ {d}
      <3>1. Elems(chain[d]) \cap Elems(chain[g]) = {} /\ chain2[g] = chain[g]
        BY <1>3, <1>5, <1>7, <2>3, Zenon
      <3> QED BY <1>10, <2>3, <3>1, Zenon
    <2> QED BY <2>0, <2>1, <2>2, <2>3, Zenon
  <1>12. \A y \in Desc : data'[y] # None <=> \E h \in InFlight' : y \in Elems(chain2[h])
    <2> SUFFICES ASSUME NEW y \in Desc
                 PROVE  data'[y] # None
                          <=> \E h \in (InFlight \ {d}) \cup (IF x = None THEN {} ELSE {x}) : y \in Elems(chain2[h])
      BY <1>2, Zenon
    <2>1. ASSUME data'[y] # None
          PROVE  \E h \in (InFlight \ {d}) \cup (IF x = None THEN {} ELSE {x}) : y \in Elems(chain2[h])
      <3>1. y # d /\ data[y] # None
        BY <1>3, <2>1, Zenon
      <3>2. PICK h \in InFlight : y \in Elems(chain[h])
        BY <1>5, <3>1, Zenon
      <3>3. CASE h = d
        <4>1. y \in Elems(rest)
          BY <1>4, <3>1, <3>2, <3>3, Zenon
        <4>2. x # None
          <5>1. CASE m = 1
            <6>1. 1 .. m - 1 = {}
              BY <5>1
            <6> QED BY <1>4, <4>1, <6>1, ZenonT(40) DEF Elems
          <5> QED BY <1>4, <5>1, Zenon
        <4> QED BY <1>8, <4>1, <4>2, Zenon
      <3>4. CASE h # d
        BY <1>7, <3>2, <3>4, Zenon
      <3> QED BY <3>3, <3>4, Zenon
    <2>2. ASSUME NEW h \in (InFlight \ {d}) \cup (IF x = None THEN {} ELSE {x}), y \in Elems(chain2[h])
          PROVE  data'[y] # None
      <3>1. CASE h \in InFlight /\ h # d
        <4>1. y \in Elems(chain[h]) /\ y # d
          BY <1>7, <2>2, <3>1, Zenon
        <4> QED BY <1>3, <1>5, <3>1, <4>1, ZenonT(40)
      <3>2. CASE x # None /\ h = x
        <4>1. y \in Elems(chain[d]) /\ y # d
          BY <1>4, <1>8, <2>2, <3>2, Zenon
        <4> QED BY <1>3, <1>4, <4>1, Zenon
      <3> QED BY <3>1, <3>2, Zenon
    <2> QED BY <2>1, <2>2, Zenon
  <1> QED BY <1>3, <1>6, <1>9, <1>11, <1>12, ZenonT(40) DEF Layout

(* Freeing a descriptor preserves the invariant. *)
LEMMA FreeStep ==
    ASSUME IndInv, Free
    PROVE  /\ IndInv' /\ \A h \in InFlight \ {op.i} : Chain(h)' = Chain(h)
           /\ \E m : /\ IsCut(Chain(op.i), m, op.i)
                     /\ \A x : x = next[op.i] /\ x # None => Chain(x)' = Rest(Chain(op.i), 1, m)
  <1>1. TypeOK /\ Places /\ Contents
    BY Zenon DEF IndInv
  <1>2. PICK list, chain : Layout(list, chain)
    BY Zenon DEF IndInv
  <1>3. PICK d : d = op.i
    OBVIOUS
  <1>4. PICK x : x = next[d]
    OBVIOUS
  <1>5. d \in InFlight
    BY <1>1, <1>3, FreeMoves, Zenon DEF InFlight
  <1>6. PICK m : IsCut(chain[d], m, d)
    BY <1>1, <1>2, <1>5, CutIs, Zenon
  <1>7. PICK rest : rest = Rest(chain[d], 1, m)
    OBVIOUS
  <1>8. PICK list2 : list2 = Cons(d, list, free)
    OBVIOUS
  <1>9. PICK chain2 : chain2 = [h \in Desc |-> IF x # None /\ h = x THEN rest ELSE chain[h]]
    BY ZenonT(40)
  <1>10. /\ TypeOK' /\ Places' /\ (x # None => x \notin InFlight)
         /\ InFlight' = (InFlight \ {d}) \cup (IF x = None THEN {} ELSE {x})
    BY <1>1, <1>2, <1>3, <1>4, <1>6, FreePlaces, ZenonT(40)
  <1>11. Layout(list2, chain2)'
    BY <1>1, <1>2, <1>3, <1>4, <1>6, <1>7, <1>8, <1>9, FreeLayout, SMTT(20)
  <1>12. Unique'
    BY <1>10, UniqueIs, PTL
  <1>13. Layout(Path(first, free), [h \in InFlight |-> Chain(h)])'
    BY <1>11, <1>12, Zenon DEF Unique
  <1>14. FreesTo(d, list, list2)
    BY <1>1, <1>2, <1>3, <1>8, FreeIs, SMTT(20)
  <1>15. data'[d] = None /\ buf' = buf /\ \A y \in Desc : y # d => data'[y] = data[y]
    <2>1. buf' = buf
      BY <1>1, FreeMoves, Zenon
    <2> QED BY <1>14, <2>1, Zenon DEF FreesTo
  <1>16. op'.at \notin {"enqueue", "publish"}
    <2>1. op' \in [at : {"free", "collect"}, i : Desc]
      BY <1>1, FreeMoves, Zenon
    <2> QED BY <2>1
  <1>17. \A y \in Desc : data'[y] # None => data'[y] = buf'[y]
    BY <1>1, <1>15 DEF Contents
  <1>18. \A y, z \in Desc : data'[y] = data'[z] /\ data'[y] # None => y = z
    BY <1>1, <1>15 DEF Contents
  <1>19. Contents'
    BY <1>16, <1>17, <1>18, Zenon DEF Contents
  <1>20. IndInv'
    BY <1>10, <1>13, <1>19, Zenon DEF IndInv
  <1>21. \A h \in InFlight' : Chain(h)' = chain2[h]
    BY <1>11, <1>12, Zenon DEF Unique
  <1>22. \A h \in InFlight : Chain(h) = chain[h] /\ h \in Desc
    BY <1>1, <1>2, UniqueIs, HeadFacts, Zenon DEF Unique
  <1>23. ASSUME NEW h \in InFlight \ {d} PROVE Chain(h)' = Chain(h)
    <2>1. h \in InFlight' /\ chain2[h] = chain[h]
      BY <1>9, <1>10, <1>22, Zenon
    <2> QED BY <1>21, <1>22, <2>1, Zenon
  <1>24. ASSUME x # None PROVE Chain(x)' = rest
    <2>1. x \in InFlight' /\ x \in Desc
      BY <1>6, <1>4, <1>10, <1>24 DEF IsCut
    <2>2. chain2[x] = rest
      BY <1>9, <1>24, <2>1, Zenon
    <2> QED BY <1>21, <2>1, <2>2, ZenonT(40)
  <1>25. Chain(d) = chain[d]
    BY <1>5, <1>22, Zenon
  <1>26. IsCut(Chain(d), m, d) /\ \A y : y = next[d] /\ y # None => Chain(y)' = Rest(Chain(d), 1, m)
    BY <1>4, <1>6, <1>7, <1>24, <1>25, Zenon
  <1> QED BY <1>3, <1>20, <1>23, <1>26, Zenon
-----------------------------------------------------------------------------
(* The invariant *)

(* A new queue: all descriptors are free, and linked in ascending order. *)
LEMMA InitInv ==
    ASSUME Init
    PROVE  IndInv
  <1>1. Size \in Nat /\ Size > 0 /\ Width \in Nat /\ Width > 0 /\ 0 \in Desc /\ 0 \in Idx /\ None \notin Desc
    BY SizeFacts, NoneFacts, SMTT(20) DEF Desc, Idx
  <1>2. TypeOK
    <2>1. next \in [Desc -> Desc \cup {None}]
      BY <1>1, SMTT(20) DEF Init, Desc
    <2>2. avail \in Ring /\ used \in Ring
      BY <1>1, SMTT(20) DEF Init, Ring, Desc
    <2>3. op \in [at : {"idle", "enqueue", "publish", "free", "collect"}, i : Desc]
      BY <1>1 DEF Init, Idle
    <2> QED BY <1>1, <2>1, <2>2, <2>3, SMTT(20) DEF Init, TypeOK
  <1>3. Offered = <<>> /\ Finished = <<>>
    <2>1. avail.idx = 0 /\ used.idx = 0 /\ seen = 0 /\ lastUsed = 0
      BY DEF Init
    <2>2. Ahead(avail, seen) = 0 /\ Ahead(used, lastUsed) = 0
      BY <1>2, <2>1, RingsAre, HeadsAre, SMTT(20)
    <2>3. Len(Offered) = 0 /\ Len(Finished) = 0 /\ Offered \in Seq(Desc) /\ Finished \in Seq(Desc)
      BY <1>2, <2>2, RingsAre, HeadsAre, SMTT(20) DEF Offered, Finished
    <2> QED BY <2>3, SMTT(20)
  <1>4. InHand = {} /\ op.at = "idle" /\ held = {}
    BY DEF Init, Idle, InHand
  <1>5. Elems(<<>>) = {} /\ Once(<<>>)
    BY DEF Elems, Once
  <1>6. InFlight = {}
    BY <1>3, <1>4, <1>5, SMTT(20) DEF InFlight
  <1>7. Places
    BY <1>3, <1>4, <1>5, SMTT(20) DEF Places
  <1>8. Contents
    BY <1>4 DEF Init, Contents
  <1> DEFINE list == [i \in 1 .. Size |-> i - 1]
  <1>9. \A i \in 1 .. Size : list[i] = i - 1 /\ list[i] \in Desc
    BY <1>1 DEF Desc
  <1>10. list \in [1 .. free -> Desc] /\ Once(list) /\ free = Size /\ DOMAIN list = 1 .. Size
    <2>1. Once(list)
      BY <1>9 DEF Once
    <2> QED BY <1>9, <2>1 DEF Init
  <1>11. Linked(list)
    <2> SUFFICES ASSUME NEW i \in 1 .. Size
                 PROVE  next[list[i]] = IF i + 1 \in 1 .. Size THEN list[i + 1] ELSE None
      BY <1>10, SMTT(20) DEF Linked
    <2>1. next[list[i]] = IF i - 1 < Size - 1 THEN (i - 1) + 1 ELSE None
      BY <1>9 DEF Init
    <2>2. i + 1 \in 1 .. Size => list[i + 1] = i
      BY <1>1
    <2> HIDE DEF list
    <2> QED BY <1>1, <2>1, <2>2, SMTT(20)
  <1>12. list[1] = first
    BY <1>1 DEF Init
  <1>13. \A d \in Desc : data[d] = None /\ d \in Elems(list)
    <2>1. ASSUME NEW d \in Desc PROVE d \in Elems(list)
      <3>1. d + 1 \in 1 .. Size /\ (d + 1) - 1 = d
        BY <1>1 DEF Desc
      <3>2. list[d + 1] = d
        BY <3>1
      <3> QED BY <1>10, <3>1, <3>2, Zenon DEF Elems
    <2> QED BY <2>1 DEF Init
  <1> HIDE DEF list
  <1>14. Layout(list, <<>>)
    BY <1>6, <1>10, <1>11, <1>12, <1>13, Zenon DEF Layout
  <1>15. Layout(Path(first, free), [h \in InFlight |-> Chain(h)])
    BY <1>2, <1>14, UniqueIs, Zenon DEF Unique
  <1> QED BY <1>2, <1>7, <1>8, <1>15, Zenon DEF IndInv

(* Stuttering preserves the invariant. *)
LEMMA IdleStep ==
    ASSUME IndInv, UNCHANGED vars
    PROVE  IndInv'
  <1>1. /\ next' = next /\ buf' = buf /\ data' = data /\ first' = first /\ free' = free
        /\ avail' = avail /\ used' = used /\ lastUsed' = lastUsed /\ op' = op
        /\ seen' = seen /\ held' = held
    BY Zenon DEF vars
  <1>2. TypeOK'
    BY <1>1, SMTT(20) DEF IndInv, TypeOK
  <1>3. Offered' = Offered /\ Finished' = Finished /\ InHand' = InHand
    BY <1>1, SMTT(20) DEF Offered, Finished, InHand, Heads
  <1>4. InFlight' = InFlight
    BY <1>1, <1>3, SMTT(20) DEF InFlight, Elems
  <1>5. Places'
    BY <1>1, <1>3 DEF IndInv, Places, Once, Elems
  <1>7. \A h : Chain(h)' = Chain(h)
    BY <1>1, ChainKept, ZenonT(40)
  <1>8. Contents'
    BY <1>1, <1>7 DEF IndInv, Contents, Behind, Through
  <1>9. PICK list, chain : Layout(list, chain)
    BY Zenon DEF IndInv
  <1>10. Layout(list, chain)'
    BY <1>1, <1>4, <1>9, LayoutKept
  <1>11. Unique'
    BY <1>2, UniqueIs, PTL
  <1> QED BY <1>2, <1>5, <1>8, <1>10, <1>11, Zenon DEF Unique, IndInv

(* The invariant holds in every state of the queue: transfer, collect and    *)
(* the device keep every head in one place, the descriptors laid out as one  *)
(* free list and the chains of these heads, and the buffers where transfer   *)
(* put them, whatever the queue size and however often the u16 indices wrap  *)
(* around.                                                                   *)
THEOREM IndInvariant == Spec => []IndInv
  <1>1. Init => IndInv
    BY InitInv
  <1>2. IndInv /\ [Next]_vars => IndInv'
    <2> SUFFICES ASSUME IndInv, [Next]_vars PROVE IndInv'
      OBVIOUS
    <2>1. CASE \E bs \in Batch : (\A i \in DOMAIN bs : bs[i] \in Unused) /\ Transfer(bs)
      BY <2>1, TransferStep, Zenon
    <2>2. CASE Quiet
      BY <2>2, QuietStep, Zenon
    <2>3. CASE Free
      BY <2>3, FreeStep, Zenon
    <2>4. CASE UNCHANGED vars
      BY <2>4, IdleStep, Zenon
    <2> QED BY <2>1, <2>2, <2>3, <2>4, Zenon DEF Next, Quiet
  <1> QED BY <1>1, <1>2, PTL DEF Spec

(* The layout is the partition into the free list and the chains. *)
LEMMA PartitionIs ==
    ASSUME IndInv
    PROVE  Partition
  <1> DEFINE list == Path(first, free)
             chain == [h \in InFlight |-> Chain(h)]
  <1>1. TypeOK /\ Layout(list, chain)
    BY Zenon DEF IndInv
  <1>2. \A h \in InFlight : chain[h] = Chain(h)
    BY Zenon
  <1> HIDE DEF list, chain
  <1>3. /\ list \in [1 .. free -> Desc] /\ Once(list) /\ Linked(list)
        /\ \A d \in Desc : data[d] = None <=> d \in Elems(list)
        /\ \A d \in Desc : data[d] # None <=> \E h \in InFlight : d \in Elems(chain[h])
        /\ \A g, h \in InFlight : g # h => Elems(chain[g]) \cap Elems(chain[h]) = {}
    BY <1>1, Zenon DEF Layout
  <1>4. free \in Nat
    BY <1>1 DEF TypeOK
  <1>5. Elems(list) = {d \in Desc : data[d] = None}
    BY <1>3 DEF Elems
  <1>6. Cardinality(Elems(list)) = free
    <2>1. list \in Bijection(1 .. free, Elems(list))
      BY <1>3 DEF Bijection, Injection, Surjection, IsInjective, Once, Elems
    <2>2. ExistsBijection(1 .. free, Elems(list))
      BY <2>1, Zenon DEF ExistsBijection
    <2> QED BY <1>4, <2>2, FS_CountingElements, SMTT(20)
  <1>7. free > 0 => next[list[free]] = None
    <2> SUFFICES ASSUME free > 0 PROVE next[list[free]] = None
      BY SMTT(20)
    <2>1. free \in DOMAIN list /\ free + 1 \notin DOMAIN list
      BY <1>3, <1>4, SMTT(20)
    <2> QED BY <1>3, <2>1, Zenon DEF Linked
  <1>8. \A g, h \in InFlight : g # h => Elems(Chain(g)) \cap Elems(Chain(h)) = {}
    BY <1>2, <1>3, SMTT(20)
  <1>9. UNION {Elems(Chain(h)) : h \in InFlight} = {d \in Desc : data[d] # None}
    <2>1. \A h \in InFlight : Elems(chain[h]) \subseteq Desc
      BY <1>1, HeadFacts, SMTT(20)
    <2>2. \A d : (\E h \in InFlight : d \in Elems(Chain(h))) <=> d \in Desc /\ data[d] # None
      BY <1>2, <1>3, <2>1, SMTT(20)
    <2> QED BY <2>2, SMTT(20)
  <1> QED BY <1>5, <1>6, <1>7, <1>8, <1>9, Zenon DEF Partition, list

(* The free list is as long as num_free_descriptors says and holds exactly   *)
(* the descriptors without data, and the chains in flight share nothing and  *)
(* hold all others, so that no assert or unwrap of transfer and collect can  *)
(* fail.                                                                     *)
THEOREM IsPartition == Spec => []Partition
  <1>1. IndInv => Partition
    BY PartitionIs
  <1> QED BY <1>1, IndInvariant, PTL
=============================================================================
