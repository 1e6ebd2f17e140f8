--------------------------- MODULE AllocatorProofs ---------------------------
(***************************************************************************)
(* The kernel heap's soundness and first fit, for all sizes and maps.  The *)
(* invariant names a list for each size, and the pieces of memory that     *)
(* clients and lists have, which a step swaps, adds or removes.            *)
(***************************************************************************)
EXTENDS KernelAllocator, FiniteSetTheorems, TLAPS

(* A nonempty set of numbers has a least member. *)
LEMMA LeastIs ==
    ASSUME NEW S, S \subseteq Nat, S # {}
    PROVE  Min(S) \in S /\ \A y \in S : Min(S) <= y
  <1> DEFINE R == OpToRel(<, Nat)
  <1>1. IsWellFoundedOn(R, Nat)
    BY NatLessThanWellFounded, Zenon
  <1>2. \A x, y \in Nat : <<x, y>> \in R <=> x < y
    BY DEF OpToRel
  <1> HIDE DEF R
  <1>3. PICK x \in S : \A y \in S : ~(<<y, x>> \in R)
    BY <1>1, WFMin, Zenon
  <1>4. \A y \in S : ~(y < x)
    BY <1>2, <1>3, Zenon
  <1>5. \A y \in S : x <= y
    BY <1>4
  <1> QED BY <1>5, Zenon DEF Min

(* A nonempty set of numbers with a bound has a greatest member. *)
LEMMA GreatestIs ==
    ASSUME NEW S, S \subseteq Nat, S # {}, NEW b \in Nat, \A y \in S : y <= b
    PROVE  Max(S) \in S /\ \A y \in S : y <= Max(S)
  <1> DEFINE D == {b - y : y \in S}
  <1>0. \A y \in S : b - y \in Nat
    OBVIOUS
  <1>1. D \subseteq Nat /\ D # {}
    BY <1>0, Zenon
  <1>2. PICK d \in D : \A e \in D : d <= e
    BY <1>1, LeastIs, Zenon
  <1>3. PICK x \in S : d = b - x
    BY <1>2
  <1>4. \A y \in S : b - y \in D
    OBVIOUS
  <1> HIDE DEF D
  <1>5. \A y \in S : b - x <= b - y
    BY <1>2, <1>3, <1>4
  <1>6. \A y \in S : x >= y /\ y <= x
    BY <1>5
  <1>7. Max(S) \in S /\ \A y \in S : Max(S) >= y
    BY <1>6, Zenon DEF Max
  <1> QED BY <1>7

(* Quotient and remainder are unique. *)
LEMMA Divided ==
    ASSUME NEW n \in Nat \ {0}, NEW q \in Nat, NEW r \in 0 .. n - 1
    PROVE  (n * q + r) \div n = q /\ (n * q + r) % n = r
  <1> DEFINE z == n * q + r
             d == z \div n
             e == z % n
  <1>1. z \in Nat
    OBVIOUS
  <1>2. d \in Nat /\ z = n * d + e /\ e \in 0 .. n - 1
    BY <1>1
  <1>3. n * q + r = n * d + e
    BY <1>2 DEF z
  <1> HIDE DEF z, d, e
  <1>4. n * (q - d) = e - r
    BY <1>2, <1>3
  <1>5. CASE q - d >= 1
    <2>1. n * (q - d) >= n
      BY <1>2, <1>5
    <2> QED BY <1>2, <1>4, <2>1
  <1>6. CASE q - d <= -1
    <2>1. n * (q - d) <= -n
      BY <1>2, <1>6
    <2> QED BY <1>2, <1>4, <2>1
  <1>7. CASE q - d = 0
    BY <1>2, <1>4, <1>7 DEF e, d, z
  <1> QED BY <1>2, <1>5, <1>6, <1>7

(* A number is its quotient and its remainder. *)
LEMMA Quotient ==
    ASSUME NEW n \in Nat \ {0}, NEW z \in Nat
    PROVE  z \div n \in Nat /\ z % n \in 0 .. n - 1 /\ z = n * (z \div n) + (z % n)
  OBVIOUS

(* A multiple of a multiple of n is one of n. *)
LEMMA Multiple ==
    ASSUME NEW n \in Nat \ {0}, NEW m \in Nat, m % n = 0, NEW q \in Nat
    PROVE  (m * q) % n = 0
  <1> DEFINE d == m \div n
  <1>1. d \in Nat /\ m = n * d
    BY Quotient
  <1> HIDE DEF d
  <1>2. d * q \in Nat /\ m * q = n * (d * q) + 0
    BY <1>1
  <1>3. 0 \in 0 .. n - 1
    OBVIOUS
  <1>4. (n * (d * q) + 0) % n = 0
    BY <1>2, <1>3, Divided
  <1> QED BY <1>2, <1>4

(* What is aligned to m is aligned to what divides m. *)
LEMMA Aligned ==
    ASSUME NEW n \in Nat \ {0}, NEW m \in Nat \ {0}, m % n = 0, NEW z \in Nat, z % m = 0
    PROVE  z % n = 0
  <1> DEFINE d == z \div m
  <1>1. d \in Nat /\ z = m * d
    BY Quotient
  <1> HIDE DEF d
  <1> QED BY <1>1, Multiple, Zenon

(* initialize marks what lies in front of the end and is in no descriptor that was kept. *)
LEMMA GapsAre ==
    ASSUME NEW u \in Firmware, NEW m, m = MemoryMap(u), NEW e, e = AvailableEnd(m, DOMAIN m)
    PROVE  /\ e \in Nat /\ Gaps(m) \subseteq 0 .. e - 1
           /\ \A f \in 0 .. e - 1 : f \in Gaps(m) <=>
                 \A i \in {k \in DOMAIN u : IsAvailable(u[k].ty)} : f \notin Span(u[i].start, u[i].pages)
  <1> DEFINE K == {k \in DOMAIN u : IsAvailable(u[k].ty)}
             Before(i) == {j \in K : j < i}
  <1>1. /\ DOMAIN m = K /\ \A i \in K : m[i].start = u[i].start /\ m[i].end = u[i].start + u[i].pages
    BY DEF MemoryMap
  <1>2. /\ Len(u) \in Nat /\ DOMAIN u = 1 .. Len(u)
        /\ \A i \in DOMAIN u : u[i].start \in Nat /\ u[i].pages \in Nat
        /\ \A i, j \in DOMAIN u : i < j => u[i].start + u[i].pages <= u[j].start
    BY FirmwareAssumption, Zenon
  <1>3. \A i \in K : i \in Nat /\ i <= Len(u)
    BY <1>2
  <1>4. K \subseteq Nat /\ \A i \in K : Before(i) \subseteq K
    BY <1>3
  <1>5. \A S : S \subseteq K /\ S # {} => Max(S) \in S /\ \A i \in S : i <= Max(S)
    <2> SUFFICES ASSUME NEW S, S \subseteq K, S # {}
                 PROVE  Max(S) \in S /\ \A i \in S : i <= Max(S)
      OBVIOUS
    <2>1. S \subseteq Nat /\ \A i \in S : i <= Len(u)
      BY <1>3
    <2> HIDE DEF K
    <2> QED BY <1>2, <2>1, GreatestIs, Zenon
  <1>6. /\ \A i \in K : m[i].start \in Nat /\ m[i].end \in Nat /\ m[i].start <= m[i].end
        /\ \A i, j \in K : i < j => m[i].end <= m[j].start
    BY <1>1, <1>2
  <1>7. \A i \in K : AvailableEnd(m, Before(i)) = IF Before(i) = {} THEN 0 ELSE m[Max(Before(i))].end
    BY Zenon DEF AvailableEnd
  <1>8. e = IF K = {} THEN 0 ELSE m[Max(K)].end
    BY <1>1, Zenon DEF AvailableEnd
  <1>9. \A f : f \in Gaps(m) <=> \E i \in K : f \in AvailableEnd(m, Before(i)) .. m[i].start - 1
    BY <1>1, Zenon DEF Gaps
  <1>10. \A i \in K : \A f : f \in Span(u[i].start, u[i].pages) <=> f \in Int /\ m[i].start <= f /\ f < m[i].end
    BY <1>1, <1>2 DEF Span
  <1> HIDE DEF K, Before
  <1>11. e \in Nat
    BY <1>5, <1>6, <1>8
  <1>12. ASSUME NEW i \in K PROVE m[i].end <= e
    <2>1. K # {} /\ Max(K) \in K /\ i <= Max(K)
      BY <1>5
    <2>2. e = m[Max(K)].end
      BY <1>8, <2>1
    <2>3. CASE i = Max(K)
      BY <1>6, <2>2, <2>3
    <2>4. CASE i # Max(K)
      <3>1. i \in Nat /\ Max(K) \in Nat
        BY <1>4, <2>1, Zenon
      <3>2. i < Max(K)
        BY <2>1, <2>4, <3>1
      <3> QED BY <1>6, <2>1, <2>2, <3>2
    <2> QED BY <2>3, <2>4
  <1>13. ASSUME NEW i \in K PROVE AvailableEnd(m, Before(i)) \in Nat
    <2>1. CASE Before(i) = {}
      BY <1>7, <2>1
    <2>2. CASE Before(i) # {}
      <3>1. Max(Before(i)) \in K
        BY <1>4, <1>5, <2>2, Zenon
      <3> QED BY <1>6, <1>7, <2>2, <3>1
    <2> QED BY <2>1, <2>2
  <1>14. Gaps(m) \subseteq 0 .. e - 1
    BY <1>6, <1>9, <1>11, <1>12, <1>13
  <1>15. ASSUME NEW i \in K, NEW f \in AvailableEnd(m, Before(i)) .. m[i].start - 1, NEW j \in K
         PROVE  ~(m[j].start <= f /\ f < m[j].end)
    <2>1. CASE j = i
      BY <1>6, <1>13, <1>15, <2>1
    <2>2. CASE j > i
      <3>1. m[i].end <= m[j].start
        BY <1>6, <2>2, <1>4
      <3> QED BY <1>6, <1>13, <1>15, <3>1
    <2>3. CASE j < i
      <3> DEFINE p == Max(Before(i))
      <3>1. j \in Before(i)
        BY <2>3 DEF Before
      <3>2. p \in Before(i) /\ j <= p
        BY <1>4, <1>5, <3>1
      <3>3. p \in K /\ m[p].end <= f
        BY <1>4, <1>7, <1>13, <3>1, <3>2
      <3> HIDE DEF p
      <3>4. m[j].end <= m[p].end
        <4>1. CASE j = p
          BY <1>6, <3>3, <4>1
        <4>2. CASE j < p
          BY <1>6, <3>3, <4>2
        <4>3. j \in Nat /\ p \in Nat
          BY <1>4, <3>3, Zenon
        <4> QED BY <3>2, <4>1, <4>2, <4>3
      <3>5. m[j].end \in Nat /\ m[p].end \in Nat /\ f \in Int
        BY <1>6, <1>13, <3>3
      <3> QED BY <3>3, <3>4, <3>5
    <2>4. i \in Nat /\ j \in Nat
      BY <1>4, Zenon
    <2> QED BY <2>1, <2>2, <2>3, <2>4
  <1>16. ASSUME NEW f \in 0 .. e - 1, \A j \in K : ~(m[j].start <= f /\ f < m[j].end)
         PROVE  f \in Gaps(m)
    <2> DEFINE S == {j \in K : f < m[j].end}
    <2>1. K # {}
      BY <1>8
    <2>2. Max(K) \in S
      <3>1. Max(K) \in K
        BY <1>5, <2>1, Zenon
      <3>2. e = m[Max(K)].end
        BY <1>8, <2>1, Zenon
      <3>3. f < e
        BY <1>11
      <3> QED BY <3>1, <3>2, <3>3
    <2> DEFINE i == Min(S)
    <2>3. i \in S /\ \A j \in S : i <= j
      <3>1. S \subseteq Nat /\ S # {}
        BY <1>4, <2>2, Zenon
      <3> HIDE DEF S
      <3> QED BY <3>1, LeastIs, Zenon
    <2> HIDE DEF i
    <2>4. i \in K /\ f < m[i].start
      BY <1>6, <1>16, <2>3
    <2>5. ASSUME NEW j \in Before(i) PROVE j \in K /\ m[j].end <= f
      <3>1. j \in K /\ j < i
        BY <2>5 DEF Before
      <3>2. ~(i <= j)
        BY <1>4, <2>4, <3>1
      <3>3. j \notin S
        BY <2>3, <3>2
      <3> QED BY <1>6, <3>1, <3>3
    <2>6. AvailableEnd(m, Before(i)) <= f
      BY <1>4, <1>5, <1>7, <2>4, <2>5
    <2> QED BY <1>6, <1>9, <1>13, <2>4, <2>6
  <1>17. \A f \in 0 .. e - 1 : f \in Gaps(m) <=> \A i \in K : f \notin Span(u[i].start, u[i].pages)
    <2> SUFFICES ASSUME NEW f \in 0 .. e - 1
                 PROVE  f \in Gaps(m) <=> \A i \in K : f \notin Span(u[i].start, u[i].pages)
      OBVIOUS
    <2>1. \A i \in K : f \in Span(u[i].start, u[i].pages) <=> m[i].start <= f /\ f < m[i].end
      BY <1>10, <1>11
    <2>2. f \in Gaps(m) => \A j \in K : ~(m[j].start <= f /\ f < m[j].end)
      BY <1>9, <1>15, Zenon
    <2> QED BY <1>16, <2>1, <2>2, Zenon
  <1> QED BY <1>11, <1>14, <1>17 DEF K

(* The search from a frame finds the lowest run from there on. *)
LEMMA FirstFit ==
    ASSUME end \in Nat, NEW num \in Nat \ {0}
    PROVE  Allocate(num) = IF Fits(num) = {} THEN NotEnoughFrame ELSE Min(Fits(num))
  <1> DEFINE D == 0 .. (end + num + 1)
             stops(f) == {i \in 0 .. (num - 1) : f + i >= end \/ f + i \in allocated}
             step(h, f) == IF stops(f) = {} THEN f
                           ELSE IF f + Min(stops(f)) >= end THEN NotEnoughFrame
                           ELSE h[f + Min(stops(f)) + 1]
             Found(f) == {x \in f .. (end - 1) : x + num <= end /\ Span(x, num) \intersect allocated = {}}
             g == [f \in D |-> IF Found(f) = {} THEN NotEnoughFrame ELSE Min(Found(f))]
             p == CHOOSE h : h = [f \in D |-> step(h, f)]
  <1>1. Allocate(num) = p[1]
    BY Zenon DEF Allocate, FrameMin
  <1>2. Found(1) = Fits(num)
    BY Zenon DEF Fits, FrameMin
  <1>3. \A f \in D : Found(f) \subseteq Nat /\ \A x \in Found(f) : f <= x
    OBVIOUS
  <1>4. ASSUME NEW f \in D, stops(f) = {} PROVE Found(f) # {} /\ Min(Found(f)) = f
    <2>0. \A i \in 0 .. num - 1 : ~(f + i >= end) /\ f + i \notin allocated
      BY <1>4, Zenon
    <2>1. \A i \in 0 .. num - 1 : f + i < end /\ f + i \notin allocated
      <3> HIDE DEF stops
      <3> QED BY <2>0
    <2>2. 0 \in 0 .. num - 1 /\ num - 1 \in 0 .. num - 1 /\ f \in Nat
      OBVIOUS
    <2>3. f + 0 < end /\ f + (num - 1) < end
      BY <2>1, <2>2
    <2>4. f \in f .. end - 1 /\ f + num <= end
      BY <2>3
    <2>5. \A w \in Span(f, num) : w - f \in 0 .. num - 1 /\ w = f + (w - f)
      BY DEF Span
    <2>6. Span(f, num) \intersect allocated = {}
      BY <2>1, <2>5
    <2>7. f \in Found(f)
      BY <2>4, <2>6
    <2> HIDE DEF Found
    <2>8. Min(Found(f)) \in Found(f) /\ Min(Found(f)) <= f
      BY <1>3, <2>7, LeastIs
    <2>9. f <= Min(Found(f)) /\ Min(Found(f)) \in Nat
      BY <1>3, <2>8
    <2> QED BY <2>2, <2>7, <2>8, <2>9
  <1>5. ASSUME NEW f \in D, stops(f) # {}
        PROVE  /\ Min(stops(f)) \in 0 .. num - 1
               /\ f + Min(stops(f)) >= end => Found(f) = {}
               /\ ~(f + Min(stops(f)) >= end) =>
                     f + Min(stops(f)) + 1 \in D /\ Found(f + Min(stops(f)) + 1) = Found(f)
    <2> DEFINE m == Min(stops(f))
    <2>1. m \in stops(f)
      <3>1. stops(f) \subseteq Nat
        OBVIOUS
      <3> HIDE DEF stops
      <3> QED BY <1>5, <3>1, LeastIs
    <2>2. m \in 0 .. num - 1 /\ (f + m >= end \/ f + m \in allocated)
      BY <2>1
    <2> HIDE DEF m
    <2>3. ASSUME NEW x \in Found(f) PROVE x > f + m
      <3>1. x \in Nat /\ f <= x /\ x + num <= end /\ Span(x, num) \intersect allocated = {}
        BY <1>3
      <3>2. CASE x <= f + m
        <4>1. f + m \in Span(x, num) /\ f + m < end
          BY <2>2, <3>1, <3>2 DEF Span
        <4> QED BY <2>2, <3>1, <4>1
      <3> QED BY <2>2, <3>1, <3>2
    <2>4. f + m >= end => Found(f) = {}
      BY <2>2, <2>3
    <2>5. f + m + 1 \in Nat /\ (~(f + m >= end) => f + m + 1 \in D)
      BY <2>2
    <2>6. Found(f + m + 1) = Found(f)
      <3>1. ASSUME NEW x \in Found(f) PROVE x \in Found(f + m + 1)
        BY <2>2, <2>3, <2>5
      <3>2. ASSUME NEW x \in Found(f + m + 1) PROVE x \in Found(f)
        BY <2>2, <2>5
      <3> HIDE DEF Found
      <3> QED BY <3>1, <3>2
    <2> QED BY <2>2, <2>4, <2>5, <2>6, Zenon DEF m
  <1>6. ASSUME NEW f \in D PROVE g[f] = step(g, f)
    <2>1. g[f] = IF Found(f) = {} THEN NotEnoughFrame ELSE Min(Found(f))
      BY Zenon
    <2>2. CASE stops(f) = {}
      <3> HIDE DEF stops, Found, g
      <3> QED BY <1>4, <2>1, <2>2, Zenon
    <2>3. CASE stops(f) # {} /\ f + Min(stops(f)) >= end
      <3> HIDE DEF stops, Found, g
      <3> QED BY <1>5, <2>1, <2>3, Zenon
    <2>4. CASE stops(f) # {} /\ ~(f + Min(stops(f)) >= end)
      <3> DEFINE n == f + Min(stops(f)) + 1
      <3>1. n \in D /\ Found(n) = Found(f)
        <4> HIDE DEF stops, Found, D
        <4> QED BY <1>5, <2>4, Zenon
      <3>2. g[n] = IF Found(n) = {} THEN NotEnoughFrame ELSE Min(Found(n))
        BY <3>1, Zenon
      <3> HIDE DEF stops, Found, g
      <3> QED BY <2>1, <2>4, <3>1, <3>2, Zenon
    <2> HIDE DEF stops, Found, g
    <2> QED BY <2>2, <2>3, <2>4, Zenon
  <1>7. p = [f \in D |-> step(p, f)]
    <2>1. g = [f \in D |-> g[f]]
      BY Zenon
    <2> HIDE DEF stops, Found, g, D
    <2>2. g = [f \in D |-> step(g, f)]
      BY <1>6, <2>1, Zenon
    <2> QED BY <2>2, Zenon
  <1> HIDE DEF p
  <1>8. \A f \in D : p[f] = step(p, f)
    <2> HIDE DEF stops, Found, g, D
    <2> QED BY <1>7, Zenon
  <1> DEFINE T == {f \in D : p[f] # g[f]}
  <1>9. T = {}
    <2> SUFFICES ASSUME T # {} PROVE FALSE
      BY Zenon
    <2> DEFINE t == Max(T)
    <2>1. t \in T /\ \A f \in T : f <= t
      <3>1. T \subseteq Nat /\ end + num + 1 \in Nat /\ \A f \in T : f <= end + num + 1
        OBVIOUS
      <3> HIDE DEF T
      <3> QED BY <3>1, GreatestIs, Zenon
    <2> HIDE DEF t
    <2>2. t \in D /\ p[t] # g[t] /\ p[t] = step(p, t) /\ g[t] = step(g, t)
      BY <1>6, <1>8, <2>1, Zenon
    <2>3. stops(t) # {} /\ ~(t + Min(stops(t)) >= end)
      <3> HIDE DEF stops, Found, g, D
      <3>1. CASE stops(t) = {}
        <4>1. p[t] = t /\ g[t] = t
          BY <2>2, <3>1, Zenon
        <4> QED BY <2>2, <4>1, Zenon
      <3>2. CASE stops(t) # {} /\ t + Min(stops(t)) >= end
        <4>1. p[t] = NotEnoughFrame /\ g[t] = NotEnoughFrame
          BY <2>2, <3>2, Zenon
        <4> QED BY <2>2, <4>1, Zenon
      <3> QED BY <3>1, <3>2, Zenon
    <2> DEFINE n == t + Min(stops(t)) + 1
    <2>4. n \in D /\ ~(n <= t)
      <3>1. n \in D /\ Min(stops(t)) \in 0 .. num - 1
        <4> HIDE DEF stops, Found, g, D
        <4> QED BY <1>5, <2>2, <2>3, Zenon
      <3> HIDE DEF stops
      <3> QED BY <2>2, <3>1
    <2>5. p[n] = g[n]
      <3> HIDE DEF n, g, D
      <3> QED BY <2>1, <2>4, Zenon
    <2> HIDE DEF stops, Found, g, D
    <2> QED BY <2>2, <2>3, <2>5, Zenon
  <1>10. 1 \in D
    OBVIOUS
  <1>11. p[1] = g[1]
    <2> HIDE DEF g, D
    <2> QED BY <1>9, <1>10, Zenon
  <1>12. g[1] = IF Found(1) = {} THEN NotEnoughFrame ELSE Min(Found(1))
    <2> HIDE DEF Found, D
    <2> QED BY <1>10, Zenon
  <1> HIDE DEF Found, g
  <1> QED BY <1>1, <1>2, <1>11, <1>12, Zenon

(* What allocate returns is in range and free. *)
LEMMA AllocateIs ==
    ASSUME end \in Nat, NEW num \in Nat \ {0}, NEW f, f = Allocate(num), f # NotEnoughFrame
    PROVE  /\ f \in Nat /\ f >= FrameMin /\ f + num <= end
           /\ Span(f, num) \subseteq InRange /\ Span(f, num) \intersect allocated = {}
  <1>1. Fits(num) \subseteq Nat
    BY DEF Fits, FrameMin
  <1>2. f \in Fits(num)
    BY <1>1, FirstFit, LeastIs, Zenon
  <1>3. f \in Nat /\ f >= 1 /\ f + num <= end /\ Span(f, num) \intersect allocated = {}
    BY <1>2 DEF Fits, FrameMin
  <1>4. Span(f, num) \subseteq InRange
    BY <1>3 DEF Span, InRange, FrameMin
  <1> QED BY <1>3, <1>4 DEF FrameMin

(* allocate is first fit. *)
LEMMA FitIs == end \in Nat => FirstFitExact
  BY FirstFit DEF FirstFitExact

(* The words of the memory range. *)
LEMMA WordsAre ==
    ASSUME end \in Nat
    PROVE  /\ end * FrameSize \in Nat /\ Words = 0 .. end * FrameSize - 1 /\ Words \subseteq Nat
           /\ Steps = end * FrameSize /\ IsFiniteSet(Words) /\ Null \notin Words
  <1> DEFINE n == end * FrameSize
  <1>1. n \in Nat /\ Words = 0 .. n - 1
    BY AllocatorAssumption DEF Words
  <1> HIDE DEF n
  <1>2. IsFiniteSet(0 .. n - 1) /\ Cardinality(0 .. n - 1) = IF 0 > n - 1 THEN 0 ELSE n - 1 - 0 + 1
    BY <1>1, FS_Interval
  <1>3. Cardinality(0 .. n - 1) = n
    BY <1>1, <1>2
  <1>4. 0 .. n - 1 \subseteq Nat
    BY <1>1
  <1> QED BY <1>1, <1>2, <1>3, <1>4, AllocatorAssumption DEF Steps, n

(* A list that satisfies the equation of Follow is what Follow returns. *)
LEMMA FollowIs ==
    ASSUME end \in Nat, NEW p, NEW mem, NEW size, NEW g, IsList(g, p, mem, size)
    PROVE  Follow(p, mem) = g
  <1> DEFINE D == 0 .. Steps
             step(w, k) == IF k = 0 THEN p ELSE IF w[k - 1] \in Words THEN mem[w[k - 1]] ELSE w[k - 1]
             f == CHOOSE w : w = [k \in D |-> step(w, k)]
  <1>1. Follow(p, mem) = f
    BY Zenon DEF Follow
  <1>2. g = [k \in D |-> step(g, k)]
    BY Zenon DEF IsList
  <1>3. f = [k \in D |-> step(f, k)]
    BY <1>2, Zenon
  <1> HIDE DEF f
  <1>4. \A k \in D : f[k] = step(f, k) /\ g[k] = step(g, k)
    BY <1>2, <1>3, Zenon
  <1> DEFINE T == {k \in D : f[k] # g[k]}
  <1>5. T = {}
    <2> SUFFICES ASSUME T # {} PROVE FALSE
      OBVIOUS
    <2>1. T \subseteq Nat /\ D \subseteq Nat
      BY WordsAre
    <2> DEFINE t == Min(T)
    <2>2. t \in T /\ \A k \in T : t <= k
      BY <2>1, LeastIs, Zenon
    <2> HIDE DEF t
    <2>3. t \in D /\ f[t] # g[t] /\ f[t] = step(f, t) /\ g[t] = step(g, t)
      BY <1>4, <2>2, Zenon
    <2>4. t # 0
      BY <2>3, Zenon
    <2>5. t - 1 \in D /\ ~(t <= t - 1)
      BY <2>3, <2>4, WordsAre
    <2>6. f[t - 1] = g[t - 1]
      BY <2>2, <2>5, Zenon
    <2>7. step(f, t) = step(g, t)
      BY <2>6
    <2> QED BY <2>3, <2>7, Zenon
  <1>6. \A k \in D : f[k] = g[k]
    BY <1>5, Zenon
  <1>7. f = [k \in D |-> f[k]] /\ g = [k \in D |-> g[k]]
    BY <1>2, <1>3, Zenon
  <1>8. f = g
    <2> HIDE DEF D
    <2> QED BY <1>6, <1>7
  <1> QED BY <1>1, <1>8, Zenon

(* What a list consists of, element by element. *)
LEMMA ListIs ==
    ASSUME end \in Nat, NEW p, NEW mem, NEW size, NEW w, IsList(w, p, mem, size)
    PROVE  /\ Steps \in Nat /\ w[0] = p /\ w[Steps] = Null
           /\ \A k \in 1 .. Steps : w[k] = IF w[k - 1] = Null THEN Null ELSE mem[w[k - 1]]
           /\ \A k \in 0 .. Steps : w[k] # Null => w[k] \in Blocks(w)
           /\ \A q \in Blocks(w) : q \in Words /\ q \in Nat /\ q % size = 0 /\ \E k \in 0 .. Steps : w[k] = q
  <1>1. Steps \in Nat /\ Null \notin Words /\ Words \subseteq Nat
    BY WordsAre
  <1>2. w = [k \in 0 .. Steps |->
               IF k = 0 THEN p ELSE IF w[k - 1] \in Words THEN mem[w[k - 1]] ELSE w[k - 1]]
    BY Zenon DEF IsList
  <1>3. \A k \in 0 .. Steps :
           w[k] = IF k = 0 THEN p ELSE IF w[k - 1] \in Words THEN mem[w[k - 1]] ELSE w[k - 1]
    BY <1>2, Zenon
  <1>4. w[0] = p
    BY <1>1, <1>3
  <1>5. \A k \in 0 .. Steps : w[k] # Null => w[k] \in Blocks(w)
    BY Zenon DEF Blocks
  <1>6. \A q \in Blocks(w) : q \in Words /\ q % size = 0
    BY Zenon DEF IsList
  <1>7. \A q \in Blocks(w) : \E k \in 0 .. Steps : w[k] = q
    BY Zenon DEF Blocks
  <1>8. ASSUME NEW k \in 1 .. Steps PROVE w[k] = IF w[k - 1] = Null THEN Null ELSE mem[w[k - 1]]
    <2>1. k \in 0 .. Steps /\ k # 0 /\ k - 1 \in 0 .. Steps
      BY <1>1
    <2>2. w[k] = IF w[k - 1] \in Words THEN mem[w[k - 1]] ELSE w[k - 1]
      BY <1>3, <2>1, Zenon
    <2>3. w[k - 1] # Null => w[k - 1] \in Words
      BY <1>5, <1>6, <2>1, Zenon
    <2> QED BY <1>1, <2>2, <2>3, Zenon
  <1>9. w[Steps] = Null
    BY Zenon DEF IsList
  <1> QED BY <1>1, <1>4, <1>5, <1>6, <1>7, <1>8, <1>9, Zenon

(* Conversely, these facts make a list. *)
LEMMA MakeList ==
    ASSUME end \in Nat, NEW p, NEW mem, NEW size, NEW w, w = [k \in 0 .. Steps |-> w[k]],
           w[0] = p, w[Steps] = Null,
           \A k \in 1 .. Steps : w[k] = IF w[k - 1] = Null THEN Null ELSE mem[w[k - 1]],
           \A k \in 0 .. Steps : w[k] # Null => w[k] \in Words /\ w[k] % size = 0,
           \A k, m \in 0 .. Steps : w[k] = w[m] /\ w[k] # Null => k = m
    PROVE  IsList(w, p, mem, size)
  <1>1. Steps \in Nat /\ Null \notin Words
    BY WordsAre
  <1>2. ASSUME NEW q \in Blocks(w) PROVE q \in Words /\ q % size = 0
    <2>1. PICK k \in 0 .. Steps : q = w[k] /\ w[k] # Null
      BY DEF Blocks
    <2> QED BY <2>1, Zenon
  <1>3. ASSUME NEW k \in 0 .. Steps
        PROVE  w[k] = IF k = 0 THEN p ELSE IF w[k - 1] \in Words THEN mem[w[k - 1]] ELSE w[k - 1]
    <2>1. CASE k = 0
      BY <2>1
    <2>2. CASE k # 0
      <3>1. k \in 1 .. Steps /\ k - 1 \in 0 .. Steps
        BY <1>1, <2>2
      <3>2. w[k] = IF w[k - 1] = Null THEN Null ELSE mem[w[k - 1]]
        BY <3>1, Zenon
      <3>3. w[k - 1] # Null => w[k - 1] \in Words
        BY <3>1, Zenon
      <3> QED BY <1>1, <2>2, <3>2, <3>3, Zenon
    <2> QED BY <2>1, <2>2
  <1>4. w = [k \in 0 .. Steps |->
               IF k = 0 THEN p ELSE IF w[k - 1] \in Words THEN mem[w[k - 1]] ELSE w[k - 1]]
    BY <1>3, Zenon
  <1> QED BY <1>2, <1>4, Zenon DEF IsList

(* A list stays as it is when the words its links are in do. *)
LEMMA ListSame ==
    ASSUME end \in Nat, NEW p, NEW mem, NEW size, NEW w, IsList(w, p, mem, size), NEW mem2,
           \A q \in Blocks(w) : mem2[q] = mem[q]
    PROVE  IsList(w, p, mem2, size)
  <1>1. /\ w[0] = p /\ w[Steps] = Null /\ Steps \in Nat
        /\ \A k \in 1 .. Steps : w[k] = IF w[k - 1] = Null THEN Null ELSE mem[w[k - 1]]
        /\ \A k \in 0 .. Steps : w[k] # Null => w[k] \in Blocks(w)
        /\ \A q \in Blocks(w) : q \in Words /\ q % size = 0
    BY ListIs
  <1>2. w = [k \in 0 .. Steps |-> w[k]]
    <2>1. w = [k \in 0 .. Steps |->
                 IF k = 0 THEN p ELSE IF w[k - 1] \in Words THEN mem[w[k - 1]] ELSE w[k - 1]]
      BY Zenon DEF IsList
    <2> QED BY <2>1, Zenon
  <1>3. \A k, m \in 0 .. Steps : w[k] = w[m] /\ w[k] # Null => k = m
    BY Zenon DEF IsList
  <1>4. ASSUME NEW k \in 1 .. Steps PROVE w[k] = IF w[k - 1] = Null THEN Null ELSE mem2[w[k - 1]]
    <2>1. k - 1 \in 0 .. Steps
      BY <1>1
    <2> QED BY <1>1, <2>1, Zenon
  <1>5. \A k \in 0 .. Steps : w[k] # Null => w[k] \in Words /\ w[k] % size = 0
    BY <1>1, Zenon
  <1> QED BY <1>1, <1>2, <1>3, <1>4, <1>5, MakeList, Zenon

(* Once a list has ended it stays so. *)
LEMMA ListEnded ==
    ASSUME end \in Nat, NEW p, NEW mem, NEW size, NEW w, IsList(w, p, mem, size),
           NEW k \in 0 .. Steps, w[k] = Null, NEW m \in 0 .. Steps, k <= m
    PROVE  w[m] = Null
  <1>1. /\ Steps \in Nat
        /\ \A n \in 1 .. Steps : w[n] = IF w[n - 1] = Null THEN Null ELSE mem[w[n - 1]]
    BY ListIs
  <1> DEFINE T == {n \in 0 .. Steps : k <= n /\ w[n] # Null}
  <1>2. T = {}
    <2> SUFFICES ASSUME T # {} PROVE FALSE
      OBVIOUS
    <2> DEFINE t == Min(T)
    <2>1. T \subseteq Nat
      BY <1>1
    <2>2. t \in T /\ \A n \in T : t <= n
      BY <2>1, LeastIs, Zenon
    <2> HIDE DEF t
    <2>3. t \in 0 .. Steps /\ k <= t /\ w[t] # Null
      BY <2>2
    <2>4. t - 1 \in 0 .. Steps /\ t \in 1 .. Steps /\ k <= t - 1 /\ ~(t <= t - 1)
      BY <1>1, <2>3
    <2>5. w[t - 1] = Null
      BY <2>2, <2>4, Zenon
    <2> QED BY <1>1, <2>3, <2>4, <2>5, Zenon
  <1> QED BY <1>2

(* alloc takes the head off its list, whatever it writes elsewhere. *)
LEMMA ListPop ==
    ASSUME end \in Nat, NEW p, NEW mem, NEW size, NEW w, IsList(w, p, mem, size), p # Null, NEW mem2,
           \A q \in Blocks(w) : q # p => mem2[q] = mem[q]
    PROVE  \E v : IsList(v, mem[p], mem2, size) /\ Blocks(v) = Blocks(w) \ {p}
  <1>1. /\ w[0] = p /\ w[Steps] = Null /\ Steps \in Nat
        /\ \A k \in 1 .. Steps : w[k] = IF w[k - 1] = Null THEN Null ELSE mem[w[k - 1]]
        /\ \A k \in 0 .. Steps : w[k] # Null => w[k] \in Blocks(w)
        /\ \A q \in Blocks(w) : q \in Words /\ q % size = 0
        /\ \A q \in Blocks(w) : \E k \in 0 .. Steps : w[k] = q
    BY ListIs
  <1>2. \A k, m \in 0 .. Steps : w[k] = w[m] /\ w[k] # Null => k = m
    BY Zenon DEF IsList
  <1>3. Steps >= 1
    BY <1>1
  <1> DEFINE v == [k \in 0 .. Steps |-> IF k < Steps THEN w[k + 1] ELSE Null]
  <1>4. v[0] = mem[p]
    <2>1. v[0] = w[1] /\ 1 \in 1 .. Steps
      BY <1>1, <1>3
    <2>2. w[1] = mem[w[0]]
      BY <1>1, <2>1
    <2> QED BY <1>1, <2>1, <2>2
  <1>5. v[Steps] = Null
    BY <1>1
  <1>6. v = [k \in 0 .. Steps |-> v[k]]
    OBVIOUS
  <1>7. ASSUME NEW k \in 0 .. Steps, v[k] # Null
        PROVE  k < Steps /\ k + 1 \in 0 .. Steps /\ v[k] = w[k + 1] /\ v[k] \in Blocks(w) /\ v[k] # p
    <2>1. k < Steps /\ k + 1 \in 0 .. Steps /\ v[k] = w[k + 1] /\ 0 \in 0 .. Steps /\ 0 # k + 1
      BY <1>1, <1>7
    <2> HIDE DEF v
    <2> QED BY <1>1, <1>2, <1>7, <2>1
  <1>8. ASSUME NEW k \in 1 .. Steps PROVE v[k] = IF v[k - 1] = Null THEN Null ELSE mem2[v[k - 1]]
    <2>1. k - 1 \in 0 .. Steps /\ v[k - 1] = w[k]
      BY <1>1
    <2>2. CASE k = Steps
      BY <1>1, <2>1, <2>2
    <2>3. CASE k # Steps
      <3>1. v[k] = w[k + 1] /\ k + 1 \in 1 .. Steps /\ (k + 1) - 1 = k
        BY <1>1, <2>3
      <3>2. w[k + 1] = IF w[k] = Null THEN Null ELSE mem[w[k]]
        BY <1>1, <3>1
      <3>3. v[k - 1] # Null => mem2[v[k - 1]] = mem[v[k - 1]]
        <4> HIDE DEF v
        <4> QED BY <1>7, <2>1
      <3> HIDE DEF v
      <3> QED BY <2>1, <3>1, <3>2, <3>3
    <2> QED BY <2>2, <2>3
  <1>9. ASSUME NEW k \in 0 .. Steps, NEW m \in 0 .. Steps, v[k] = v[m], v[k] # Null PROVE k = m
    <2>1. /\ k + 1 \in 0 .. Steps /\ v[k] = w[k + 1]
          /\ m + 1 \in 0 .. Steps /\ v[m] = w[m + 1]
      BY <1>7, <1>9, Zenon
    <2>2. k + 1 = m + 1
      BY <1>2, <1>9, <2>1, Zenon
    <2> HIDE DEF v
    <2> QED BY <1>1, <2>2
  <1>10. \A k \in 0 .. Steps : v[k] # Null => v[k] \in Words /\ v[k] % size = 0
    BY <1>1, <1>7, Zenon
  <1>11. ASSUME NEW q \in Blocks(w), q # p PROVE q \in Blocks(v)
    <2>1. PICK k \in 0 .. Steps : w[k] = q
      BY <1>1
    <2>2. k # 0 /\ q # Null
      BY <1>1, <1>11, <2>1, WordsAre
    <2>3. k - 1 \in 0 .. Steps /\ k - 1 < Steps /\ (k - 1) + 1 = k
      BY <1>1, <2>2
    <2>4. v[k - 1] = q
      BY <2>1, <2>3
    <2> HIDE DEF v
    <2> QED BY <2>2, <2>3, <2>4 DEF Blocks
  <1>12. ASSUME NEW q \in Blocks(v) PROVE q \in Blocks(w) /\ q # p
    <2>1. PICK k \in 0 .. Steps : q = v[k] /\ v[k] # Null
      <3> HIDE DEF v
      <3> QED BY <1>12 DEF Blocks
    <2> HIDE DEF v
    <2> QED BY <1>7, <2>1
  <1> HIDE DEF v
  <1>13. IsList(v, mem[p], mem2, size)
    BY <1>4, <1>5, <1>6, <1>8, <1>9, <1>10, MakeList, Zenon
  <1>14. Blocks(v) = Blocks(w) \ {p}
    BY <1>11, <1>12
  <1> QED BY <1>13, <1>14, Zenon

(* dealloc puts a block in front of the list, if it was not on it. *)
LEMMA ListPush ==
    ASSUME end \in Nat, NEW p, NEW mem, NEW size, NEW w, IsList(w, p, mem, size), NEW mem2,
           \A q \in Blocks(w) : mem2[q] = mem[q],
           NEW r \in Words, r \notin Blocks(w), r % size = 0, mem2[r] = p
    PROVE  \E v : IsList(v, r, mem2, size) /\ Blocks(v) = Blocks(w) \cup {r}
  <1>1. /\ w[0] = p /\ w[Steps] = Null /\ Steps \in Nat
        /\ \A k \in 1 .. Steps : w[k] = IF w[k - 1] = Null THEN Null ELSE mem[w[k - 1]]
        /\ \A k \in 0 .. Steps : w[k] # Null => w[k] \in Blocks(w)
        /\ \A q \in Blocks(w) : q \in Words /\ q % size = 0
        /\ \A q \in Blocks(w) : \E k \in 0 .. Steps : w[k] = q
    BY ListIs
  <1>2. \A k, m \in 0 .. Steps : w[k] = w[m] /\ w[k] # Null => k = m
    BY Zenon DEF IsList
  <1>3. Steps >= 1 /\ Null \notin Words /\ IsFiniteSet(Words) /\ Cardinality(Words) = Steps
    BY WordsAre DEF Steps
  <1>4. w[Steps - 1] = Null
    <2> SUFFICES ASSUME w[Steps - 1] # Null PROVE FALSE
      OBVIOUS
    <2> DEFINE A == 0 .. Steps - 1
               B == Words \ {r}
               f == [k \in A |-> w[k]]
    <2>1. Steps - 1 \in 0 .. Steps /\ \A k \in A : k \in 0 .. Steps /\ k <= Steps - 1
      BY <1>1, <1>3
    <2>2. \A k \in A : w[k] # Null
      BY <2>1, ListEnded
    <2>3. \A k \in A : w[k] \in B
      BY <1>1, <2>1, <2>2
    <2>4. \A k, m \in A : w[k] = w[m] => k = m
      BY <1>2, <2>1, <2>2
    <2>5. IsFiniteSet(A) /\ Cardinality(A) = Steps
      <3>1. IsFiniteSet(A) /\ Cardinality(A) = IF 0 > Steps - 1 THEN 0 ELSE Steps - 1 - 0 + 1
        BY <1>1, FS_Interval
      <3> QED BY <1>1, <1>3, <3>1
    <2>6. IsFiniteSet(B) /\ Cardinality(B) = Steps - 1
      BY <1>3, FS_RemoveElement
    <2>7. f \in [A -> B] /\ \A k \in A : f[k] = w[k]
      BY <2>3
    <2> HIDE DEF A, B, f
    <2>8. \E k, m \in A : k # m /\ f[k] = f[m]
      BY <1>1, <2>5, <2>6, <2>7, FS_PigeonHole
    <2> QED BY <2>4, <2>7, <2>8
  <1> DEFINE v == [k \in 0 .. Steps |-> IF k = 0 THEN r ELSE w[k - 1]]
  <1>5. v[0] = r /\ v[Steps] = Null /\ v = [k \in 0 .. Steps |-> v[k]]
    BY <1>1, <1>3, <1>4
  <1>6. \A k \in 1 .. Steps : v[k] = w[k - 1] /\ k - 1 \in 0 .. Steps /\ k \in 0 .. Steps
    BY <1>1
  <1>7. r # Null
    BY <1>3
  <1> HIDE DEF v
  <1>8. ASSUME NEW k \in 1 .. Steps PROVE v[k] = IF v[k - 1] = Null THEN Null ELSE mem2[v[k - 1]]
    <2>1. CASE k = 1
      <3>0. k - 1 = 0 /\ v[k] = w[k - 1]
        BY <1>6, <2>1
      <3>1. v[k] = p /\ v[k - 1] = r
        BY <1>1, <1>5, <3>0
      <3> QED BY <1>7, <3>1
    <2>2. CASE k # 1
      <3>1. k - 1 \in 1 .. Steps
        BY <1>1, <2>2
      <3>2. v[k] = w[k - 1] /\ v[k - 1] = w[(k - 1) - 1] /\ (k - 1) - 1 \in 0 .. Steps
        BY <1>6, <3>1
      <3>3. w[k - 1] = IF w[(k - 1) - 1] = Null THEN Null ELSE mem[w[(k - 1) - 1]]
        BY <1>1, <3>1, Zenon
      <3>4. w[(k - 1) - 1] # Null => mem2[w[(k - 1) - 1]] = mem[w[(k - 1) - 1]]
        BY <1>1, <3>2, Zenon
      <3> QED BY <3>2, <3>3, <3>4, Zenon
    <2> QED BY <2>1, <2>2
  <1>9. ASSUME NEW k \in 0 .. Steps, v[k] # Null, k # 0
        PROVE  k \in 1 .. Steps /\ v[k] = w[k - 1] /\ k - 1 \in 0 .. Steps /\ v[k] \in Blocks(w)
    <2>1. k \in 1 .. Steps
      BY <1>1, <1>9
    <2> QED BY <1>1, <1>6, <1>9, <2>1, Zenon
  <1>10. ASSUME NEW k \in 0 .. Steps, NEW m \in 0 .. Steps, v[k] = v[m], v[k] # Null PROVE k = m
    <2>1. CASE k = 0 /\ m = 0
      BY <2>1
    <2>2. CASE k # 0 /\ m = 0
      BY <1>5, <1>9, <1>10, <2>2, Zenon
    <2>3. CASE k = 0 /\ m # 0
      <3>1. v[m] \in Blocks(w)
        BY <1>9, <1>10, <2>3, Zenon
      <3>2. v[m] = r
        BY <1>5, <1>10, <2>3
      <3> QED BY <3>1, <3>2
    <2>4. CASE k # 0 /\ m # 0
      <3>1. k - 1 = m - 1
        BY <1>2, <1>9, <1>10, <2>4
      <3> QED BY <1>1, <3>1
    <2> QED BY <2>1, <2>2, <2>3, <2>4
  <1>11. ASSUME NEW k \in 0 .. Steps, v[k] # Null PROVE v[k] \in Words /\ v[k] % size = 0
    <2>1. CASE k = 0
      BY <1>5, <2>1
    <2>2. CASE k # 0
      BY <1>1, <1>9, <1>11, <2>2, Zenon
    <2> QED BY <2>1, <2>2
  <1>12. ASSUME NEW q \in Blocks(v) PROVE q \in Blocks(w) \cup {r}
    <2>1. PICK k \in 0 .. Steps : q = v[k] /\ v[k] # Null
      BY <1>12 DEF Blocks
    <2> QED BY <1>5, <1>9, <2>1
  <1>13. ASSUME NEW q \in Blocks(w) PROVE q \in Blocks(v)
    <2>1. PICK k \in 0 .. Steps : w[k] = q
      BY <1>1
    <2>2. q # Null
      BY <1>1, <1>3, <1>13, Zenon
    <2>3. k # Steps
      BY <1>1, <2>1, <2>2
    <2>4. k + 1 \in 1 .. Steps /\ k + 1 \in 0 .. Steps /\ (k + 1) - 1 = k
      BY <1>1, <2>3
    <2>5. v[k + 1] = q
      BY <1>6, <2>1, <2>4
    <2> QED BY <2>2, <2>4, <2>5 DEF Blocks
  <1>14. r \in Blocks(v)
    <2>1. 0 \in 0 .. Steps
      BY <1>1
    <2> QED BY <1>5, <1>7, <2>1 DEF Blocks
  <1>15. IsList(v, r, mem2, size)
    BY <1>5, <1>8, <1>10, <1>11, MakeList, Zenon
  <1>16. Blocks(v) = Blocks(w) \cup {r}
    BY <1>12, <1>13, <1>14
  <1> QED BY <1>15, <1>16, Zenon

(* Block k of the frame f when it is cut into blocks of a size. *)
Cell(f, size, k) == FrameSize * f + size * k

(* The blocks of a frame lie in it, one behind the other. *)
LEMMA CellIs ==
    ASSUME NEW f \in Nat, NEW size \in Nat \ {0}, FrameSize % size = 0
    PROVE  /\ FrameSize \div size \in Nat \ {0} /\ FrameSize \div size <= FrameSize
           /\ size * (FrameSize \div size) = FrameSize
           /\ \A k \in 0 .. (FrameSize \div size) - 1 :
                 /\ Cell(f, size, k) \in Nat /\ Cell(f, size, k) \div FrameSize = f
                 /\ Cell(f, size, k) % FrameSize = size * k /\ Cell(f, size, k) % size = 0
                 /\ size * k \in 0 .. FrameSize - size
                 /\ size * k = FrameSize - size <=> k = (FrameSize \div size) - 1
                 /\ Cell(f, size, k) + size = Cell(f, size, k + 1)
  <1> DEFINE n == FrameSize \div size
  <1>0. FrameSize \in Nat \ {0}
    BY AllocatorAssumption
  <1>1. n \in Nat /\ size * n = FrameSize
    BY <1>0, Quotient
  <1> HIDE DEF n
  <1>2. n # 0
    BY <1>0, <1>1
  <1>3. n <= FrameSize
    BY <1>0, <1>1, <1>2
  <1>4. ASSUME NEW k \in 0 .. n - 1
        PROVE  /\ Cell(f, size, k) \in Nat /\ Cell(f, size, k) \div FrameSize = f
               /\ Cell(f, size, k) % FrameSize = size * k /\ Cell(f, size, k) % size = 0
               /\ size * k \in 0 .. FrameSize - size
               /\ size * k = FrameSize - size <=> k = n - 1
               /\ Cell(f, size, k) + size = Cell(f, size, k + 1)
    <2> DEFINE j == (n - 1) - k
    <2>1. j \in Nat /\ size * j \in Nat /\ (size * j = 0 <=> j = 0)
      BY <1>1
    <2>2. size * k + size * j + size = FrameSize
      <3>1. size * k + size * j + size = size * (k + j + 1) /\ k + j + 1 = n
        BY <1>1
      <3> QED BY <1>1, <3>1
    <2>3. size * k \in Nat /\ FrameSize * f \in Nat
      BY <1>0, <1>1
    <2>4. j = 0 <=> k = n - 1
      BY <1>1
    <2> HIDE DEF j
    <2>5. size * k \in 0 .. FrameSize - size /\ size * k \in 0 .. FrameSize - 1
      BY <1>0, <2>1, <2>2, <2>3
    <2>6. size * k = FrameSize - size <=> k = n - 1
      BY <1>0, <2>1, <2>2, <2>3, <2>4
    <2>7. Cell(f, size, k) = FrameSize * f + size * k /\ Cell(f, size, k) \in Nat
      BY <2>3 DEF Cell
    <2>8. Cell(f, size, k) \div FrameSize = f /\ Cell(f, size, k) % FrameSize = size * k
      BY <1>0, <2>5, <2>7, Divided, ZenonT(40)
    <2>9. Cell(f, size, k) % size = 0
      <3>1. n * f + k \in Nat /\ Cell(f, size, k) = size * (n * f + k) + 0 /\ 0 \in 0 .. size - 1
        <4>1. n * f \in Nat /\ (size * n) * f = size * (n * f)
          BY <1>1
        <4>2. size * (n * f + k) = size * (n * f) + size * k
          BY <4>1
        <4> QED BY <1>1, <2>3, <2>7, <4>1, <4>2
      <3> DEFINE q == n * f + k
      <3>2. (size * q + 0) % size = 0
        <4>1. q \in Nat /\ 0 \in 0 .. size - 1
          BY <3>1
        <4> HIDE DEF q
        <4> QED BY <4>1, Divided
      <3> QED BY <3>1, <3>2
    <2>10. Cell(f, size, k) + size = Cell(f, size, k + 1)
      <3>1. size * (k + 1) = size * k + size
        OBVIOUS
      <3> QED BY <2>3, <2>7, <3>1 DEF Cell
    <2> QED BY <2>5, <2>6, <2>7, <2>8, <2>9, <2>10
  <1> QED BY <1>1, <1>2, <1>3, <1>4 DEF n

(* Two blocks of one frame do not overlap. *)
LEMMA CellsApart ==
    ASSUME NEW f \in Nat, NEW size \in Nat \ {0}, NEW k \in Nat, NEW m \in Nat, k < m
    PROVE  Cell(f, size, k) + size <= Cell(f, size, m)
  <1> DEFINE j == m - (k + 1)
  <1>1. j \in Nat /\ m = k + 1 + j
    OBVIOUS
  <1> HIDE DEF j
  <1>2. size * m = size * k + size + size * j /\ size * j \in Nat /\ size * k \in Nat
    BY <1>1
  <1>3. FrameSize * f \in Nat
    BY AllocatorAssumption
  <1> QED BY <1>2, <1>3 DEF Cell

(* A word of the range, by its frame. *)
LEMMA WordIn ==
    ASSUME end \in Nat, NEW w \in Nat
    PROVE  w \in Words <=> w \div FrameSize < end
  <1>0. FrameSize \in Nat \ {0}
    BY AllocatorAssumption
  <1> DEFINE q == w \div FrameSize
             r == w % FrameSize
  <1>1. q \in Nat /\ r \in 0 .. FrameSize - 1 /\ w = FrameSize * q + r
    BY <1>0, Quotient, Zenon
  <1>2. end * FrameSize \in Nat /\ (w \in Words <=> w < end * FrameSize)
    BY WordsAre
  <1> HIDE DEF q, r
  <1>3. CASE q < end
    <2> DEFINE j == end - (q + 1)
    <2>1. j \in Nat /\ end = q + 1 + j
      BY <1>1, <1>3
    <2> HIDE DEF j
    <2>2. end * FrameSize = FrameSize * q + FrameSize + FrameSize * j /\ FrameSize * j \in Nat
      BY <1>0, <1>1, <2>1
    <2>3. FrameSize * q \in Nat
      BY <1>0, <1>1
    <2>4. w < end * FrameSize
      BY <1>0, <1>1, <2>2, <2>3
    <2> QED BY <1>2, <1>3, <2>4 DEF q
  <1>4. CASE ~(q < end)
    <2> DEFINE j == q - end
    <2>1. j \in Nat /\ q = end + j
      BY <1>1, <1>4
    <2> HIDE DEF j
    <2>2. FrameSize * q = end * FrameSize + FrameSize * j /\ FrameSize * j \in Nat
      BY <1>0, <1>1, <2>1
    <2>3. ~(w < end * FrameSize)
      BY <1>0, <1>1, <1>2, <2>2
    <2> QED BY <1>2, <1>4, <2>3 DEF q
  <1> QED BY <1>3, <1>4

(* mem2 is the memory with frame f, of address p, cut into blocks, but for the first block. *)
CarvedBut(mem2, f, size, p) ==
    /\ end \in Nat /\ f \in Nat /\ f < end /\ p = f * FrameSize
    /\ size \in Nat \ {0} /\ FrameSize % size = 0
    /\ \A w \in Words : w \notin p .. p + size - 1 => mem2[w] = Carve(f, size)[w]

(* A list of the blocks of the frame after the first, in that memory. *)
CellsListed(mem2, f, size, p) ==
    /\ p \in Words
    /\ \E v : /\ IsList(v, Carve(f, size)[p], mem2, size)
              /\ Blocks(v) = {Cell(f, size, k) : k \in 1 .. (FrameSize \div size) - 1}

(* allocate_frame_for_block links the blocks of a frame, and alloc takes the first. *)
LEMMA ListCarve ==
    ASSUME NEW f, NEW size, NEW p, NEW mem2, CarvedBut(mem2, f, size, p)
    PROVE  CellsListed(mem2, f, size, p)
  <1> DEFINE n == FrameSize \div size
             c(k) == Cell(f, size, k)
             C == Carve(f, size)
  <1>a. f \in Nat /\ size \in Nat \ {0} /\ FrameSize % size = 0
    BY Zenon DEF CarvedBut
  <1>b. end \in Nat
    BY Zenon DEF CarvedBut
  <1>0. FrameSize \in Nat \ {0} /\ f < end /\ p = f * FrameSize
    BY AllocatorAssumption, Zenon DEF CarvedBut
  <1>1. n \in Nat \ {0} /\ n <= FrameSize
    BY <1>a, CellIs
  <1>2. \A k \in 0 .. n - 1 :
           /\ c(k) \in Nat /\ c(k) \div FrameSize = f /\ c(k) % FrameSize = size * k /\ c(k) % size = 0
           /\ size * k = FrameSize - size <=> k = n - 1
           /\ c(k) + size = c(k + 1)
    BY <1>a, CellIs
  <1>3. \A k \in 0 .. n - 1 : c(k) \in Words
    BY <1>a, <1>b, <1>0, <1>2, WordIn
  <1>4. c(0) = p /\ 0 \in 0 .. n - 1
    BY <1>a, <1>b, <1>0, <1>1 DEF Cell
  <1>5. \A k, m \in 0 .. n - 1 : k < m => c(k) + size <= c(m)
    BY <1>a, <1>1, CellsApart
  <1> HIDE DEF n, c
  <1>6. ASSUME NEW k \in 0 .. n - 1 PROVE C[c(k)] = IF k = n - 1 THEN Null ELSE c(k + 1)
    <2>1. C[c(k)] = IF c(k) \div FrameSize # f \/ c(k) % size # 0 THEN memory[c(k)]
                    ELSE IF c(k) % FrameSize = FrameSize - size THEN Null ELSE c(k) + size
      BY <1>3, Zenon DEF Carve
    <2> QED BY <1>a, <1>b, <1>0, <1>2, <2>1
  <1>7. ASSUME NEW k \in 1 .. n - 1 PROVE mem2[c(k)] = C[c(k)] /\ c(k) # p
    <2>1. k \in 0 .. n - 1 /\ 0 < k
      BY <1>1
    <2>2. p + size <= c(k) /\ c(k) \in Nat /\ p \in Nat
      BY <1>2, <1>4, <1>5, <2>1
    <2>3. c(k) \notin p .. p + size - 1 /\ c(k) # p
      BY <1>a, <1>b, <1>0, <2>2
    <2> QED BY <1>3, <2>1, <2>3, Zenon DEF CarvedBut
  <1>8. /\ Steps \in Nat /\ n <= Steps /\ Null \notin Words
    <2>1. end * FrameSize >= FrameSize
      BY <1>a, <1>b, <1>0
    <2> QED BY <1>a, <1>b, <1>0, <1>1, <2>1, WordsAre
  <1> DEFINE v == [k \in 0 .. Steps |-> IF k < n - 1 THEN c(k + 1) ELSE Null]
  <1>9. v[0] = C[p]
    <2>1. C[p] = IF 0 = n - 1 THEN Null ELSE c(0 + 1)
      BY <1>4, <1>6, Zenon
    <2>2. v[0] = IF 0 < n - 1 THEN c(0 + 1) ELSE Null
      BY <1>8
    <2> HIDE DEF C, v
    <2> QED BY <1>1, <2>1, <2>2
  <1>10. v[Steps] = Null /\ v = [k \in 0 .. Steps |-> v[k]]
    BY <1>1, <1>8
  <1>11. ASSUME NEW k \in 0 .. Steps, v[k] # Null
         PROVE  k < n - 1 /\ k + 1 \in 1 .. n - 1 /\ k + 1 \in 0 .. n - 1 /\ v[k] = c(k + 1)
    BY <1>1, <1>8, <1>11
  <1>12. ASSUME NEW k \in 0 .. n - 1, k # n - 1
         PROVE  k \in 0 .. Steps /\ v[k] = c(k + 1) /\ k + 1 \in 0 .. n - 1
    BY <1>1, <1>8, <1>12
  <1>13. \A k \in 0 .. Steps : ~(k < n - 1) => v[k] = Null
    OBVIOUS
  <1> HIDE DEF v, C
  <1>14. ASSUME NEW k \in 1 .. Steps PROVE v[k] = IF v[k - 1] = Null THEN Null ELSE mem2[v[k - 1]]
    <2>1. k - 1 \in 0 .. Steps /\ k \in 0 .. Steps /\ (k - 1) + 1 = k
      BY <1>8
    <2>2. CASE v[k - 1] = Null
      <3>1. ~(k - 1 < n - 1) \/ c(k) = Null
        <4>1. CASE k - 1 < n - 1
          <5>1. k - 1 \in 0 .. n - 1 /\ k - 1 # n - 1
            BY <1>1, <2>1, <4>1
          <5>2. v[k - 1] = c((k - 1) + 1)
            BY <1>12, <5>1, Zenon
          <5> QED BY <2>1, <2>2, <5>2
        <4> QED BY <4>1
      <3>2. ~(k - 1 < n - 1)
        <4>1. CASE k - 1 < n - 1
          <5>1. k \in 0 .. n - 1
            BY <1>1, <2>1, <4>1
          <5> QED BY <1>3, <1>8, <3>1, <4>1, <5>1
        <4> QED BY <4>1
      <3>3. ~(k < n - 1)
        BY <1>1, <1>8, <3>2
      <3> QED BY <1>13, <2>1, <2>2, <3>3, Zenon
    <2>3. CASE v[k - 1] # Null
      <3>1. k \in 1 .. n - 1 /\ k \in 0 .. n - 1 /\ v[k - 1] = c(k)
        BY <1>11, <2>1, <2>3
      <3>2. mem2[v[k - 1]] = IF k = n - 1 THEN Null ELSE c(k + 1)
        BY <1>6, <1>7, <3>1, Zenon
      <3>3. CASE k = n - 1
        <4>1. v[k] = Null
          BY <1>1, <1>13, <2>1, <3>3
        <4> QED BY <2>3, <3>2, <3>3, <4>1, Zenon
      <3>4. CASE k # n - 1
        BY <1>12, <2>3, <3>1, <3>2, <3>4, Zenon
      <3> QED BY <3>3, <3>4
    <2> QED BY <2>2, <2>3
  <1>15. ASSUME NEW k \in 0 .. Steps, NEW m \in 0 .. Steps, v[k] = v[m], v[k] # Null PROVE k = m
    <2>1. /\ k + 1 \in 0 .. n - 1 /\ v[k] = c(k + 1)
          /\ m + 1 \in 0 .. n - 1 /\ v[m] = c(m + 1)
      BY <1>11, <1>15, Zenon
    <2>2. c(k + 1) = c(m + 1) /\ c(k + 1) \in Nat
      BY <1>2, <1>15, <2>1, Zenon
    <2>3. ~(k + 1 < m + 1) /\ ~(m + 1 < k + 1)
      BY <1>a, <1>b, <1>0, <1>5, <2>1, <2>2
    <2> QED BY <1>8, <2>3
  <1>16. \A k \in 0 .. Steps : v[k] # Null => v[k] \in Words /\ v[k] % size = 0
    <2> SUFFICES ASSUME NEW k \in 0 .. Steps, v[k] # Null PROVE v[k] \in Words /\ v[k] % size = 0
      OBVIOUS
    <2>1. k + 1 \in 0 .. n - 1 /\ v[k] = c(k + 1)
      BY <1>11, Zenon
    <2>2. c(k + 1) \in Words /\ c(k + 1) % size = 0
      BY <1>2, <1>3, <2>1, Zenon
    <2> QED BY <2>1, <2>2
  <1>17. IsList(v, C[p], mem2, size)
    BY <1>b, <1>9, <1>10, <1>14, <1>15, <1>16, MakeList, Zenon
  <1>18. ASSUME NEW q \in Blocks(v) PROVE q \in {c(k) : k \in 1 .. n - 1}
    <2>1. PICK k \in 0 .. Steps : q = v[k] /\ v[k] # Null
      BY <1>18 DEF Blocks
    <2>2. k + 1 \in 1 .. n - 1 /\ q = c(k + 1)
      BY <1>11, <2>1, Zenon
    <2> QED BY <2>2
  <1>19. ASSUME NEW k \in 1 .. n - 1 PROVE c(k) \in Blocks(v)
    <2>1. k - 1 \in 0 .. n - 1 /\ k - 1 # n - 1 /\ (k - 1) + 1 = k /\ k \in 0 .. n - 1
      BY <1>1
    <2>2. k - 1 \in 0 .. Steps /\ v[k - 1] = c((k - 1) + 1)
      BY <1>12, <2>1, Zenon
    <2>3. v[k - 1] = c(k) /\ c(k) # Null
      BY <1>3, <1>8, <2>1, <2>2
    <2> QED BY <2>2, <2>3 DEF Blocks
  <1>20. Blocks(v) = {c(k) : k \in 1 .. n - 1}
    BY <1>18, <1>19
  <1>21. p \in Words
    BY <1>3, <1>4, Zenon
  <1> QED BY <1>17, <1>20, <1>21, Zenon DEF CellsListed, c, n, C

-----------------------------------------------------------------------------
(* A frame is used when a word of some piece is in it. *)
LEMMA UsedIs ==
    ASSUME NEW P, NEW g
    PROVE  g \in Used(P) <=> \E x \in P : \E w \in Extent(x) : g = w \div FrameSize
  BY DEF Used

(* A piece that takes the place of another. *)
LEMMA ExactSwap ==
    ASSUME NEW P, NEW bits, Exact(P, bits), NEW x \in P, NEW y, Extent(y) = Extent(x),
           NEW Q, Q = (P \ {x}) \cup {y}
    PROVE  Exact(Q, bits)
  <1>1. \A a, b \in P : a # b => Extent(a) \cap Extent(b) = {}
    BY Zenon DEF Exact
  <1>2. ASSUME NEW a \in Q, NEW b \in Q, a # b PROVE Extent(a) \cap Extent(b) = {}
    <2>1. CASE a = y /\ b # y
      <3>1. b \in P /\ b # x
        BY <1>2, <2>1
      <3> QED BY <1>1, <2>1, <3>1
    <2>2. CASE b = y /\ a # y
      <3>1. a \in P /\ a # x
        BY <1>2, <2>2
      <3> QED BY <1>1, <2>2, <3>1
    <2>3. CASE a # y /\ b # y
      <3>1. a \in P /\ b \in P
        BY <1>2, <2>3
      <3> QED BY <1>1, <1>2, <3>1
    <2> QED BY <1>2, <2>1, <2>2, <2>3
  <1>3. UNION {Extent(a) : a \in Q} = UNION {Extent(a) : a \in P}
    BY Zenon
  <1>4. Used(Q) = Used(P)
    BY <1>3, Zenon DEF Used
  <1> QED BY <1>2, <1>4, Zenon DEF Exact

(* Pieces in frames whose bits were not set. *)
LEMMA ExactAdd ==
    ASSUME NEW P, NEW bits, Exact(P, bits), NEW New, NEW S, S \subseteq InRange, S \cap bits = {},
           Used(New) = S, \A a, b \in New : a # b => Extent(a) \cap Extent(b) = {}
    PROVE  Exact(P \cup New, bits \cup S)
  <1>1. /\ \A a, b \in P : a # b => Extent(a) \cap Extent(b) = {}
        /\ Used(P) \subseteq Usable /\ bits \cap InRange = Used(P) \cup (InRange \ Usable)
    BY Zenon DEF Exact
  <1>2. Used(P) \cap S = {} /\ S \subseteq Usable
    BY <1>1
  <1>3. ASSUME NEW a \in P, NEW b \in New PROVE Extent(a) \cap Extent(b) = {}
    <2> SUFFICES ASSUME NEW w \in Extent(a), w \in Extent(b) PROVE FALSE
      OBVIOUS
    <2>1. w \div FrameSize \in Used(P) /\ w \div FrameSize \in Used(New)
      BY UsedIs, Zenon
    <2> QED BY <1>2, <2>1
  <1>4. \A a, b \in P \cup New : a # b => Extent(a) \cap Extent(b) = {}
    <2> SUFFICES ASSUME NEW a \in P \cup New, NEW b \in P \cup New, a # b
                 PROVE  Extent(a) \cap Extent(b) = {}
      OBVIOUS
    <2>1. CASE a \in P /\ b \in P
      BY <1>1, <2>1
    <2>2. CASE a \in New /\ b \in New
      BY <2>2
    <2>3. CASE a \in P /\ b \in New
      BY <1>3, <2>3
    <2>4. CASE a \in New /\ b \in P
      BY <1>3, <2>4
    <2> QED BY <2>1, <2>2, <2>3, <2>4
  <1>5. Used(P \cup New) = Used(P) \cup S
    <2>1. \A g \in Used(P \cup New) : g \in Used(P) \cup Used(New)
      BY UsedIs
    <2>2. \A g \in Used(P) \cup Used(New) : g \in Used(P \cup New)
      BY UsedIs
    <2> QED BY <2>1, <2>2
  <1>6. (bits \cup S) \cap InRange = (Used(P) \cup S) \cup (InRange \ Usable)
    BY <1>1
  <1>7. Used(P) \cup S \subseteq Usable
    BY <1>1, <1>2
  <1> QED BY <1>4, <1>5, <1>6, <1>7, Zenon DEF Exact

(* A piece that has its frames for itself goes away. *)
LEMMA ExactRemove ==
    ASSUME NEW P, NEW bits, Exact(P, bits), NEW x \in P, NEW S,
           \A w : \A y \in P : w \in Extent(y) => (w \div FrameSize \in S <=> w \in Extent(x)),
           S \subseteq Used({x})
    PROVE  Exact(P \ {x}, bits \ S)
  <1>1. /\ \A a, b \in P : a # b => Extent(a) \cap Extent(b) = {}
        /\ Used(P) \subseteq Usable /\ bits \cap InRange = Used(P) \cup (InRange \ Usable)
    BY Zenon DEF Exact
  <1>2. ASSUME NEW g PROVE g \in Used(P \ {x}) <=> g \in Used(P) /\ g \notin S
    <2>1. ASSUME g \in Used(P \ {x}) PROVE g \in Used(P) /\ g \notin S
      <3>1. PICK y \in P \ {x} : \E w \in Extent(y) : g = w \div FrameSize
        BY <2>1, UsedIs, Zenon
      <3>2. PICK w \in Extent(y) : g = w \div FrameSize
        BY <3>1
      <3>3. g \in Used(P)
        BY <3>2, UsedIs, Zenon
      <3>4. w \notin Extent(x)
        BY <1>1, <3>1, <3>2
      <3> QED BY <3>2, <3>3, <3>4
    <2>2. ASSUME g \in Used(P), g \notin S PROVE g \in Used(P \ {x})
      <3>1. PICK y \in P : \E w \in Extent(y) : g = w \div FrameSize
        BY <2>2, UsedIs, Zenon
      <3>2. PICK w \in Extent(y) : g = w \div FrameSize
        BY <3>1
      <3>3. y # x
        BY <2>2, <3>2
      <3> QED BY <3>2, <3>3, UsedIs
    <2> QED BY <2>1, <2>2
  <1>3. S \subseteq Used(P)
    <2>1. \A g \in Used({x}) : g \in Used(P)
      BY UsedIs
    <2> QED BY <2>1
  <1>4. Used(P \ {x}) = Used(P) \ S
    BY <1>2, Zenon
  <1>5. (bits \ S) \cap InRange = (Used(P) \ S) \cup (InRange \ Usable)
    BY <1>1, <1>3
  <1>6. \A a, b \in P \ {x} : a # b => Extent(a) \cap Extent(b) = {}
    BY <1>1, Zenon
  <1>7. Used(P) \ S \subseteq Usable
    BY <1>1
  <1> QED BY <1>4, <1>5, <1>6, <1>7, Zenon DEF Exact

(* AllocationMode::from gives a layout enough room, in blocks of a size that the alignment *)
(* divides or in frames.                                                                    *)
LEMMA ModeIs ==
    ASSUME NEW l \in Layouts, NEW m, m = Mode(l)
    PROVE  /\ m.block \in BOOLEAN
           /\ m.block => /\ m.index \in DOMAIN BlockSizes /\ BlockSizes[m.index] \in Nat \ {0}
                         /\ FrameSize % BlockSizes[m.index] = 0 /\ BlockSizes[m.index] % l.align = 0
                         /\ l.size <= BlockSizes[m.index] /\ Length(l) = BlockSizes[m.index]
           /\ ~m.block => /\ m.num \in Nat \ {0} /\ l.size <= m.num * FrameSize
                          /\ Length(l) = m.num * FrameSize /\ FrameSize % l.align = 0
  <1>1. /\ FrameSize \in Nat \ {0} /\ l.size \in Nat /\ l.align \in Nat \ {0} /\ FrameSize % l.align = 0
        /\ DOMAIN BlockSizes \subseteq Nat
        /\ \A i \in DOMAIN BlockSizes : BlockSizes[i] \in Nat \ {0} /\ FrameSize % BlockSizes[i] = 0
        /\ \A i \in DOMAIN BlockSizes : l.align <= BlockSizes[i] => BlockSizes[i] % l.align = 0
    BY AllocatorAssumption, Zenon
  <1> DEFINE need == Need(l)
             S == Fitting(l)
             c == (need + FrameSize - 1) \div FrameSize
  <1>2. need \in Nat \ {0} /\ l.size <= need /\ l.align <= need
    BY <1>1 DEF Need
  <1>3. S \subseteq DOMAIN BlockSizes /\ \A i \in S : BlockSizes[i] >= need
    BY DEF Fitting
  <1>4. m = IF S # {} THEN [block |-> TRUE, index |-> Min(S)] ELSE [block |-> FALSE, num |-> c]
    BY Zenon DEF Mode
  <1> HIDE DEF need, S
  <1>5. CASE S # {}
    <2>1. m.block = TRUE /\ m.index = Min(S)
      BY <1>4, <1>5
    <2>2. S \subseteq Nat
      BY <1>1, <1>3
    <2>3. Min(S) \in S
      BY <1>5, <2>2, LeastIs, Zenon
    <2> DEFINE i == m.index
    <2>4. i \in DOMAIN BlockSizes /\ BlockSizes[i] >= need
      BY <1>3, <2>1, <2>3
    <2>5. Length(l) = BlockSizes[i]
      BY <2>1, Zenon DEF Length
    <2> HIDE DEF i
    <2>6. BlockSizes[i] \in Nat \ {0} /\ FrameSize % BlockSizes[i] = 0
      BY <1>1, <2>4, Zenon
    <2>7. l.align <= BlockSizes[i] /\ l.size <= BlockSizes[i]
      BY <1>1, <1>2, <2>4, <2>6
    <2>8. BlockSizes[i] % l.align = 0
      BY <1>1, <2>4, <2>7, Zenon
    <2> QED BY <2>1, <2>4, <2>5, <2>6, <2>7, <2>8, Zenon DEF i
  <1>6. CASE S = {}
    <2>1. m.block = FALSE /\ m.num = c
      BY <1>4, <1>6
    <2>2. Length(l) = m.num * FrameSize
      BY <2>1, Zenon DEF Length
    <2>3. c \in Nat /\ (need + FrameSize - 1) % FrameSize \in 0 .. FrameSize - 1
          /\ need + FrameSize - 1 = FrameSize * c + ((need + FrameSize - 1) % FrameSize)
      <3>1. need + FrameSize - 1 \in Nat
        BY <1>1, <1>2
      <3> QED BY <1>1, <3>1, Quotient, Zenon
    <2> HIDE DEF c
    <2>4. c # 0 /\ need <= c * FrameSize
      <3>1. need <= FrameSize * c
        BY <1>1, <1>2, <2>3
      <3>2. c # 0
        BY <1>1, <1>2, <3>1
      <3> QED BY <1>1, <2>3, <3>1, <3>2
    <2>5. l.size <= c * FrameSize
      BY <1>1, <1>2, <2>3, <2>4
    <2> QED BY <1>1, <2>1, <2>2, <2>3, <2>4, <2>5, Zenon
  <1> QED BY <1>5, <1>6

(* The words of a run of frames are those that lie in one of them. *)
LEMMA RunIs ==
    ASSUME NEW f \in Nat, NEW num \in Nat \ {0}
    PROVE  /\ f * FrameSize \in Nat /\ (f * FrameSize) % FrameSize = 0 /\ (f * FrameSize) \div FrameSize = f
           /\ \A w \in Nat : w \in f * FrameSize .. f * FrameSize + num * FrameSize - 1
                               <=> w \div FrameSize \in Span(f, num)
           /\ \A g \in Span(f, num) : g * FrameSize \in Nat /\ (g * FrameSize) \div FrameSize = g
  <1>1. FrameSize \in Nat \ {0}
    BY AllocatorAssumption
  <1>2. ASSUME NEW g \in Nat
        PROVE  g * FrameSize \in Nat /\ (g * FrameSize) % FrameSize = 0 /\ (g * FrameSize) \div FrameSize = g
    <2>1. 0 \in 0 .. FrameSize - 1 /\ FrameSize * g + 0 = g * FrameSize /\ g * FrameSize \in Nat
      BY <1>1
    <2> QED BY <1>1, <2>1, Divided
  <1>3. ASSUME NEW w \in Nat
        PROVE  w \in f * FrameSize .. f * FrameSize + num * FrameSize - 1
                  <=> w \div FrameSize \in Span(f, num)
    <2> DEFINE q == w \div FrameSize
               r == w % FrameSize
    <2>1. q \in Nat /\ r \in 0 .. FrameSize - 1 /\ w = FrameSize * q + r
      BY <1>1, Quotient
    <2>2. q \in Span(f, num) <=> f <= q /\ q < f + num
      BY <2>1 DEF Span
    <2> HIDE DEF q, r
    <2>3. f <= q => f * FrameSize <= w
      <3>1. f <= q => FrameSize * f <= FrameSize * q
        BY <1>1, <2>1
      <3> QED BY <1>1, <2>1, <3>1
    <2>4. q < f => w < f * FrameSize
      <3>1. q + 1 <= f => FrameSize * (q + 1) <= FrameSize * f
        BY <1>1, <2>1
      <3>2. FrameSize * (q + 1) = FrameSize * q + FrameSize
        BY <1>1, <2>1
      <3> QED BY <1>1, <2>1, <3>1, <3>2
    <2>5. q < f + num => w < f * FrameSize + num * FrameSize
      <3>1. q + 1 <= f + num => FrameSize * (q + 1) <= FrameSize * (f + num)
        BY <1>1, <2>1
      <3>2. FrameSize * (q + 1) = FrameSize * q + FrameSize
        BY <1>1, <2>1
      <3>3. FrameSize * (f + num) = f * FrameSize + num * FrameSize
        BY <1>1
      <3> QED BY <1>1, <2>1, <3>1, <3>2, <3>3
    <2>6. f + num <= q => f * FrameSize + num * FrameSize <= w
      <3>1. f + num <= q => FrameSize * (f + num) <= FrameSize * q
        BY <1>1, <2>1
      <3>2. FrameSize * (f + num) = f * FrameSize + num * FrameSize
        BY <1>1
      <3> QED BY <1>1, <2>1, <3>1, <3>2
    <2>7. f * FrameSize \in Nat /\ num * FrameSize \in Nat
      BY <1>1
    <2>8. w \in f * FrameSize .. f * FrameSize + num * FrameSize - 1 <=> f <= q /\ q < f + num
      BY <2>1, <2>3, <2>4, <2>5, <2>6, <2>7
    <2> QED BY <2>2, <2>8 DEF q
  <1>4. Span(f, num) \subseteq Nat
    BY DEF Span
  <1> QED BY <1>2, <1>3, <1>4

-----------------------------------------------------------------------------
(* What a client has, and a free block, as pieces. *)
Given(a) == [ptr |-> a.ptr, len |-> Length(a.layout), of |-> a.layout]
Idle(p, i) == [ptr |-> p, len |-> BlockSizes[i], of |-> Null]

LEMMA PiecesAre ==
    ASSUME NEW l, NEW b, NEW x
    PROVE  x \in Pieces(l, b) <=> \/ \E a \in l : x = Given(a)
                                  \/ \E i \in DOMAIN b : \E p \in b[i] : x = Idle(p, i)
  <1> DEFINE A == {[ptr |-> a.ptr, len |-> Length(a.layout), of |-> a.layout] : a \in l}
             B(i) == {[ptr |-> p, len |-> BlockSizes[i], of |-> Null] : p \in b[i]}
             U == UNION {B(i) : i \in DOMAIN b}
  <1>1. x \in A <=> \E a \in l : x = Given(a)
    BY DEF Given
  <1>2. \A i : x \in B(i) <=> \E p \in b[i] : x = Idle(p, i)
    BY DEF Idle
  <1>3. x \in U <=> \E i \in DOMAIN b : x \in B(i)
    BY Zenon
  <1>4. Pieces(l, b) = A \cup U
    BY Zenon DEF Pieces
  <1> HIDE DEF A, B, U
  <1> QED BY <1>1, <1>2, <1>3, <1>4

(* Pieces tell the clients' memory and the blocks of each list apart. *)
LEMMA PiecesDiffer ==
    /\ \A a, c \in [ptr : Nat, layout : Layouts] : Given(a) = Given(c) => a = c
    /\ \A a \in [ptr : Nat, layout : Layouts] : \A p, i : Given(a) # Idle(p, i)
    /\ \A i, j \in DOMAIN BlockSizes : \A p, q : Idle(p, i) = Idle(q, j) => p = q /\ i = j
  <1>1. ASSUME NEW a \in [ptr : Nat, layout : Layouts], NEW c \in [ptr : Nat, layout : Layouts],
               Given(a) = Given(c)
        PROVE  a = c
    <2>1. Given(a).ptr = a.ptr /\ Given(a).of = a.layout /\ Given(c).ptr = c.ptr /\ Given(c).of = c.layout
      BY DEF Given
    <2>2. a.ptr = c.ptr /\ a.layout = c.layout
      BY <1>1, <2>1
    <2> QED BY <2>2
  <1>2. ASSUME NEW a \in [ptr : Nat, layout : Layouts], NEW p, NEW i PROVE Given(a) # Idle(p, i)
    <2>1. Given(a).of = a.layout /\ Idle(p, i).of = Null /\ a.layout \in Layouts
      BY DEF Given, Idle
    <2>2. Null \notin Layouts
      BY AllocatorAssumption
    <2> QED BY <2>1, <2>2
  <1>3. ASSUME NEW i \in DOMAIN BlockSizes, NEW j \in DOMAIN BlockSizes, NEW p, NEW q, Idle(p, i) = Idle(q, j)
        PROVE  p = q /\ i = j
    <2>1. /\ Idle(p, i).ptr = p /\ Idle(p, i).len = BlockSizes[i]
          /\ Idle(q, j).ptr = q /\ Idle(q, j).len = BlockSizes[j]
      BY DEF Idle
    <2>2. p = q /\ BlockSizes[i] = BlockSizes[j]
      BY <1>3, <2>1
    <2>3. /\ i \in Nat /\ j \in Nat /\ BlockSizes[i] \in Nat
          /\ (i < j => BlockSizes[i] < BlockSizes[j]) /\ (j < i => BlockSizes[j] < BlockSizes[i])
      BY AllocatorAssumption
    <2> QED BY <2>2, <2>3
  <1> QED BY <1>1, <1>2, <1>3

(* Where the pieces lie. *)
LEMMA ExtentIs ==
    /\ \A a \in [ptr : Nat, layout : Layouts] :
          Extent(Given(a)) = a.ptr .. a.ptr + Length(a.layout) - 1 /\ a.ptr \in Extent(Given(a))
    /\ \A i \in DOMAIN BlockSizes : \A p \in Nat :
          Extent(Idle(p, i)) = p .. p + BlockSizes[i] - 1 /\ p \in Extent(Idle(p, i))
  <1>1. ASSUME NEW a \in [ptr : Nat, layout : Layouts]
        PROVE  Extent(Given(a)) = a.ptr .. a.ptr + Length(a.layout) - 1 /\ a.ptr \in Extent(Given(a))
    <2>1. Extent(Given(a)) = a.ptr .. a.ptr + Length(a.layout) - 1
      BY DEF Extent, Given
    <2>2. Length(a.layout) \in Nat \ {0}
      <3> DEFINE m == Mode(a.layout)
      <3>1. a.layout \in Layouts /\ FrameSize \in Nat \ {0}
        BY AllocatorAssumption
      <3>2. CASE m.block
        BY <3>1, <3>2, ModeIs
      <3>3. CASE ~m.block
        <4>1. m.num \in Nat \ {0} /\ Length(a.layout) = m.num * FrameSize
          BY <3>1, <3>3, ModeIs, Zenon
        <4> HIDE DEF m
        <4>2. m.num * FrameSize \in Nat \ {0}
          BY <3>1, <4>1
        <4> QED BY <4>1, <4>2
      <3> QED BY <3>2, <3>3
    <2> QED BY <2>1, <2>2
  <1>2. ASSUME NEW i \in DOMAIN BlockSizes, NEW p \in Nat
        PROVE  Extent(Idle(p, i)) = p .. p + BlockSizes[i] - 1 /\ p \in Extent(Idle(p, i))
    <2>1. Extent(Idle(p, i)) = p .. p + BlockSizes[i] - 1
      BY DEF Extent, Idle
    <2>2. BlockSizes[i] \in Nat \ {0}
      BY AllocatorAssumption
    <2> QED BY <2>1, <2>2
  <1> QED BY <1>1, <1>2

(* What HeapInv says of the pieces: the clients' memory and the free blocks lie apart, and *)
(* in frames whose bits are set.                                                           *)
LEMMA HeapPieces ==
    ASSUME HeapInv, NEW P, P = Pieces(live, Lists)
    PROVE  /\ Exact(P, allocated) /\ end \in Nat
           /\ Lists = [i \in DOMAIN BlockSizes |-> Lists[i]]
           /\ \A a \in live : Given(a) \in P /\ a \in [ptr : Nat, layout : Layouts]
           /\ \A i \in DOMAIN BlockSizes : \A q \in Lists[i] :
                 Idle(q, i) \in P /\ q \in Words /\ q \in Nat /\ q % BlockSizes[i] = 0
           /\ \A i \in DOMAIN BlockSizes :
                 /\ IsList(FreeList(i), available[i], memory, BlockSizes[i])
                 /\ Blocks(FreeList(i)) = Lists[i]
           /\ \A x \in P : \A w \in Extent(x) : w \in Nat /\ w \in Words /\ w \div FrameSize \in allocated
  <1>1. /\ end \in Nat /\ live \subseteq [ptr : Nat, layout : Layouts] /\ Exact(P, allocated)
        /\ \A i \in DOMAIN BlockSizes : IsList(FreeList(i), available[i], memory, BlockSizes[i])
    BY Zenon DEF HeapInv
  <1>2. /\ DOMAIN Lists = DOMAIN BlockSizes /\ Lists = [i \in DOMAIN BlockSizes |-> Lists[i]]
        /\ \A i \in DOMAIN BlockSizes : Blocks(FreeList(i)) = Lists[i]
    BY Zenon DEF Lists
  <1>3. \A a \in live : Given(a) \in P /\ a \in [ptr : Nat, layout : Layouts]
    BY <1>1, PiecesAre, Zenon
  <1>4. ASSUME NEW i \in DOMAIN BlockSizes, NEW q \in Lists[i]
        PROVE  Idle(q, i) \in P /\ q \in Words /\ q \in Nat /\ q % BlockSizes[i] = 0
    <2>1. Idle(q, i) \in P
      BY <1>2, PiecesAre, Zenon
    <2>2. q \in Blocks(FreeList(i))
      BY <1>2, Zenon
    <2>3. IsList(FreeList(i), available[i], memory, BlockSizes[i])
      BY <1>1, SMTT(20)
    <2>4. q \in Words /\ q \in Nat /\ q % BlockSizes[i] = 0
      BY <1>1, <2>2, <2>3, ListIs
    <2> QED BY <2>1, <2>4
  <1>5. ASSUME NEW x \in P, NEW w \in Extent(x)
        PROVE  w \in Nat /\ w \in Words /\ w \div FrameSize \in allocated
    <2>1. w \in Nat
      <3>1. CASE \E a \in live : x = Given(a)
        <4>1. PICK a \in live : x = Given(a)
          BY <3>1
        <4>2. a \in [ptr : Nat, layout : Layouts] /\ w \in Extent(Given(a))
          BY <1>1, <4>1
        <4>3. w \in a.ptr .. a.ptr + Length(a.layout) - 1
          BY <4>2, ExtentIs, Zenon
        <4>4. a.ptr \in Nat /\ Length(a.layout) \in Nat
          <5> DEFINE m == Mode(a.layout)
          <5>1. a.ptr \in Nat /\ a.layout \in Layouts /\ FrameSize \in Nat
            BY <4>2, AllocatorAssumption
          <5>2. CASE m.block
            BY <5>1, <5>2, ModeIs
          <5>3. CASE ~m.block
            <6>1. m.num \in Nat /\ Length(a.layout) = m.num * FrameSize
              BY <5>1, <5>3, ModeIs
            <6> HIDE DEF m
            <6> QED BY <5>1, <6>1
          <5> QED BY <5>1, <5>2, <5>3
        <4> QED BY <4>3, <4>4
      <3>2. CASE \E i \in DOMAIN Lists : \E p \in Lists[i] : x = Idle(p, i)
        <4>1. PICK i \in DOMAIN Lists : \E p \in Lists[i] : x = Idle(p, i)
          BY <3>2
        <4>2. PICK p \in Lists[i] : x = Idle(p, i)
          BY <4>1
        <4>3. i \in DOMAIN BlockSizes /\ p \in Nat
          BY <1>2, <1>4
        <4>4. w \in p .. p + BlockSizes[i] - 1
          BY <4>2, <4>3, ExtentIs, Zenon
        <4>5. BlockSizes[i] \in Nat
          BY <4>3, AllocatorAssumption
        <4> QED BY <4>3, <4>4, <4>5
      <3>3. \/ \E a \in live : x = Given(a)
            \/ \E i \in DOMAIN Lists : \E p \in Lists[i] : x = Idle(p, i)
        BY PiecesAre
      <3> QED BY <3>1, <3>2, <3>3
    <2>2. w \div FrameSize \in Used(P)
      BY UsedIs, Zenon
    <2>3. w \div FrameSize \in allocated /\ w \div FrameSize \in InRange
      BY <1>1, <2>2 DEF Exact
    <2>4. w \div FrameSize < end
      BY <1>1, <2>3 DEF InRange, FrameMin
    <2> QED BY <1>1, <2>1, <2>3, <2>4, WordIn
  <1> QED BY <1>1, <1>2, <1>3, <1>4, <1>5

(* A step keeps HeapInv when it leaves a list for each size, and pieces that the bits match. *)
LEMMA Rebuild ==
    ASSUME HeapInv, end' = end, uefi' = uefi,
           memory' = [w \in Words |-> memory'[w]],
           available' = [i \in DOMAIN BlockSizes |-> available'[i]],
           live' \subseteq [ptr : Nat, layout : Layouts], \A a \in live' : LiveInv(a),
           NEW b, b = [i \in DOMAIN BlockSizes |-> b[i]],
           \A i \in DOMAIN BlockSizes :
              \E v : IsList(v, available'[i], memory', BlockSizes[i]) /\ Blocks(v) = b[i],
           Exact(Pieces(live', b), allocated')
    PROVE  HeapInv'
  <1>1. Words' = Words /\ Steps' = Steps /\ end \in Nat
    BY DEF Words, Steps, HeapInv
  <1>2. InRange' = InRange /\ Usable' = Usable
    BY Zenon DEF InRange, Usable
  <1>3. \A i \in DOMAIN BlockSizes : FreeList(i)' = Follow(available'[i], memory')
    BY <1>1, ZenonT(40) DEF FreeList, Follow
  <1>4. ASSUME NEW i \in DOMAIN BlockSizes
        PROVE  /\ IsList(FreeList(i), available[i], memory, BlockSizes[i])'
               /\ Blocks(FreeList(i))' = b[i]
    <2>1. PICK v : IsList(v, available'[i], memory', BlockSizes[i]) /\ Blocks(v) = b[i]
      OBVIOUS
    <2>2. FreeList(i)' = v
      BY <1>1, <1>3, <2>1, FollowIs, Zenon
    <2>3. IsList(FreeList(i)', available'[i], memory', BlockSizes[i])
      BY <2>1, <2>2, Zenon
    <2>4. IsList(FreeList(i), available[i], memory, BlockSizes[i])'
      BY <1>1, <2>3, Zenon DEF IsList, Blocks
    <2>5. Blocks(FreeList(i))' = b[i]
      BY <1>1, <2>1, <2>2 DEF Blocks
    <2> QED BY <2>4, <2>5
  <1>5. Lists' = b
    <2>1. Lists' = [i \in DOMAIN BlockSizes |-> Blocks(FreeList(i))']
      BY Zenon DEF Lists
    <2> QED BY <1>4, <2>1
  <1>6. Pieces(live, Lists)' = Pieces(live', b)
    <2>1. Pieces(live, Lists)' = Pieces(live', Lists')
      BY DEF Pieces, Length
    <2> QED BY <1>5, <2>1
  <1>7. Exact(Pieces(live, Lists), allocated)'
    <2> DEFINE P == Pieces(live', b)
    <2>1. /\ \A x, y \in P : x # y => Extent(x) \intersect Extent(y) = {}
          /\ Used(P) \subseteq Usable
          /\ allocated' \intersect InRange = Used(P) \union (InRange \ Usable)
      BY Zenon DEF Exact
    <2> HIDE DEF P
    <2>2. /\ \A x, y \in P : x # y => Extent(x) \intersect Extent(y) = {}
          /\ Used(P) \subseteq Usable'
          /\ allocated' \intersect InRange' = Used(P) \union (InRange' \ Usable')
      BY <1>2, <2>1
    <2>3. Pieces(live, Lists)' = P
      BY <1>6 DEF P
    <2>4. Exact(Pieces(live, Lists), allocated)' <=>
            /\ \A x, y \in Pieces(live, Lists)' : x # y => Extent(x) \intersect Extent(y) = {}
            /\ Used(Pieces(live, Lists)') \subseteq Usable'
            /\ allocated' \intersect InRange' = Used(Pieces(live, Lists)') \union (InRange' \ Usable')
      BY Zenon DEF Exact, Used
    <2> QED BY <2>2, <2>3, <2>4
  <1>8. memory' = [w \in Words' |-> memory'[w]]
    BY <1>1
  <1>9. end' \in Nat
    BY <1>1
  <1> QED BY <1>4, <1>7, <1>8, <1>9, Zenon DEF HeapInv, LiveInv

(* The invariant holds once initialize has run on the firmware's map. *)
LEMMA HeapStart == InitHeap => HeapInv
  <1> SUFFICES ASSUME InitHeap PROVE HeapInv
    OBVIOUS
  <1> DEFINE m == MemoryMap(uefi)
  <1>1. /\ uefi \in Firmware /\ allocated = Gaps(m) /\ end = AvailableEnd(m, DOMAIN m)
        /\ available = [i \in DOMAIN BlockSizes |-> Null]
        /\ memory = [w \in Words |-> Data] /\ live = {}
    BY Zenon DEF InitHeap, InitFrames
  <1>2. /\ end \in Nat
        /\ \A f \in 0 .. end - 1 : f \in allocated <=>
              \A i \in {k \in DOMAIN uefi : IsAvailable(uefi[k].ty)} : f \notin Span(uefi[i].start, uefi[i].pages)
    BY <1>1, GapsAre, Zenon
  <1>3. Steps \in Nat
    BY <1>2, WordsAre
  <1>4. ASSUME NEW i \in DOMAIN BlockSizes
        PROVE  /\ IsList(FreeList(i), available[i], memory, BlockSizes[i]) /\ Blocks(FreeList(i)) = {}
    <2> DEFINE v == [k \in 0 .. Steps |-> Null]
    <2>1. v = [k \in 0 .. Steps |-> v[k]] /\ \A k \in 0 .. Steps : v[k] = Null
      BY Zenon
    <2>2. /\ 0 \in 0 .. Steps /\ Steps \in 0 .. Steps
          /\ \A k \in 1 .. Steps : k \in 0 .. Steps /\ k - 1 \in 0 .. Steps
      BY <1>3
    <2> HIDE DEF v
    <2>3. available[i] = Null
      BY <1>1, Zenon
    <2>4. \A k \in 1 .. Steps : v[k] = IF v[k - 1] = Null THEN Null ELSE memory[v[k - 1]]
      BY <2>1, <2>2, Zenon
    <2>5. IsList(v, available[i], memory, BlockSizes[i])
      BY <1>2, <2>1, <2>2, <2>3, <2>4, MakeList, Zenon
    <2>6. FreeList(i) = v
      BY <1>2, <2>5, FollowIs, Zenon DEF FreeList
    <2>7. Blocks(v) = {}
      BY <2>1 DEF Blocks
    <2> QED BY <2>5, <2>6, <2>7, Zenon
  <1>5. Pieces(live, Lists) = {}
    <2>1. \A i \in DOMAIN Lists : Lists[i] = {}
      BY <1>4 DEF Lists
    <2> QED BY <1>1, <2>1, PiecesAre
  <1>6. Exact({}, allocated)
    <2>1. Used({}) = {}
      BY UsedIs
    <2>2. InRange \subseteq 0 .. end - 1
      BY <1>2 DEF InRange, FrameMin
    <2>3. \A f \in InRange : f \in allocated <=> f \notin Usable
      BY <1>2, <2>2, Zenon DEF Usable
    <2>4. allocated \cap InRange = {} \cup (InRange \ Usable)
      BY <2>3
    <2> QED BY <2>1, <2>4 DEF Exact
  <1>7. memory = [w \in Words |-> memory[w]] /\ available = [i \in DOMAIN BlockSizes |-> available[i]]
    BY <1>1, Zenon
  <1> QED BY <1>1, <1>2, <1>4, <1>5, <1>6, <1>7, Zenon DEF HeapInv

(* The steps of the heap, with the values that alloc and dealloc compute as arguments: alloc *)
(* takes block p, the head of list i.                                                        *)
Pops(layout, i, p) ==
    /\ i = Mode(layout).index /\ Mode(layout).block /\ p = available[i] /\ p # Null
    /\ available' = [available EXCEPT ![i] = memory[p]]
    /\ HandOut(memory, p, BlockSizes[i], layout)
    /\ UNCHANGED <<allocated, end, uefi>>

(* List i is empty: alloc cuts frame f into blocks and gives the first one. *)
Cuts(layout, i, f, p) ==
    /\ i = Mode(layout).index /\ Mode(layout).block /\ available[i] = Null
    /\ f = Allocate(1) /\ f # NotEnoughFrame /\ p = f * FrameSize
    /\ MarkAllocated(f, 1)
    /\ available' = [available EXCEPT ![i] = Carve(f, BlockSizes[i])[p]]
    /\ HandOut(Carve(f, BlockSizes[i]), p, BlockSizes[i], layout)
    /\ UNCHANGED uefi

(* alloc gives the num frames from f on. *)
GivesRun(layout, num, f, p) ==
    /\ num = Mode(layout).num /\ ~Mode(layout).block
    /\ f = Allocate(num) /\ f # NotEnoughFrame /\ p = f * FrameSize /\ p < MappedEnd
    /\ MarkAllocated(f, num)
    /\ HandOut(memory, p, num * FrameSize, layout)
    /\ UNCHANGED <<available, uefi>>

(* dealloc puts the block of a in front of list i. *)
Pushes(a, i) ==
    /\ i = Mode(a.layout).index /\ Mode(a.layout).block
    /\ DeallocBlock(a.ptr, i) /\ live' = live \ {a} /\ UNCHANGED uefi

(* dealloc clears the bits of the num frames of a. *)
FreesRun(a, num) ==
    /\ num = Mode(a.layout).num /\ ~Mode(a.layout).block
    /\ Free(FrameOf(a.ptr), num) /\ live' = live \ {a} /\ UNCHANGED <<memory, available, uefi>>

(* alloc takes the first block of a list: the block changes from free to given. *)
LEMMA PopStep ==
    ASSUME HeapInv, NEW layout \in Layouts, NEW i, NEW p, Pops(layout, i, p)
    PROVE  HeapInv'
  <1> DEFINE P == Pieces(live, Lists)
             S == p .. p + BlockSizes[i] - 1
             n == [ptr |-> p, layout |-> layout]
             b == [Lists EXCEPT ![i] = Lists[i] \ {p}]
  <1>0. /\ i = Mode(layout).index /\ Mode(layout).block /\ p = available[i] /\ p # Null
        /\ allocated' = allocated /\ end' = end /\ uefi' = uefi
    BY DEF Pops
  <1>1. i \in DOMAIN BlockSizes /\ Length(layout) = BlockSizes[i]
    BY <1>0, ModeIs
  <1>2. /\ Exact(P, allocated) /\ end \in Nat
        /\ Lists = [j \in DOMAIN BlockSizes |-> Lists[j]]
        /\ \A a \in live : Given(a) \in P /\ a \in [ptr : Nat, layout : Layouts]
        /\ \A j \in DOMAIN BlockSizes : \A q \in Lists[j] :
              Idle(q, j) \in P /\ q \in Words /\ q \in Nat /\ q % BlockSizes[j] = 0
        /\ \A j \in DOMAIN BlockSizes :
              /\ IsList(FreeList(j), available[j], memory, BlockSizes[j])
              /\ Blocks(FreeList(j)) = Lists[j]
    BY HeapPieces, Zenon
  <1>3. /\ available = [j \in DOMAIN BlockSizes |-> available[j]] /\ \A a \in live : LiveInv(a)
    BY Zenon DEF HeapInv
  <1>4. p \in Lists[i]
    <2>1. IsList(FreeList(i), p, memory, BlockSizes[i]) /\ Blocks(FreeList(i)) = Lists[i]
      BY <1>0, <1>1, <1>2
    <2>2. Steps \in Nat /\ FreeList(i)[0] = p /\ \A k \in 0 .. Steps : FreeList(i)[k] # Null => FreeList(i)[k] \in Lists[i]
      BY <1>2, <2>1, ListIs
    <2>3. 0 \in 0 .. Steps
      BY <2>2
    <2> QED BY <1>0, <2>2, <2>3
  <1>5. p \in Nat /\ p \in Words /\ p % BlockSizes[i] = 0 /\ Idle(p, i) \in P
    BY <1>1, <1>2, <1>4
  <1>6. /\ memory' = [w \in Words |-> IF w \in S THEN Data ELSE memory[w]]
        /\ live' = live \cup {n}
    BY Zenon DEF Pops, HandOut
  <1>7. n \in [ptr : Nat, layout : Layouts] /\ n.ptr = p /\ n.layout = layout
    BY <1>5
  <1>8. /\ Extent(Idle(p, i)) = S
        /\ Extent(Given(n)) = Extent(Idle(p, i))
    BY <1>1, <1>5, <1>7, ExtentIs
  <1> HIDE DEF n
  <1>9. ASSUME NEW j \in DOMAIN BlockSizes, NEW q \in Lists[j], q # p \/ j # i
        PROVE  memory'[q] = memory[q]
    <2>1. Idle(q, j) \in P /\ q \in Words /\ q \in Nat
      BY <1>2
    <2>2. Idle(q, j) # Idle(p, i)
      BY <1>1, <1>9, PiecesDiffer
    <2>3. Extent(Idle(q, j)) \cap Extent(Idle(p, i)) = {}
      BY <1>2, <1>5, <2>1, <2>2, Zenon DEF Exact
    <2>4. q \in Extent(Idle(q, j))
      BY <2>1, ExtentIs
    <2>5. q \notin S
      BY <1>8, <2>3, <2>4
    <2> QED BY <1>6, <2>1, <2>5
  <1>10. /\ b = [j \in DOMAIN BlockSizes |-> b[j]] /\ b[i] = Lists[i] \ {p}
         /\ \A j \in DOMAIN BlockSizes : j # i => b[j] = Lists[j]
    BY <1>1, <1>2, Zenon
  <1>11. /\ available' = [j \in DOMAIN BlockSizes |-> available'[j]] /\ available'[i] = memory[p]
         /\ \A j \in DOMAIN BlockSizes : j # i => available'[j] = available[j]
    BY <1>1, <1>3, Zenon DEF Pops
  <1> HIDE DEF b
  <1>12. ASSUME NEW j \in DOMAIN BlockSizes
         PROVE  \E v : IsList(v, available'[j], memory', BlockSizes[j]) /\ Blocks(v) = b[j]
    <2>1. IsList(FreeList(j), available[j], memory, BlockSizes[j]) /\ Blocks(FreeList(j)) = Lists[j]
      BY <1>2
    <2>2. CASE j = i
      <3>1. \A q \in Blocks(FreeList(j)) : q # p => memory'[q] = memory[q]
        BY <1>9, <2>1
      <3>2. \E v : IsList(v, memory[p], memory', BlockSizes[i]) /\ Blocks(v) = Blocks(FreeList(i)) \ {p}
        BY <1>0, <1>2, <2>1, <2>2, <3>1, ListPop
      <3> QED BY <1>10, <1>11, <2>1, <2>2, <3>2, SMTT(20)
    <2>3. CASE j # i
      <3>1. \A q \in Blocks(FreeList(j)) : memory'[q] = memory[q]
        BY <1>9, <2>1, <2>3
      <3>2. IsList(FreeList(j), available[j], memory', BlockSizes[j])
        BY <1>2, <2>1, <3>1, ListSame
      <3> QED BY <1>10, <1>11, <2>1, <2>3, <3>2, SMTT(20)
    <2> QED BY <2>2, <2>3
  <1>13. Pieces(live', b) = (P \ {Idle(p, i)}) \cup {Given(n)}
    <2>1. DOMAIN b = DOMAIN BlockSizes /\ DOMAIN Lists = DOMAIN BlockSizes
      BY <1>2, <1>10
    <2>2. ASSUME NEW x \in Pieces(live', b) PROVE x \in (P \ {Idle(p, i)}) \cup {Given(n)}
      <3>1. CASE \E a \in live' : x = Given(a)
        <4>1. PICK a \in live' : x = Given(a)
          BY <3>1
        <4>2. CASE a = n
          BY <4>1, <4>2
        <4>3. CASE a \in live
          BY <1>2, <4>1, <4>3, PiecesDiffer
        <4> QED BY <1>6, <4>2, <4>3
      <3>2. CASE \E j \in DOMAIN b : \E q \in b[j] : x = Idle(q, j)
        <4>1. PICK j \in DOMAIN b : \E q \in b[j] : x = Idle(q, j)
          BY <3>2
        <4>2. PICK q \in b[j] : x = Idle(q, j)
          BY <4>1
        <4>3. j \in DOMAIN BlockSizes /\ q \in Lists[j] /\ (q # p \/ j # i)
          BY <1>10, <2>1, <4>2
        <4>4. Idle(q, j) # Idle(p, i)
          BY <1>1, <4>3, PiecesDiffer
        <4> QED BY <1>2, <4>2, <4>3, <4>4
      <3>3. (\E a \in live' : x = Given(a)) \/ (\E j \in DOMAIN b : \E q \in b[j] : x = Idle(q, j))
        BY PiecesAre
      <3> QED BY <3>1, <3>2, <3>3
    <2>3. Given(n) \in Pieces(live', b)
      BY <1>6, PiecesAre, Zenon
    <2>4. ASSUME NEW x \in P, x # Idle(p, i) PROVE x \in Pieces(live', b)
      <3>1. CASE \E a \in live : x = Given(a)
        BY <1>6, <3>1, PiecesAre, SMTT(20)
      <3>2. CASE \E j \in DOMAIN Lists : \E q \in Lists[j] : x = Idle(q, j)
        <4>1. PICK j \in DOMAIN Lists : \E q \in Lists[j] : x = Idle(q, j)
          BY <3>2
        <4>2. PICK q \in Lists[j] : x = Idle(q, j)
          BY <4>1
        <4>3. j \in DOMAIN b /\ q \in b[j]
          BY <1>10, <2>1, <2>4, <4>2
        <4> QED BY <4>2, <4>3, PiecesAre, Zenon
      <3>3. (\E a \in live : x = Given(a)) \/ (\E j \in DOMAIN Lists : \E q \in Lists[j] : x = Idle(q, j))
        BY PiecesAre
      <3> QED BY <3>1, <3>2, <3>3
    <2> HIDE DEF P
    <2> QED BY <2>2, <2>3, <2>4
  <1>14. Exact(Pieces(live', b), allocated')
    <2>1. Exact(Pieces(live', b), allocated)
      <3> HIDE DEF P
      <3> QED BY <1>2, <1>5, <1>8, <1>13, ExactSwap, SMTT(20)
    <2> QED BY <1>0, <2>1
  <1>15. LiveInv(n)
    BY <1>0, <1>5, <1>7 DEF LiveInv
  <1>16. live' \subseteq [ptr : Nat, layout : Layouts] /\ \A a \in live' : LiveInv(a)
    BY <1>2, <1>3, <1>6, <1>7, <1>15, Zenon
  <1>17. memory' = [w \in Words |-> memory'[w]]
    BY <1>6, Zenon
  <1> QED BY <1>0, <1>10, <1>11, <1>12, <1>14, <1>16, <1>17, Rebuild, Zenon

(* alloc cuts a frame whose bit was not set into blocks and gives the first. *)
LEMMA CarveStep ==
    ASSUME HeapInv, NEW layout \in Layouts, NEW i, NEW f, NEW p, Cuts(layout, i, f, p)
    PROVE  HeapInv'
  <1> DEFINE P == Pieces(live, Lists)
             size == BlockSizes[i]
             S == p .. p + size - 1
             n == [ptr |-> p, layout |-> layout]
             c(k) == Cell(f, size, k)
             m == FrameSize \div size
             D == {c(k) : k \in 1 .. m - 1}
             b == [Lists EXCEPT ![i] = D]
             New == {Given(n)} \cup {Idle(q, i) : q \in D}
             C == Carve(f, size)
  <1>0. /\ i = Mode(layout).index /\ Mode(layout).block /\ available[i] = Null
        /\ f = Allocate(1) /\ f # NotEnoughFrame /\ p = f * FrameSize /\ uefi' = uefi
    BY DEF Cuts
  <1>1. /\ i \in DOMAIN BlockSizes /\ Length(layout) = size /\ size \in Nat \ {0} /\ FrameSize % size = 0
    BY <1>0, ModeIs
  <1>2. /\ Exact(P, allocated) /\ end \in Nat
        /\ Lists = [j \in DOMAIN BlockSizes |-> Lists[j]]
        /\ \A a \in live : Given(a) \in P /\ a \in [ptr : Nat, layout : Layouts]
        /\ \A j \in DOMAIN BlockSizes : \A q \in Lists[j] :
              Idle(q, j) \in P /\ q \in Words /\ q \in Nat
        /\ \A j \in DOMAIN BlockSizes :
              /\ IsList(FreeList(j), available[j], memory, BlockSizes[j])
              /\ Blocks(FreeList(j)) = Lists[j]
        /\ \A x \in P : \A w \in Extent(x) : w \div FrameSize \in allocated
    BY HeapPieces, Zenon
  <1>3. /\ available = [j \in DOMAIN BlockSizes |-> available[j]] /\ \A a \in live : LiveInv(a)
    BY Zenon DEF HeapInv
  <1>4. /\ f \in Nat /\ f < end /\ f + 1 <= end
        /\ Span(f, 1) \subseteq InRange /\ Span(f, 1) \cap allocated = {} /\ Span(f, 1) = {f}
    <2>1. /\ f \in Nat /\ f + 1 <= end
          /\ Span(f, 1) \subseteq InRange /\ Span(f, 1) \cap allocated = {}
      BY <1>0, <1>2, AllocateIs
    <2> QED BY <1>2, <2>1 DEF Span
  <1> HIDE DEF size
  <1>5. /\ m \in Nat \ {0} /\ m <= FrameSize
        /\ \A k \in 0 .. m - 1 :
              c(k) \in Nat /\ c(k) \div FrameSize = f /\ c(k) % size = 0 /\ c(k) % FrameSize = size * k
              /\ size * k \in 0 .. FrameSize - size
    BY <1>1, <1>4, CellIs
  <1>6. /\ memory' = [w \in Words |-> IF w \in S THEN Data ELSE C[w]]
        /\ live' = live \cup {n}
    BY Zenon DEF Cuts, HandOut, size
  <1>7. /\ allocated' = allocated \cup Span(f, 1) /\ end' = end
    BY DEF Cuts, MarkAllocated
  <1>8. 0 \in 0 .. m - 1 /\ c(0) = p /\ p \in Nat /\ FrameSize \in Nat \ {0}
    <2>1. FrameSize \in Nat \ {0} /\ 0 \in 0 .. m - 1
      BY <1>5, AllocatorAssumption
    <2>2. c(0) = p
      BY <1>0, <1>1, <1>4, <2>1 DEF Cell
    <2> QED BY <1>5, <2>1, <2>2
  <1>9. \A k, l \in 0 .. m - 1 : k < l => c(k) + size <= c(l)
    BY <1>1, <1>4, <1>5, CellsApart
  <1>10. \A k \in 0 .. m - 1 : \A w \in c(k) .. c(k) + size - 1 : w \in Nat /\ w \div FrameSize = f
    <2> SUFFICES ASSUME NEW k \in 0 .. m - 1, NEW w \in c(k) .. c(k) + size - 1
                 PROVE  w \in Nat /\ w \div FrameSize = f
      OBVIOUS
    <2>1. size * k \in 0 .. FrameSize - size /\ c(k) \in Nat
      BY <1>5
    <2> DEFINE r == w - FrameSize * f
    <2>2. c(k) = FrameSize * f + size * k /\ FrameSize * f \in Nat
      BY <1>4, <1>8 DEF Cell
    <2>3. r \in 0 .. FrameSize - 1 /\ w = FrameSize * f + r /\ w \in Nat
      <3> DEFINE x == FrameSize * f
                 y == size * k
                 z == c(k)
      <3>1. x \in Nat /\ y \in 0 .. FrameSize - size /\ z = x + y /\ w \in z .. z + size - 1 /\ r = w - x
        BY <2>1, <2>2
      <3> HIDE DEF x, y, z, r
      <3>2. r \in 0 .. FrameSize - 1 /\ w = x + r /\ w \in Nat
        BY <1>1, <1>8, <3>1
      <3> QED BY <3>2 DEF x
    <2> HIDE DEF r
    <2> QED BY <1>4, <1>8, <2>3, Divided, Zenon
  <1>11. n \in [ptr : Nat, layout : Layouts] /\ n.ptr = p /\ n.layout = layout
    BY <1>8, SMTT(20)
  <1> HIDE DEF n, c, m, C
  <1>12. Lists[i] = {}
    <2>1. IsList(FreeList(i), Null, memory, size) /\ Blocks(FreeList(i)) = Lists[i]
      BY <1>0, <1>1, <1>2, SMTT(20) DEF size
    <2>2. /\ Steps \in Nat /\ FreeList(i)[0] = Null
          /\ \A q \in Blocks(FreeList(i)) : \E k \in 0 .. Steps : FreeList(i)[k] = q
      BY <1>2, <2>1, ListIs, SMTT(20)
    <2>3. \A k \in 0 .. Steps : FreeList(i)[k] = Null
      <3> SUFFICES ASSUME NEW k \in 0 .. Steps PROVE FreeList(i)[k] = Null
        OBVIOUS
      <3>1. 0 \in 0 .. Steps /\ 0 <= k
        BY <2>2
      <3> QED BY <1>2, <2>1, <2>2, <3>1, ListEnded
    <2>4. \A q \in Blocks(FreeList(i)) : q # Null
      BY Zenon DEF Blocks
    <2> QED BY <2>1, <2>2, <2>3, <2>4, SMTT(20)
  <1>13. ASSUME NEW j \in DOMAIN BlockSizes, NEW q \in Lists[j] PROVE memory'[q] = memory[q]
    <2>1. Idle(q, j) \in P /\ q \in Words /\ q \in Nat
      BY <1>2
    <2>2. q \in Extent(Idle(q, j))
      BY <2>1, ExtentIs
    <2>3. q \div FrameSize \in allocated
      BY <1>2, <2>1, <2>2
    <2>4. q \div FrameSize # f
      BY <1>4, <2>3
    <2>5. q \notin S
      BY <1>8, <1>10, <2>4
    <2>6. C[q] = memory[q]
      BY <2>1, <2>4, Zenon DEF Carve, C
    <2> QED BY <1>6, <2>1, <2>5, <2>6
  <1>14. /\ b = [j \in DOMAIN BlockSizes |-> b[j]] /\ b[i] = D
         /\ \A j \in DOMAIN BlockSizes : j # i => b[j] = Lists[j]
    BY <1>1, <1>2, Zenon
  <1>15. /\ available' = [j \in DOMAIN BlockSizes |-> available'[j]] /\ available'[i] = C[p]
         /\ \A j \in DOMAIN BlockSizes : j # i => available'[j] = available[j]
    BY <1>1, <1>3, Zenon DEF Cuts, C, size
  <1>16. /\ p \in Words
         /\ \E v : IsList(v, C[p], memory', size) /\ Blocks(v) = D
    <2>1. \A w \in Words : w \notin p .. p + size - 1 => memory'[w] = C[w]
      BY <1>6, Zenon
    <2>2. p = f * FrameSize /\ end \in Nat /\ f \in Nat /\ f < end
      BY <1>0, <1>2, <1>4
    <2>3. size \in Nat \ {0} /\ FrameSize % size = 0
      BY <1>1, Zenon
    <2>4. CarvedBut(memory', f, size, p)
      BY <2>1, <2>2, <2>3, Zenon DEF CarvedBut, C
    <2>5. CellsListed(memory', f, size, p)
      BY <2>4, ListCarve, Zenon
    <2> QED BY <2>5, Zenon DEF CellsListed, C, c, m
  <1> HIDE DEF b
  <1>17. ASSUME NEW j \in DOMAIN BlockSizes
         PROVE  \E v : IsList(v, available'[j], memory', BlockSizes[j]) /\ Blocks(v) = b[j]
    <2>1. IsList(FreeList(j), available[j], memory, BlockSizes[j]) /\ Blocks(FreeList(j)) = Lists[j]
      BY <1>2
    <2>2. CASE j = i
      BY <1>14, <1>15, <1>16, <2>2 DEF size
    <2>3. CASE j # i
      <3>1. \A q \in Blocks(FreeList(j)) : memory'[q] = memory[q]
        BY <1>13, <2>1
      <3>2. IsList(FreeList(j), available[j], memory', BlockSizes[j])
        BY <1>2, <2>1, <3>1, ListSame
      <3> QED BY <1>14, <1>15, <2>1, <2>3, <3>2, SMTT(20)
    <2> QED BY <2>2, <2>3
  <1>18. ASSUME NEW x \in New
         PROVE  \E k \in 0 .. m - 1 : /\ Extent(x) = c(k) .. c(k) + size - 1
                                      /\ x = IF k = 0 THEN Given(n) ELSE Idle(c(k), i)
    <2>1. CASE x = Given(n)
      <3>1. Extent(x) = p .. p + size - 1
        BY <1>1, <1>11, <2>1, ExtentIs
      <3> QED BY <1>8, <2>1, <3>1
    <2>2. CASE x \in {Idle(q, i) : q \in D}
      <3>1. PICK k \in 1 .. m - 1 : x = Idle(c(k), i)
        BY <2>2
      <3>2. k \in 0 .. m - 1 /\ k # 0
        BY <1>5
      <3>3. c(k) \in Nat
        BY <1>5, <3>2
      <3>4. Extent(x) = c(k) .. c(k) + size - 1
        BY <1>1, <3>1, <3>3, ExtentIs, SMTT(20) DEF size
      <3> QED BY <3>1, <3>2, <3>4
    <2> QED BY <2>1, <2>2
  <1>19. \A x, y \in New : x # y => Extent(x) \cap Extent(y) = {}
    <2> SUFFICES ASSUME NEW x \in New, NEW y \in New, x # y PROVE Extent(x) \cap Extent(y) = {}
      OBVIOUS
    <2>1. PICK k \in 0 .. m - 1 : /\ Extent(x) = c(k) .. c(k) + size - 1
                                  /\ x = IF k = 0 THEN Given(n) ELSE Idle(c(k), i)
      BY <1>18
    <2>2. PICK l \in 0 .. m - 1 : /\ Extent(y) = c(l) .. c(l) + size - 1
                                  /\ y = IF l = 0 THEN Given(n) ELSE Idle(c(l), i)
      BY <1>18
    <2>3. k # l
      BY <2>1, <2>2, SMTT(20)
    <2>4. c(k) + size <= c(l) \/ c(l) + size <= c(k)
      <3>1. k < l \/ l < k
        BY <1>5, <2>3, SMTT(20)
      <3> QED BY <1>9, <3>1, SMTT(20)
    <2>5. c(k) \in Nat /\ c(l) \in Nat
      BY <1>5
    <2> QED BY <1>1, <2>1, <2>2, <2>4, <2>5, SMTT(20)
  <1>20. Used(New) = Span(f, 1)
    <2>1. \A g \in Used(New) : g = f
      <3> SUFFICES ASSUME NEW g \in Used(New) PROVE g = f
        OBVIOUS
      <3>1. PICK x \in New : \E w \in Extent(x) : g = w \div FrameSize
        BY UsedIs
      <3>2. PICK w \in Extent(x) : g = w \div FrameSize
        BY <3>1
      <3>3. PICK k \in 0 .. m - 1 : Extent(x) = c(k) .. c(k) + size - 1
        BY <1>18
      <3> QED BY <1>10, <3>2, <3>3
    <2>2. f \in Used(New)
      <3>1. p \in Extent(Given(n)) /\ Given(n) \in New
        BY <1>11, ExtentIs
      <3>2. p \div FrameSize = f
        BY <1>5, <1>8
      <3> QED BY <3>1, <3>2, UsedIs
    <2> QED BY <1>4, <2>1, <2>2, Zenon
  <1>21. Pieces(live', b) = P \cup New
    <2>1. DOMAIN b = DOMAIN BlockSizes /\ DOMAIN Lists = DOMAIN BlockSizes
      BY <1>2, <1>14
    <2>2. ASSUME NEW x \in Pieces(live', b) PROVE x \in P \cup New
      <3>1. CASE \E a \in live' : x = Given(a)
        <4>1. PICK a \in live' : x = Given(a)
          BY <3>1, Zenon
        <4> QED BY <1>2, <1>6, <4>1
      <3>2. CASE \E j \in DOMAIN b : \E q \in b[j] : x = Idle(q, j)
        <4>1. PICK j \in DOMAIN b : \E q \in b[j] : x = Idle(q, j)
          BY <3>2
        <4>2. PICK q \in b[j] : x = Idle(q, j)
          BY <4>1
        <4>3. CASE j = i
          <5>1. q \in D
            BY <1>14, <4>2, <4>3, SMTT(20)
          <5> HIDE DEF D
          <5> QED BY <4>2, <4>3, <5>1
        <4>4. CASE j # i
          BY <1>2, <1>14, <2>1, <4>2, <4>4, SMTT(20)
        <4> QED BY <4>3, <4>4
      <3>3. (\E a \in live' : x = Given(a)) \/ (\E j \in DOMAIN b : \E q \in b[j] : x = Idle(q, j))
        BY PiecesAre
      <3> QED BY <3>1, <3>2, <3>3
    <2>3. ASSUME NEW x \in New PROVE x \in Pieces(live', b)
      <3>1. CASE x = Given(n)
        BY <1>6, <3>1, PiecesAre
      <3>2. CASE x \in {Idle(q, i) : q \in D}
        <4> HIDE DEF D
        <4>1. PICK q \in D : x = Idle(q, i)
          BY <3>2
        <4>2. i \in DOMAIN b /\ q \in b[i]
          BY <1>1, <1>14, <2>1, SMTT(20)
        <4> QED BY <4>1, <4>2, PiecesAre
      <3> QED BY <3>1, <3>2, Zenon
    <2>4. ASSUME NEW x \in P PROVE x \in Pieces(live', b)
      <3>1. CASE \E a \in live : x = Given(a)
        BY <1>6, <3>1, PiecesAre, Zenon
      <3>2. CASE \E j \in DOMAIN Lists : \E q \in Lists[j] : x = Idle(q, j)
        <4>1. PICK j \in DOMAIN Lists : \E q \in Lists[j] : x = Idle(q, j)
          BY <3>2
        <4>2. PICK q \in Lists[j] : x = Idle(q, j)
          BY <4>1
        <4>3. j # i
          BY <1>12, <4>2
        <4>4. j \in DOMAIN b /\ q \in b[j]
          BY <1>14, <2>1, <4>2, <4>3
        <4> QED BY <4>2, <4>4, PiecesAre, Zenon
      <3>3. (\E a \in live : x = Given(a)) \/ (\E j \in DOMAIN Lists : \E q \in Lists[j] : x = Idle(q, j))
        BY PiecesAre
      <3> QED BY <3>1, <3>2, <3>3, Zenon
    <2> HIDE DEF P, New
    <2> QED BY <2>2, <2>3, <2>4
  <1>22. Exact(Pieces(live', b), allocated')
    <2>1. Exact(P \cup New, allocated \cup Span(f, 1))
      <3> HIDE DEF New
      <3> QED BY <1>2, <1>4, <1>19, <1>20, ExactAdd, Zenon
    <2> QED BY <1>7, <1>21, <2>1
  <1>23. LiveInv(n)
    <2>1. p % size = 0
      BY <1>5, <1>8
    <2> QED BY <1>0, <1>11, <2>1 DEF LiveInv, size
  <1>24. live' \subseteq [ptr : Nat, layout : Layouts] /\ \A a \in live' : LiveInv(a)
    BY <1>2, <1>3, <1>6, <1>11, <1>23, Zenon
  <1>25. memory' = [w \in Words |-> memory'[w]]
    BY <1>6, Zenon
  <1> QED BY <1>0, <1>7, <1>14, <1>15, <1>17, <1>22, <1>24, <1>25, Rebuild, Zenon

(* alloc gives a run of frames whose bits were not set. *)
LEMMA FramesStep ==
    ASSUME HeapInv, NEW layout \in Layouts, NEW num, NEW f, NEW p, GivesRun(layout, num, f, p)
    PROVE  HeapInv'
  <1> DEFINE P == Pieces(live, Lists)
             S == p .. p + num * FrameSize - 1
             n == [ptr |-> p, layout |-> layout]
  <1>0. /\ num = Mode(layout).num /\ ~Mode(layout).block
        /\ f = Allocate(num) /\ f # NotEnoughFrame /\ p = f * FrameSize /\ p < MappedEnd
        /\ available' = available /\ uefi' = uefi
    BY DEF GivesRun
  <1>1. num \in Nat \ {0} /\ Length(layout) = num * FrameSize
    BY <1>0, ModeIs
  <1>2. /\ Exact(P, allocated) /\ end \in Nat
        /\ Lists = [j \in DOMAIN BlockSizes |-> Lists[j]]
        /\ \A a \in live : Given(a) \in P /\ a \in [ptr : Nat, layout : Layouts]
        /\ \A j \in DOMAIN BlockSizes : \A q \in Lists[j] :
              Idle(q, j) \in P /\ q \in Words /\ q \in Nat
        /\ \A j \in DOMAIN BlockSizes :
              /\ IsList(FreeList(j), available[j], memory, BlockSizes[j])
              /\ Blocks(FreeList(j)) = Lists[j]
        /\ \A x \in P : \A w \in Extent(x) : w \div FrameSize \in allocated
    BY HeapPieces, Zenon
  <1>3. /\ available = [j \in DOMAIN BlockSizes |-> available[j]] /\ \A a \in live : LiveInv(a)
    BY Zenon DEF HeapInv
  <1>4. /\ f \in Nat /\ Span(f, num) \subseteq InRange /\ Span(f, num) \cap allocated = {}
    BY <1>0, <1>1, <1>2, AllocateIs, SMTT(20)
  <1>5. /\ p \in Nat /\ p % FrameSize = 0
        /\ \A w \in Nat : w \in S <=> w \div FrameSize \in Span(f, num)
        /\ \A g \in Span(f, num) : g * FrameSize \in Nat /\ (g * FrameSize) \div FrameSize = g
    BY <1>0, <1>1, <1>4, RunIs
  <1>6. /\ memory' = [w \in Words |-> IF w \in S THEN Data ELSE memory[w]]
        /\ live' = live \cup {n}
    BY Zenon DEF GivesRun, HandOut
  <1>7. /\ allocated' = allocated \cup Span(f, num) /\ end' = end
    BY DEF GivesRun, MarkAllocated
  <1>8. n \in [ptr : Nat, layout : Layouts] /\ n.ptr = p /\ n.layout = layout
    BY <1>5
  <1>9. Extent(Given(n)) = S
    BY <1>1, <1>8, ExtentIs
  <1>10. \A w \in S : w \in Nat
    BY <1>5, SMTT(20)
  <1> HIDE DEF n, S
  <1>11. ASSUME NEW j \in DOMAIN BlockSizes
         PROVE  \E v : IsList(v, available'[j], memory', BlockSizes[j]) /\ Blocks(v) = Lists[j]
    <2>1. IsList(FreeList(j), available[j], memory, BlockSizes[j]) /\ Blocks(FreeList(j)) = Lists[j]
      BY <1>2
    <2>2. ASSUME NEW q \in Blocks(FreeList(j)) PROVE memory'[q] = memory[q]
      <3>1. Idle(q, j) \in P /\ q \in Words /\ q \in Nat
        BY <1>2, <2>1
      <3>2. q \in Extent(Idle(q, j))
        BY <3>1, ExtentIs
      <3>3. q \div FrameSize \in allocated
        BY <1>2, <3>1, <3>2
      <3>4. q \notin S
        BY <1>4, <1>5, <3>1, <3>3, SMTT(20)
      <3> QED BY <1>6, <3>1, <3>4
    <2>3. IsList(FreeList(j), available[j], memory', BlockSizes[j])
      BY <1>2, <2>1, <2>2, ListSame
    <2> QED BY <1>0, <2>1, <2>3
  <1>12. Used({Given(n)}) = Span(f, num)
    <2>1. \A g \in Used({Given(n)}) : g \in Span(f, num)
      BY <1>5, <1>9, <1>10, UsedIs
    <2>2. \A g \in Span(f, num) : g \in Used({Given(n)})
      <3> SUFFICES ASSUME NEW g \in Span(f, num) PROVE g \in Used({Given(n)})
        OBVIOUS
      <3>1. g * FrameSize \in Extent(Given(n)) /\ (g * FrameSize) \div FrameSize = g
        BY <1>5, <1>9
      <3> QED BY <3>1, UsedIs
    <2> QED BY <2>1, <2>2
  <1>13. Pieces(live', Lists) = P \cup {Given(n)}
    <2>1. ASSUME NEW x \in Pieces(live', Lists) PROVE x \in P \cup {Given(n)}
      <3>1. (\E a \in live' : x = Given(a)) \/ (\E j \in DOMAIN Lists : \E q \in Lists[j] : x = Idle(q, j))
        BY PiecesAre
      <3>2. (\E a \in live : x = Given(a)) \/ x = Given(n) \/ (\E j \in DOMAIN Lists : \E q \in Lists[j] : x = Idle(q, j))
        BY <1>6, <3>1
      <3> QED BY <3>2, PiecesAre
    <2>2. ASSUME NEW x \in P PROVE x \in Pieces(live', Lists)
      <3>1. (\E a \in live : x = Given(a)) \/ (\E j \in DOMAIN Lists : \E q \in Lists[j] : x = Idle(q, j))
        BY PiecesAre
      <3> QED BY <1>6, <3>1, PiecesAre, Zenon
    <2>3. Given(n) \in Pieces(live', Lists)
      BY <1>6, PiecesAre
    <2> HIDE DEF P
    <2> QED BY <2>1, <2>2, <2>3, SMTT(20)
  <1>14. Exact(Pieces(live', Lists), allocated')
    <2>1. Exact(P \cup {Given(n)}, allocated \cup Span(f, num))
      <3> HIDE DEF P
      <3>1. \A x, y \in {Given(n)} : x # y => Extent(x) \cap Extent(y) = {}
        BY SMTT(20)
      <3> QED BY <1>2, <1>4, <1>12, <3>1, ExactAdd
    <2> QED BY <1>7, <1>13, <2>1
  <1>15. LiveInv(n)
    BY <1>0, <1>5, <1>8 DEF LiveInv
  <1>16. live' \subseteq [ptr : Nat, layout : Layouts] /\ \A a \in live' : LiveInv(a)
    BY <1>2, <1>3, <1>6, <1>8, <1>15
  <1>17. memory' = [w \in Words |-> memory'[w]]
    BY <1>6, Zenon
  <1>18. available' = [j \in DOMAIN BlockSizes |-> available'[j]] /\ uefi' = uefi
    BY <1>0, <1>3
  <1> QED BY <1>2, <1>7, <1>11, <1>14, <1>16, <1>17, <1>18, Rebuild, Zenon

(* A null pointer, or no step at all. *)
LEMMA HeapSame ==
    ASSUME HeapInv, UNCHANGED heap
    PROVE  HeapInv'
  <1>1. /\ allocated' = allocated /\ end' = end /\ available' = available /\ memory' = memory
        /\ live' = live /\ uefi' = uefi
    BY DEF heap, frames
  <1>2. Words' = Words /\ InRange' = InRange /\ Usable' = Usable
    BY <1>1, Zenon DEF Words, InRange, Usable
  <1>3. /\ Exact(Pieces(live, Lists), allocated) /\ end \in Nat
        /\ Lists = [j \in DOMAIN BlockSizes |-> Lists[j]]
        /\ \A j \in DOMAIN BlockSizes :
              /\ IsList(FreeList(j), available[j], memory, BlockSizes[j])
              /\ Blocks(FreeList(j)) = Lists[j]
    BY HeapPieces, Zenon
  <1>4. /\ memory = [w \in Words |-> memory[w]] /\ available = [i \in DOMAIN BlockSizes |-> available[i]]
        /\ live \subseteq [ptr : Nat, layout : Layouts] /\ \A a \in live : LiveInv(a)
    BY Zenon DEF HeapInv
  <1>5. \A i \in DOMAIN BlockSizes :
           \E v : IsList(v, available'[i], memory', BlockSizes[i]) /\ Blocks(v) = Lists[i]
    BY <1>1, <1>3
  <1>6. Exact(Pieces(live', Lists), allocated')
    BY <1>1, <1>3
  <1>7. /\ memory' = [w \in Words |-> memory'[w]] /\ available' = [i \in DOMAIN BlockSizes |-> available'[i]]
        /\ live' \subseteq [ptr : Nat, layout : Layouts] /\ \A a \in live' : LiveInv(a)
    BY <1>1, <1>4
  <1> QED BY <1>1, <1>3, <1>5, <1>6, <1>7, Rebuild, Zenon

(* dealloc puts a block in front of its list: it changes from given to free. *)
LEMMA PushStep ==
    ASSUME HeapInv, NEW a \in live, NEW i, Pushes(a, i)
    PROVE  HeapInv'
  <1> DEFINE P == Pieces(live, Lists)
             r == a.ptr
             b == [Lists EXCEPT ![i] = Lists[i] \cup {r}]
  <1>0. i = Mode(a.layout).index /\ Mode(a.layout).block /\ live' = live \ {a} /\ uefi' = uefi
    BY DEF Pushes
  <1>1. /\ Exact(P, allocated) /\ end \in Nat
        /\ Lists = [j \in DOMAIN BlockSizes |-> Lists[j]]
        /\ \A c \in live : Given(c) \in P /\ c \in [ptr : Nat, layout : Layouts]
        /\ \A j \in DOMAIN BlockSizes : \A q \in Lists[j] :
              Idle(q, j) \in P /\ q \in Words /\ q \in Nat
        /\ \A j \in DOMAIN BlockSizes :
              /\ IsList(FreeList(j), available[j], memory, BlockSizes[j])
              /\ Blocks(FreeList(j)) = Lists[j]
        /\ \A x \in P : \A w \in Extent(x) : w \in Words
    BY HeapPieces, Zenon
  <1>2. /\ memory = [w \in Words |-> memory[w]] /\ available = [j \in DOMAIN BlockSizes |-> available[j]]
        /\ \A c \in live : LiveInv(c)
    BY Zenon DEF HeapInv
  <1>3. a \in [ptr : Nat, layout : Layouts] /\ Given(a) \in P /\ a.layout \in Layouts /\ r \in Nat
    <2>1. a \in [ptr : Nat, layout : Layouts] /\ Given(a) \in P
      BY <1>1, Zenon
    <2> HIDE DEF P
    <2> QED BY <2>1
  <1>4. i \in DOMAIN BlockSizes /\ Length(a.layout) = BlockSizes[i]
    BY <1>0, <1>3, ModeIs
  <1>5. r \in Extent(Given(a)) /\ Extent(Idle(r, i)) = Extent(Given(a))
    BY <1>3, <1>4, ExtentIs
  <1>6. r \in Words /\ r % BlockSizes[i] = 0
    <2>1. r % BlockSizes[i] = 0
      BY <1>0, <1>2 DEF LiveInv
    <2> QED BY <1>1, <1>3, <1>5, <2>1, Zenon
  <1>7. /\ memory' = [memory EXCEPT ![r] = available[i]] /\ available' = [available EXCEPT ![i] = r]
        /\ allocated' = allocated /\ end' = end
    BY DEF Pushes, DeallocBlock, frames
  <1>8. /\ memory' = [w \in Words |-> memory'[w]] /\ memory'[r] = available[i]
        /\ \A w \in Words : w # r => memory'[w] = memory[w]
    BY <1>2, <1>6, <1>7, Zenon
  <1>9. /\ available' = [j \in DOMAIN BlockSizes |-> available'[j]] /\ available'[i] = r
        /\ \A j \in DOMAIN BlockSizes : j # i => available'[j] = available[j]
    BY <1>2, <1>4, <1>7, Zenon
  <1>10. ASSUME NEW j \in DOMAIN BlockSizes, NEW q \in Lists[j] PROVE q # r /\ memory'[q] = memory[q]
    <2>1. Idle(q, j) \in P /\ q \in Words /\ q \in Nat
      BY <1>1, SMTT(20)
    <2>2. Given(a) # Idle(q, j)
      BY <1>3, PiecesDiffer
    <2>3. Extent(Idle(q, j)) \cap Extent(Given(a)) = {}
      BY <1>1, <1>3, <2>1, <2>2, Zenon DEF Exact
    <2>4. q \in Extent(Idle(q, j))
      BY <2>1, ExtentIs, SMTT(20)
    <2>5. q # r
      BY <1>5, <2>3, <2>4
    <2> QED BY <1>8, <2>1, <2>5
  <1>11. /\ b = [j \in DOMAIN BlockSizes |-> b[j]] /\ b[i] = Lists[i] \cup {r}
         /\ \A j \in DOMAIN BlockSizes : j # i => b[j] = Lists[j]
    BY <1>1, <1>4, Zenon
  <1> HIDE DEF b
  <1>12. ASSUME NEW j \in DOMAIN BlockSizes
         PROVE  \E v : IsList(v, available'[j], memory', BlockSizes[j]) /\ Blocks(v) = b[j]
    <2>1. IsList(FreeList(j), available[j], memory, BlockSizes[j]) /\ Blocks(FreeList(j)) = Lists[j]
      BY <1>1
    <2>2. \A q \in Blocks(FreeList(j)) : q # r /\ memory'[q] = memory[q]
      BY <1>10, <2>1
    <2>3. CASE j = i
      <3>1. r \notin Blocks(FreeList(i)) /\ \A q \in Blocks(FreeList(i)) : memory'[q] = memory[q]
        BY <2>2, <2>3, SMTT(20)
      <3>2. \E v : IsList(v, r, memory', BlockSizes[i]) /\ Blocks(v) = Blocks(FreeList(i)) \cup {r}
        BY <1>1, <1>6, <1>8, <2>1, <2>3, <3>1, ListPush, SMTT(20)
      <3> QED BY <1>9, <1>11, <2>1, <2>3, <3>2
    <2>4. CASE j # i
      <3>1. IsList(FreeList(j), available[j], memory', BlockSizes[j])
        BY <1>1, <2>1, <2>2, ListSame
      <3> QED BY <1>9, <1>11, <2>1, <2>4, <3>1, SMTT(20)
    <2> QED BY <2>3, <2>4
  <1>13. Pieces(live', b) = (P \ {Given(a)}) \cup {Idle(r, i)}
    <2>1. DOMAIN b = DOMAIN BlockSizes /\ DOMAIN Lists = DOMAIN BlockSizes
      BY <1>1, <1>11, SMTT(20)
    <2>2. ASSUME NEW x \in Pieces(live', b) PROVE x \in (P \ {Given(a)}) \cup {Idle(r, i)}
      <3>1. CASE \E c \in live' : x = Given(c)
        <4>1. PICK c \in live' : x = Given(c)
          BY <3>1
        <4>2. c \in live /\ c # a
          BY <1>0
        <4>3. Given(c) # Given(a)
          BY <1>1, <1>3, <4>2, PiecesDiffer, Zenon
        <4> QED BY <1>1, <4>1, <4>2, <4>3
      <3>2. CASE \E j \in DOMAIN b : \E q \in b[j] : x = Idle(q, j)
        <4>1. PICK j \in DOMAIN b : \E q \in b[j] : x = Idle(q, j)
          BY <3>2
        <4>2. PICK q \in b[j] : x = Idle(q, j)
          BY <4>1
        <4>3. j \in DOMAIN BlockSizes /\ (q \in Lists[j] \/ (j = i /\ q = r))
          BY <1>11, <2>1, <4>2, SMTT(20)
        <4>4. CASE q \in Lists[j]
          BY <1>1, <1>3, <4>2, <4>3, <4>4, PiecesDiffer, SMTT(20)
        <4> QED BY <4>2, <4>3, <4>4
      <3>3. (\E c \in live' : x = Given(c)) \/ (\E j \in DOMAIN b : \E q \in b[j] : x = Idle(q, j))
        BY PiecesAre
      <3> QED BY <3>1, <3>2, <3>3
    <2>3. Idle(r, i) \in Pieces(live', b)
      BY <1>4, <1>11, <2>1, PiecesAre, Zenon
    <2>4. ASSUME NEW x \in P, x # Given(a) PROVE x \in Pieces(live', b)
      <3>1. CASE \E c \in live : x = Given(c)
        <4>1. PICK c \in live : x = Given(c)
          BY <3>1
        <4>2. c \in live'
          BY <1>0, <2>4, <4>1, SMTT(20)
        <4> QED BY <4>1, <4>2, PiecesAre
      <3>2. CASE \E j \in DOMAIN Lists : \E q \in Lists[j] : x = Idle(q, j)
        <4>1. PICK j \in DOMAIN Lists : \E q \in Lists[j] : x = Idle(q, j)
          BY <3>2
        <4>2. PICK q \in Lists[j] : x = Idle(q, j)
          BY <4>1
        <4>3. j \in DOMAIN b /\ q \in b[j]
          BY <1>11, <2>1, <4>2, SMTT(20)
        <4> QED BY <4>2, <4>3, PiecesAre, SMTT(20)
      <3>3. (\E c \in live : x = Given(c)) \/ (\E j \in DOMAIN Lists : \E q \in Lists[j] : x = Idle(q, j))
        BY PiecesAre
      <3> QED BY <3>1, <3>2, <3>3, Zenon
    <2> HIDE DEF P
    <2> QED BY <2>2, <2>3, <2>4
  <1>14. Exact(Pieces(live', b), allocated')
    <2>1. Exact(Pieces(live', b), allocated)
      <3> HIDE DEF P
      <3> QED BY <1>1, <1>3, <1>5, <1>13, ExactSwap
    <2> QED BY <1>7, <2>1
  <1>15. live' \subseteq [ptr : Nat, layout : Layouts] /\ \A c \in live' : LiveInv(c)
    BY <1>0, <1>1, <1>2
  <1>16. end' = end /\ uefi' = uefi
    BY <1>0, <1>7
  <1> QED BY <1>8, <1>9, <1>11, <1>12, <1>14, <1>15, <1>16, Rebuild, Zenon

(* dealloc clears the bits of a run of frames, which nothing else lies in. *)
LEMMA FreeStep ==
    ASSUME HeapInv, NEW a \in live, NEW num, FreesRun(a, num)
    PROVE  HeapInv'
  <1> DEFINE P == Pieces(live, Lists)
             p == a.ptr
             f == p \div FrameSize
  <1>0. /\ num = Mode(a.layout).num /\ ~Mode(a.layout).block /\ live' = live \ {a}
        /\ memory' = memory /\ available' = available /\ uefi' = uefi
    BY DEF FreesRun
  <1>1. /\ Exact(P, allocated) /\ end \in Nat
        /\ Lists = [j \in DOMAIN BlockSizes |-> Lists[j]]
        /\ \A c \in live : Given(c) \in P /\ c \in [ptr : Nat, layout : Layouts]
        /\ \A j \in DOMAIN BlockSizes : \A q \in Lists[j] :
              Idle(q, j) \in P /\ q \in Words /\ q \in Nat
        /\ \A j \in DOMAIN BlockSizes :
              /\ IsList(FreeList(j), available[j], memory, BlockSizes[j])
              /\ Blocks(FreeList(j)) = Lists[j]
        /\ \A x \in P : \A w \in Extent(x) : w \in Nat
    BY HeapPieces, Zenon
  <1>2. /\ memory = [w \in Words |-> memory[w]] /\ available = [j \in DOMAIN BlockSizes |-> available[j]]
        /\ \A c \in live : LiveInv(c)
    BY Zenon DEF HeapInv
  <1>3. a \in [ptr : Nat, layout : Layouts] /\ Given(a) \in P /\ a.layout \in Layouts /\ p \in Nat
    <2>1. a \in [ptr : Nat, layout : Layouts] /\ Given(a) \in P
      BY <1>1, Zenon
    <2> HIDE DEF P
    <2> QED BY <2>1
  <1>4. num \in Nat \ {0} /\ Length(a.layout) = num * FrameSize
    BY <1>0, <1>3, ModeIs
  <1>5. p % FrameSize = 0 /\ p < MappedEnd
    BY <1>0, <1>2 DEF LiveInv
  <1>6. FrameOf(a.ptr) = f
    BY <1>5 DEF FrameOf, AsVirtAddr
  <1>7. f \in Nat /\ p = f * FrameSize
    <2>1. FrameSize \in Nat \ {0}
      BY AllocatorAssumption
    <2>2. f \in Nat /\ p = FrameSize * f + (p % FrameSize)
      BY <1>3, <2>1, Quotient, Zenon
    <2> HIDE DEF p, f
    <2> QED BY <1>5, <2>1, <2>2
  <1>8. allocated' = allocated \ Span(f, num) /\ end' = end
    BY <1>6 DEF FreesRun, Free
  <1> HIDE DEF f
  <1>9. /\ \A w \in Nat : w \in p .. p + num * FrameSize - 1 <=> w \div FrameSize \in Span(f, num)
        /\ \A g \in Span(f, num) : g * FrameSize \in Nat /\ (g * FrameSize) \div FrameSize = g
    BY <1>4, <1>7, RunIs
  <1>10. Extent(Given(a)) = p .. p + num * FrameSize - 1
    BY <1>3, <1>4, ExtentIs
  <1>11. \A w : \A y \in P : w \in Extent(y) => (w \div FrameSize \in Span(f, num) <=> w \in Extent(Given(a)))
    <2> HIDE DEF P
    <2> QED BY <1>1, <1>9, <1>10
  <1>12. Span(f, num) \subseteq Used({Given(a)})
    <2> SUFFICES ASSUME NEW g \in Span(f, num) PROVE g \in Used({Given(a)})
      OBVIOUS
    <2>1. g * FrameSize \in Extent(Given(a)) /\ (g * FrameSize) \div FrameSize = g
      BY <1>9, <1>10
    <2> QED BY <2>1, UsedIs
  <1>13. Pieces(live', Lists) = P \ {Given(a)}
    <2>1. ASSUME NEW x \in Pieces(live', Lists) PROVE x \in P \ {Given(a)}
      <3>1. CASE \E c \in live' : x = Given(c)
        <4>1. PICK c \in live' : x = Given(c)
          BY <3>1
        <4>2. c \in live /\ c # a
          BY <1>0
        <4>3. Given(c) # Given(a)
          BY <1>1, <1>3, <4>2, PiecesDiffer, Zenon
        <4> QED BY <1>1, <4>1, <4>2, <4>3
      <3>2. CASE \E j \in DOMAIN Lists : \E q \in Lists[j] : x = Idle(q, j)
        <4>1. PICK j \in DOMAIN Lists : \E q \in Lists[j] : x = Idle(q, j)
          BY <3>2
        <4>2. PICK q \in Lists[j] : x = Idle(q, j)
          BY <4>1
        <4>3. j \in DOMAIN BlockSizes
          BY <1>1
        <4> QED BY <1>1, <1>3, <4>2, <4>3, PiecesDiffer, SMTT(20)
      <3>3. (\E c \in live' : x = Given(c)) \/ (\E j \in DOMAIN Lists : \E q \in Lists[j] : x = Idle(q, j))
        BY PiecesAre, SMTT(20)
      <3> QED BY <3>1, <3>2, <3>3
    <2>2. ASSUME NEW x \in P, x # Given(a) PROVE x \in Pieces(live', Lists)
      <3>1. (\E c \in live : x = Given(c)) \/ (\E j \in DOMAIN Lists : \E q \in Lists[j] : x = Idle(q, j))
        BY PiecesAre
      <3>2. CASE \E c \in live : x = Given(c)
        <4>1. PICK c \in live : x = Given(c)
          BY <3>2
        <4>2. c \in live'
          BY <1>0, <2>2, <4>1, SMTT(20)
        <4> QED BY <4>1, <4>2, PiecesAre
      <3>3. CASE \E j \in DOMAIN Lists : \E q \in Lists[j] : x = Idle(q, j)
        BY <3>3, PiecesAre
      <3> QED BY <3>1, <3>2, <3>3, SMTT(20)
    <2> HIDE DEF P
    <2> QED BY <2>1, <2>2, Zenon
  <1>14. Exact(Pieces(live', Lists), allocated')
    <2>1. Exact(P \ {Given(a)}, allocated \ Span(f, num))
      <3> HIDE DEF P
      <3> QED BY <1>1, <1>3, <1>11, <1>12, ExactRemove, Zenon
    <2> QED BY <1>8, <1>13, <2>1
  <1>15. \A i \in DOMAIN BlockSizes :
            \E v : IsList(v, available'[i], memory', BlockSizes[i]) /\ Blocks(v) = Lists[i]
    BY <1>0, <1>1
  <1>16. live' \subseteq [ptr : Nat, layout : Layouts] /\ \A c \in live' : LiveInv(c)
    <2> HIDE DEF P
    <2> QED BY <1>0, <1>1, <1>2
  <1>17. /\ memory' = [w \in Words |-> memory'[w]] /\ available' = [j \in DOMAIN BlockSizes |-> available'[j]]
         /\ uefi' = uefi
    BY <1>0, <1>2
  <1> QED BY <1>1, <1>8, <1>14, <1>15, <1>16, <1>17, Rebuild, Zenon

-----------------------------------------------------------------------------
(* alloc keeps the invariant. *)
LEMMA AllocStep ==
    ASSUME HeapInv, NEW layout \in Layouts, Alloc(layout)
    PROVE  HeapInv'
  <1> DEFINE m == Mode(layout)
  <1>1. m.block \in BOOLEAN /\ end \in Nat /\ NotEnoughFrame \notin Nat /\ FrameSize \in Nat \ {0}
        /\ MappedEnd \in Nat /\ Null \notin Nat
    BY ModeIs, FirmwareAssumption, AllocatorAssumption DEF HeapInv
  <1>2. uefi' = uefi
    BY Zenon DEF Alloc
  <1>3. ASSUME UNCHANGED <<frames, available, memory, live>> PROVE HeapInv'
    <2>1. UNCHANGED heap
      BY <1>2, <1>3 DEF heap
    <2> QED BY <2>1, HeapSame
  <1>4. \A f \in Nat : AsVirtAddr(f * FrameSize) # Null =>
            f * FrameSize < MappedEnd /\ AsVirtAddr(f * FrameSize) = f * FrameSize
    BY Zenon DEF AsVirtAddr
  <1>5. CASE m.block
    <2> DEFINE i == m.index
    <2>1. AllocBlock(layout, i)
      BY <1>5, Zenon DEF Alloc
    <2>2. CASE /\ available[i] # Null
               /\ available' = [available EXCEPT ![i] = memory[available[i]]]
               /\ HandOut(memory, available[i], BlockSizes[i], layout)
               /\ UNCHANGED frames
      <3>1. UNCHANGED <<allocated, end, uefi>>
        BY <1>2, <2>2 DEF frames
      <3>2. Pops(layout, i, available[i])
        BY <1>5, <2>2, <3>1, Zenon DEF Pops
      <3> QED BY <3>2, PopStep, ZenonT(40)
    <2>3. CASE /\ available[i] = Null /\ Allocate(1) # NotEnoughFrame
               /\ AsVirtAddr(Allocate(1) * FrameSize) # Null
               /\ MarkAllocated(Allocate(1), 1)
               /\ available' = [available EXCEPT ![i] =
                     Carve(Allocate(1), BlockSizes[i])[AsVirtAddr(Allocate(1) * FrameSize)]]
               /\ HandOut(Carve(Allocate(1), BlockSizes[i]), AsVirtAddr(Allocate(1) * FrameSize),
                          BlockSizes[i], layout)
      <3>1. Allocate(1) \in Nat
        <4>1. 1 \in Nat \ {0}
          OBVIOUS
        <4>2. end \in Nat
          BY <1>1, Zenon
        <4>3. Allocate(1) # NotEnoughFrame
          BY <2>3, Zenon
        <4> QED BY <4>1, <4>2, <4>3, AllocateIs, Zenon
      <3>2. AsVirtAddr(Allocate(1) * FrameSize) = Allocate(1) * FrameSize
        BY <1>4, <2>3, <3>1, Zenon
      <3>3. /\ available' = [available EXCEPT ![i] = Carve(Allocate(1), BlockSizes[i])[Allocate(1) * FrameSize]]
            /\ HandOut(Carve(Allocate(1), BlockSizes[i]), Allocate(1) * FrameSize, BlockSizes[i], layout)
        BY <2>3, <3>2, Zenon
      <3>4. Cuts(layout, i, Allocate(1), Allocate(1) * FrameSize)
        BY <1>2, <1>5, <2>3, <3>3, Zenon DEF Cuts
      <3> QED BY <3>4, CarveStep, Zenon
    <2>4. CASE UNCHANGED <<frames, available, memory, live>>
      BY <1>3, <2>4
    <2> QED BY <2>1, <2>2, <2>3, <2>4, Zenon DEF AllocBlock
  <1>6. CASE ~m.block
    <2> DEFINE num == m.num
    <2>1. AllocFrames(layout, num) /\ num \in Nat \ {0}
      BY <1>6, ModeIs, Zenon DEF Alloc
    <2>2. CASE /\ Allocate(num) # NotEnoughFrame
               /\ AsVirtAddr(Allocate(num) * FrameSize) # Null
               /\ MarkAllocated(Allocate(num), num)
               /\ HandOut(memory, AsVirtAddr(Allocate(num) * FrameSize), num * FrameSize, layout)
               /\ UNCHANGED available
      <3>1. Allocate(num) \in Nat
        <4>1. end \in Nat /\ Allocate(num) # NotEnoughFrame
          BY <1>1, <2>2
        <4> QED BY <2>1, <4>1, AllocateIs, Zenon
      <3>2. /\ AsVirtAddr(Allocate(num) * FrameSize) = Allocate(num) * FrameSize
            /\ Allocate(num) * FrameSize < MappedEnd
        BY <1>4, <2>2, <3>1, Zenon
      <3>3. HandOut(memory, Allocate(num) * FrameSize, num * FrameSize, layout)
        BY <2>2, <3>2, Zenon
      <3>4. UNCHANGED <<available, uefi>>
        BY <1>2, <2>2
      <3>5. GivesRun(layout, num, Allocate(num), Allocate(num) * FrameSize)
        BY <1>6, <2>2, <3>2, <3>3, <3>4, Zenon DEF GivesRun
      <3> QED BY <3>5, FramesStep, Zenon
    <2>3. CASE UNCHANGED <<frames, available, memory, live>>
      BY <1>3, <2>3
    <2> QED BY <2>1, <2>2, <2>3, Zenon DEF AllocFrames
  <1> QED BY <1>1, <1>5, <1>6, SMTT(20)

(* dealloc keeps the invariant. *)
LEMMA DeallocStep ==
    ASSUME HeapInv, NEW a \in live, Dealloc(a)
    PROVE  HeapInv'
  <1> DEFINE m == Mode(a.layout)
  <1>1. live' = live \ {a} /\ uefi' = uefi
    BY Zenon DEF Dealloc
  <1>2. CASE m.block
    <2>1. DeallocBlock(a.ptr, m.index)
      BY <1>2, Zenon DEF Dealloc
    <2>2. Pushes(a, m.index)
      BY <1>1, <1>2, <2>1, Zenon DEF Pushes
    <2> QED BY <2>2, PushStep, Zenon
  <1>3. CASE ~m.block
    <2>1. Free(FrameOf(a.ptr), m.num) /\ UNCHANGED <<memory, available>>
      BY <1>3, Zenon DEF Dealloc
    <2>2. UNCHANGED <<memory, available, uefi>>
      BY <1>1, <2>1
    <2>3. FreesRun(a, m.num)
      BY <1>1, <1>3, <2>1, <2>2, Zenon DEF FreesRun
    <2> QED BY <2>3, FreeStep, Zenon
  <1> QED BY <1>2, <1>3

(* The heap's invariant holds whatever is allocated and freed in whatever order: each size  *)
(* has a list that ends and meets no block twice, and the pieces that clients and lists     *)
(* have are disjoint and match the bitmap.                                                  *)
THEOREM HeapInvariance == SpecHeap => []HeapInv
  <1>1. InitHeap => HeapInv
    BY HeapStart
  <1>2. HeapInv /\ [NextHeap]_heap => HeapInv'
    <2> SUFFICES ASSUME HeapInv, [NextHeap]_heap PROVE HeapInv'
      OBVIOUS
    <2>1. ASSUME NEW layout \in Layouts, Alloc(layout) PROVE HeapInv'
      BY <2>1, AllocStep
    <2>2. ASSUME NEW a \in live, Dealloc(a) PROVE HeapInv'
      BY <2>2, DeallocStep
    <2>3. CASE UNCHANGED heap
      BY <2>3, HeapSame
    <2> QED BY <2>1, <2>2, <2>3, Zenon DEF NextHeap
  <1> QED BY <1>1, <1>2, PTL DEF SpecHeap

(* The kernel heap is sound for all sizes, layouts and firmware maps: lists are intact, no  *)
(* word is handed out twice, no frame is leaked, and pointers are aligned and large enough. *)
THEOREM HeapIsSound == SpecHeap => []HeapSound
  <1>1. HeapInv => HeapSound
    <2> SUFFICES ASSUME HeapInv PROVE HeapSound
      OBVIOUS
    <2>1. /\ Exact(Pieces(live, Lists), allocated)
          /\ \A a \in live : a \in [ptr : Nat, layout : Layouts]
          /\ \A i \in DOMAIN BlockSizes : \A q \in Lists[i] : q \in Words
          /\ \A i \in DOMAIN BlockSizes : IsList(FreeList(i), available[i], memory, BlockSizes[i])
      BY HeapPieces, Zenon
    <2>2. \A i \in DOMAIN BlockSizes : Lists[i] \subseteq Words /\ FreeList(i)[Steps] = Null
      BY <2>1, Zenon DEF IsList
    <2>3. ASSUME NEW a \in live
          PROVE  /\ a.ptr % a.layout.align = 0 /\ a.layout.size <= Length(a.layout)
                 /\ ~Mode(a.layout).block => AsVirtAddr(a.ptr) # Null
      <3> DEFINE l == a.layout
                 m == Mode(l)
      <3>1. a.ptr \in Nat /\ l \in Layouts
        <4>1. a \in [ptr : Nat, layout : Layouts]
          BY <2>1, Zenon
        <4> QED BY <4>1
      <3>2. LiveInv(a)
        BY Zenon DEF HeapInv
      <3>3. /\ FrameSize \in Nat \ {0} /\ l.align \in Nat \ {0} /\ Null \notin Nat
        BY <3>1, AllocatorAssumption, Zenon
      <3>4. CASE m.block
        <4>1. /\ BlockSizes[m.index] \in Nat \ {0} /\ BlockSizes[m.index] % l.align = 0
              /\ l.size <= Length(l)
          BY <3>1, <3>4, ModeIs
        <4>2. a.ptr % BlockSizes[m.index] = 0
          BY <3>2, <3>4, Zenon DEF LiveInv
        <4>3. a.ptr % l.align = 0
          BY <3>1, <3>3, <4>1, <4>2, Aligned
        <4> QED BY <3>4, <4>1, <4>3, SMTT(20)
      <3>5. CASE ~m.block
        <4>1. FrameSize % l.align = 0 /\ l.size <= Length(l)
          BY <3>1, <3>5, ModeIs
        <4>2. a.ptr % FrameSize = 0 /\ a.ptr < MappedEnd
          BY <3>2, <3>5, Zenon DEF LiveInv
        <4>3. a.ptr % l.align = 0
          BY <3>1, <3>3, <4>1, <4>2, Aligned
        <4>4. AsVirtAddr(a.ptr) # Null
          BY <3>1, <3>3, <4>2, Zenon DEF AsVirtAddr
        <4> QED BY <4>1, <4>3, <4>4
      <3> QED BY <3>4, <3>5
    <2> QED BY <2>1, <2>2, <2>3, Zenon DEF HeapSound
  <1> QED BY <1>1, HeapInvariance, PTL

(* allocate() is an exact first fit in every state of the heap. *)
THEOREM FirstFitHolds == SpecHeap => []FirstFitExact
  <1>1. HeapInv => FirstFitExact
    BY FitIs DEF HeapInv
  <1> QED BY <1>1, HeapInvariance, PTL
=============================================================================
