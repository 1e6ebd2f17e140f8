------------------------ MODULE BufferedVolumeProofs ------------------------
(* Proofs about BufferedVolume, for any tasks, sectors, holders, cache size and faults. *)
EXTENDS BufferedVolume, SequenceTheorems, FiniteSetTheorems, TLAPS

(* What the assumption says of the setting of a behaviour. *)
LEMMA SettingFacts ==
    ASSUME setting \in Settings
    PROVE  /\ IsFiniteSet(Holders) /\ Cardinality(Holders) \in Nat
           /\ Owner \in [Holders -> Tasks]
           /\ CacheSize \in Nat \ {0}
           /\ Blank \in setting.values
           /\ None \notin Buffers /\ None \notin Sectors /\ None # <<>>
           /\ Buffers \subseteq Nat
           /\ IsFiniteSet(Buffers)
           /\ Cardinality(Buffers) = CacheSize + Cardinality(Holders) - 1
  <1>1. IsFiniteSet(Holders) /\ Owner \in [Holders -> Tasks] /\ CacheSize \in Nat \ {0}
    BY VolumeAssumption, Zenon DEF Holders, Owner, CacheSize
  <1>2. Cardinality(Holders) \in Nat
    BY <1>1, FS_CardinalityType, Zenon
  <1> DEFINE c == CacheSize + Cardinality(Holders) - 1
  <1>3. c \in Nat
    BY <1>1, <1>2
  <1>4. IsFiniteSet(1 .. c) /\ Cardinality(1 .. c) = c
    <2> HIDE DEF c
    <2> QED BY <1>3, FS_Interval
  <1>5. Buffers \subseteq Nat /\ None \notin Buffers
    BY <1>3, VolumeAssumption DEF Buffers
  <1> QED BY <1>1, <1>2, <1>4, <1>5, VolumeAssumption, Zenon DEF Buffers

(* The elements of a sequence. *)
LEMMA ElemsOf ==
    ASSUME NEW S, NEW s \in Seq(S)
    PROVE  /\ Range(s) \subseteq S /\ Len(s) \in Nat /\ DOMAIN s = 1 .. Len(s)
           /\ \A x : x \in Range(s) <=> \E i \in 1 .. Len(s) : s[i] = x
  BY LenProperties, ElementOfSeq DEF Range

(* A sequence without repetitions has as many elements as it is long. *)
LEMMA CountOf ==
    ASSUME NEW S, NEW s \in Seq(S), IsInjective(s)
    PROVE  IsFiniteSet(Range(s)) /\ Cardinality(Range(s)) = Len(s)
  <1> DEFINE n == Len(s)
  <1>1. n \in Nat /\ DOMAIN s = 1 .. n /\ s \in [1 .. n -> S]
    BY LenProperties, Zenon
  <1> HIDE DEF n
  <1>2. s \in Bijection(1 .. n, Range(s))
    <2>1. s \in [1 .. n -> Range(s)]
      BY <1>1, Zenon DEF Range
    <2>2. \A y \in Range(s) : \E i \in 1 .. n : s[i] = y
      BY <1>1, Zenon DEF Range
    <2> QED BY <1>1, <2>1, <2>2, Zenon DEF Bijection, Injection, Surjection, IsInjective
  <1>3. IsFiniteSet(1 .. n) /\ Cardinality(1 .. n) = n
    BY <1>1, FS_Interval
  <1>4. ExistsBijection(1 .. n, Range(s))
    BY <1>2, Zenon DEF ExistsBijection
  <1> QED BY <1>3, <1>4, FS_Bijection, Zenon DEF n

(* Taking the i-th element out of a sequence without repetitions. *)
LEMMA RemoveElems ==
    ASSUME NEW S, NEW s \in Seq(S), IsInjective(s), NEW i \in 1 .. Len(s)
    PROVE  /\ Without(s, i) \in Seq(S) /\ IsInjective(Without(s, i))
           /\ Range(Without(s, i)) = Range(s) \ {s[i]}
  <1> DEFINE a == SubSeq(s, 1, i - 1)
             c == SubSeq(s, i + 1, Len(s))
             n == Len(s)
             r == Without(s, i)
  <1>1. n \in Nat /\ DOMAIN s = 1 .. n /\ \A k \in 1 .. n : s[k] \in S
    BY LenProperties, Zenon
  <1>2. /\ a \in Seq(S) /\ Len(a) = i - 1
        /\ \A k \in 1 .. i - 1 : a[k] = s[k]
    <2>1. 1 \in Int /\ i - 1 \in Int /\ \A k \in 1 .. i - 1 : s[k] \in S
      BY <1>1
    <2>2. /\ a \in Seq(S) /\ Len(a) = IF 1 <= i - 1 THEN (i - 1) - 1 + 1 ELSE 0
          /\ \A k \in 1 .. (i - 1) - 1 + 1 : a[k] = s[1 + k - 1]
      BY <2>1, SubSeqProperties
    <2> HIDE DEF a
    <2> QED BY <2>2, <1>1
  <1>3. /\ c \in Seq(S) /\ Len(c) = n - i
        /\ \A k \in 1 .. n - i : c[k] = s[i + k]
    <2>1. i + 1 \in Int /\ n \in Int /\ \A k \in i + 1 .. n : s[k] \in S
      BY <1>1
    <2>2. /\ c \in Seq(S) /\ Len(c) = IF i + 1 <= n THEN n - (i + 1) + 1 ELSE 0
          /\ \A k \in 1 .. n - (i + 1) + 1 : c[k] = s[i + 1 + k - 1]
      BY <2>1, SubSeqProperties
    <2> HIDE DEF c
    <2>3. \A k \in 1 .. n - i : k \in 1 .. n - (i + 1) + 1 /\ i + 1 + k - 1 = i + k
      BY <1>1
    <2>4. Len(c) = n - i
      <3>1. i \in 1 .. n /\ Len(c) = IF i + 1 <= n THEN n - (i + 1) + 1 ELSE 0
        BY <2>2, Zenon
      <3> HIDE DEF n
      <3> QED BY <3>1, <1>1
    <2> QED BY <2>2, <2>3, <2>4, Zenon
  <1>4. r = a \o c
    BY Zenon DEF Without
  <1> HIDE DEF a, c, n, r
  <1>5. /\ r \in Seq(S) /\ Len(r) = n - 1
        /\ \A k \in 1 .. n - 1 : r[k] = IF k < i THEN s[k] ELSE s[k + 1]
    <2>1. /\ r \in Seq(S) /\ Len(r) = Len(a) + Len(c)
          /\ \A k \in 1 .. Len(a) + Len(c) : r[k] = IF k <= Len(a) THEN a[k] ELSE c[k - Len(a)]
      BY <1>2, <1>3, <1>4, ConcatProperties, Zenon
    <2>2. i \in 1 .. n
      BY Zenon DEF n
    <2> QED BY <2>1, <2>2, <1>1, <1>2, <1>3
  <1>6. DOMAIN r = 1 .. n - 1
    BY <1>5, LenProperties, Zenon
  <1>7. i \in 1 .. n
    BY Zenon DEF n
  <1>8. IsInjective(r)
    <2>1. SUFFICES ASSUME NEW k \in 1 .. n - 1, NEW l \in 1 .. n - 1, r[k] = r[l] PROVE k = l
      BY <1>6, Zenon DEF IsInjective
    <2> DEFINE from(x) == IF x < i THEN x ELSE x + 1
    <2>2. from(k) \in 1 .. n /\ from(l) \in 1 .. n /\ s[from(k)] = r[k] /\ s[from(l)] = r[l]
      BY <1>1, <1>5, <1>7
    <2>3. from(k) = from(l)
      <3> HIDE DEF from
      <3> QED BY <1>1, <2>1, <2>2, Zenon DEF IsInjective
    <2> QED BY <1>1, <1>7, <2>3
  <1>9. ASSUME NEW y \in Range(r) PROVE y \in Range(s) \ {s[i]}
    <2>1. PICK k \in 1 .. n - 1 : r[k] = y
      BY <1>6, <1>9, Zenon DEF Range
    <2>2. \E l \in 1 .. n : l # i /\ s[l] = y
      BY <1>1, <1>5, <1>7, <2>1
    <2> QED BY <1>1, <1>7, <2>2, Zenon DEF IsInjective, Range
  <1>10. ASSUME NEW y \in Range(s) \ {s[i]} PROVE y \in Range(r)
    <2>1. PICK k \in 1 .. n : s[k] = y
      BY <1>1, Zenon DEF Range
    <2>2. CASE k < i
      BY <1>1, <1>5, <1>6, <1>7, <2>1, <2>2 DEF Range
    <2>3. CASE k > i
      <3>1. k - 1 \in 1 .. n - 1 /\ r[k - 1] = y
        BY <1>1, <1>5, <1>7, <2>1, <2>3
      <3> QED BY <3>1, <1>6, Zenon DEF Range
    <2> QED BY <1>1, <1>7, <2>1, <2>2, <2>3
  <1> QED BY <1>5, <1>8, <1>9, <1>10, Zenon DEF r

(* A new element at the front. *)
LEMMA PushElems ==
    ASSUME NEW S, NEW s \in Seq(S), IsInjective(s), NEW x \in S, x \notin Range(s)
    PROVE  /\ PushFront(s, x) \in Seq(S) /\ IsInjective(PushFront(s, x))
           /\ Range(PushFront(s, x)) = Range(s) \union {x}
  <1> DEFINE n == Len(s)
             r == PushFront(s, x)
  <1>1. n \in Nat /\ DOMAIN s = 1 .. n /\ \A k \in 1 .. n : s[k] \in S
    BY LenProperties, Zenon
  <1>2. /\ r \in Seq(S) /\ Len(r) = n + 1 /\ r[1] = x
        /\ \A k \in 1 .. n : r[k + 1] = s[k]
    <2>1. <<x>> \in Seq(S) /\ Len(<<x>>) = 1 /\ <<x>>[1] = x
      OBVIOUS
    <2>2. /\ r \in Seq(S) /\ Len(r) = 1 + n
          /\ \A k \in 1 .. 1 + n : r[k] = IF k <= 1 THEN <<x>>[k] ELSE s[k - 1]
      BY <2>1, ConcatProperties, Zenon DEF PushFront
    <2> HIDE DEF n, r
    <2>3. r[1] = x
      BY <2>1, <2>2, <1>1
    <2>4. \A k \in 1 .. n : k + 1 \in 1 .. 1 + n /\ ~(k + 1 <= 1) /\ k + 1 - 1 = k
      BY <1>1
    <2>5. \A k \in 1 .. n : r[k + 1] = s[k]
      BY <2>2, <2>4
    <2> QED BY <2>2, <2>3, <2>5, <1>1
  <1> HIDE DEF n, r
  <1>3. DOMAIN r = 1 .. n + 1
    BY <1>2, LenProperties, Zenon
  <1>4. \A k \in 1 .. n + 1 : k = 1 \/ (k - 1 \in 1 .. n /\ r[k] = s[k - 1])
    BY <1>1, <1>2
  <1>5. \A k \in 1 .. n : s[k] # x
    BY <1>1, Zenon DEF Range
  <1>6. IsInjective(r)
    <2>1. SUFFICES ASSUME NEW k \in 1 .. n + 1, NEW l \in 1 .. n + 1, r[k] = r[l] PROVE k = l
      BY <1>3, Zenon DEF IsInjective
    <2>2. CASE k = 1 \/ l = 1
      BY <1>2, <1>4, <1>5, <2>1, <2>2, Zenon
    <2>3. CASE k # 1 /\ l # 1
      <3>1. k - 1 \in 1 .. n /\ l - 1 \in 1 .. n /\ s[k - 1] = s[l - 1]
        BY <1>4, <2>1, <2>3, Zenon
      <3>2. k - 1 = l - 1
        BY <1>1, <3>1, Zenon DEF IsInjective
      <3> QED BY <1>1, <3>2
    <2> QED BY <2>2, <2>3, Zenon
  <1>7. ASSUME NEW y \in Range(s) PROVE y \in Range(r)
    <2>1. PICK k \in 1 .. n : s[k] = y
      BY <1>1, Zenon DEF Range
    <2>2. k + 1 \in 1 .. n + 1 /\ r[k + 1] = y
      BY <1>1, <1>2, <2>1
    <2> QED BY <2>2, <1>3, Zenon DEF Range
  <1>8. x \in Range(r)
    BY <1>1, <1>2, <1>3 DEF Range
  <1>9. ASSUME NEW y \in Range(r) PROVE y \in Range(s) \union {x}
    <2>1. PICK k \in 1 .. n + 1 : r[k] = y
      BY <1>3, Zenon DEF Range
    <2> QED BY <1>1, <1>2, <1>4, <2>1, Zenon DEF Range
  <1> QED BY <1>2, <1>6, <1>7, <1>8, <1>9, Zenon DEF r

(* Refs and buffers. *)
LEMMA RefFacts ==
    ASSUME TypeOK, Tables
    PROVE  /\ Live \subseteq Buffers /\ lent \subseteq Live /\ Range(cached) \subseteq Live
           /\ \A h \in Holders : pc[h] # "idle" => ref[h] \in lent
           /\ \A b \in lent : \E h \in Holders : ref[h] = b /\ pc[h] # "idle"
  <1>1. Range(cached) \subseteq Buffers
    BY ElemsOf, Zenon DEF TypeOK
  <1>2. \A h \in Holders : pc[h] # "idle" => ref[h] \in lent
    BY Zenon DEF Tables
  <1>3. \A b \in lent : \E h \in Holders : ref[h] = b /\ pc[h] # "idle"
    BY Zenon DEF Tables
  <1> QED BY <1>1, <1>2, <1>3, Zenon DEF TypeOK, Live

(* Live counts lent and cached. *)
LEMMA LiveCount ==
    ASSUME TypeOK, Tables
    PROVE  /\ IsFiniteSet(lent) /\ Cardinality(lent) \in Nat
           /\ IsFiniteSet(Live) /\ Cardinality(Live) = Cardinality(lent) + Len(cached)
  <1>1. IsFiniteSet(Range(cached)) /\ Cardinality(Range(cached)) = Len(cached)
    BY CountOf, Zenon DEF TypeOK, Tables
  <1>2. IsFiniteSet(Buffers)
    BY SettingFacts, Zenon DEF TypeOK
  <1>3. IsFiniteSet(lent)
    BY <1>2, FS_Subset, Zenon DEF TypeOK
  <1>4. Cardinality(lent) \in Nat /\ Len(cached) \in Nat
    BY <1>3, FS_CardinalityType, LenProperties, Zenon DEF TypeOK
  <1>5. Cardinality(lent \cap Range(cached)) = 0
    BY FS_EmptySet, Zenon DEF Tables
  <1>6. /\ IsFiniteSet(lent \cup Range(cached))
        /\ Cardinality(lent \cup Range(cached))
              = Cardinality(lent) + Cardinality(Range(cached)) - Cardinality(lent \cap Range(cached))
    BY <1>1, <1>3, FS_Union, Zenon
  <1> QED BY <1>1, <1>3, <1>4, <1>5, <1>6 DEF Live

(* While a holder is idle and the cache is not full, sector() can make another buffer: the *)
(* refs alive are fewer than the holders.                                                   *)
LEMMA FreshExists ==
    ASSUME TypeOK, Tables, NEW h \in Holders, pc[h] = "idle", Len(cached) < CacheSize
    PROVE  \E b \in Buffers : b \notin Live
  <1> DEFINE D == {g \in Holders : ref[g] # None}
             R == [g \in D |-> ref[g]]
  <1>1. /\ IsFiniteSet(Holders) /\ Cardinality(Holders) \in Nat
        /\ Cardinality(Buffers) = CacheSize + Cardinality(Holders) - 1
        /\ CacheSize \in Nat /\ Len(cached) \in Nat
    BY SettingFacts, LenProperties, Zenon DEF TypeOK
  <1>2. IsFiniteSet(Holders \ {h}) /\ Cardinality(Holders \ {h}) = Cardinality(Holders) - 1
    BY <1>1, FS_RemoveElement, Zenon
  <1>3. D \in SUBSET (Holders \ {h})
    BY Zenon DEF Tables
  <1>4. IsFiniteSet(D) /\ Cardinality(D) <= Cardinality(Holders) - 1
    BY <1>2, <1>3, FS_Subset
  <1>5. R \in Surjection(D, lent)
    BY Zenon DEF Surjection, Tables
  <1>6. Cardinality(lent) <= Cardinality(D)
    BY <1>4, <1>5, FS_Surjection, Zenon
  <1>7. Cardinality(D) \in Nat
    BY <1>4, FS_CardinalityType, Zenon
  <1>8. Cardinality(Live) < Cardinality(Buffers)
    BY <1>1, <1>4, <1>6, <1>7, LiveCount
  <1>9. Live # Buffers
    BY <1>1, <1>8, LiveCount, FS_CardinalityType
  <1> QED BY <1>9, RefFacts, Zenon

-----------------------------------------------------------------------------
(* sector() up to drop(sectors) in terms of sets: the buffer b is lent to h, not cached any *)
(* more, and was found for s, recycled for s, or made for s.                                *)
Lends(h, b) ==
    /\ ref' = [ref EXCEPT ![h] = b]
    /\ lent' = lent \union {b}
    /\ pc' = [pc EXCEPT ![h] = "init"]
    /\ UNCHANGED <<disk, dirty, latest>>

Uncaches(b) ==
    /\ cached' \in Seq(Buffers) /\ IsInjective(cached')
    /\ Range(cached') = Range(cached) \ {b}

Finds(b, s) == b \in Live /\ label[b] = s /\ UNCHANGED <<label, home, bytes>>

Recycles(b, s) ==
    /\ b \in Range(cached)
    /\ \A c \in Live : label[c] # s
    /\ label' = [label EXCEPT ![b] = s] /\ UNCHANGED <<home, bytes>>

Makes(b, s) ==
    /\ b \in Buffers \ Live
    /\ \A c \in Live : label[c] # s
    /\ label' = [label EXCEPT ![b] = s]
    /\ home' = [home EXCEPT ![b] = None]
    /\ bytes' = [bytes EXCEPT ![b] = Blank]

LEMMA ObtainIs ==
    ASSUME TypeOK, Tables, NEW h \in Holders, pc[h] = "idle", NEW s \in Sectors, Obtain(h, s)
    PROVE  \E b \in Buffers : /\ Lends(h, b) /\ Uncaches(b)
                              /\ Finds(b, s) \/ Recycles(b, s) \/ Makes(b, s)
  <1> DEFINE oldest == cached[Len(cached)]
             fresh == CHOOSE b \in Buffers : b \notin Live
             Found == \E b \in lent : /\ label[b] = s /\ Lends(h, b)
                                      /\ UNCHANGED <<label, home, bytes, cached>>
             FoundCached == \E i \in 1 .. Len(cached) :
                                /\ label[cached[i]] = s /\ Lends(h, cached[i])
                                /\ cached' = Without(cached, i) /\ UNCHANGED <<label, home, bytes>>
             NotFound == \A b \in Live : label[b] # s
             Recycled == /\ CacheSize <= Len(cached) /\ Lends(h, oldest)
                         /\ cached' = Without(cached, Len(cached))
                         /\ label' = [label EXCEPT ![oldest] = s] /\ UNCHANGED <<home, bytes>>
             Made == /\ Len(cached) < CacheSize /\ Lends(h, fresh)
                     /\ label' = [label EXCEPT ![fresh] = s]
                     /\ home' = [home EXCEPT ![fresh] = None]
                     /\ bytes' = [bytes EXCEPT ![fresh] = Blank]
                     /\ UNCHANGED cached
  <1>1. /\ cached \in Seq(Buffers) /\ IsInjective(cached) /\ Len(cached) \in Nat
        /\ lent \cap Range(cached) = {} /\ CacheSize \in Nat \ {0}
        /\ Range(cached) \subseteq Buffers
        /\ \A i \in 1 .. Len(cached) : cached[i] \in Range(cached)
    BY SettingFacts, ElemsOf, Zenon DEF TypeOK, Tables
  <1>2. Found \/ FoundCached \/ (NotFound /\ (Recycled \/ Made))
    BY Zenon DEF Obtain, Lends
  <1>3. ASSUME NEW i \in 1 .. Len(cached), cached' = Without(cached, i) PROVE Uncaches(cached[i])
    BY <1>1, <1>3, RemoveElems, Zenon DEF Uncaches
  <1>4. CASE Found
    <2>1. PICK b \in lent : label[b] = s /\ Lends(h, b) /\ UNCHANGED <<label, home, bytes, cached>>
      BY <1>4, Zenon
    <2>2. Uncaches(b)
      BY <1>1, <2>1, Zenon DEF Uncaches
    <2>3. Finds(b, s)
      BY <2>1, RefFacts, Zenon DEF Finds
    <2> QED BY <2>1, <2>2, <2>3, RefFacts, Zenon
  <1>5. CASE FoundCached
    <2>1. PICK i \in 1 .. Len(cached) :
             /\ label[cached[i]] = s /\ Lends(h, cached[i])
             /\ cached' = Without(cached, i) /\ UNCHANGED <<label, home, bytes>>
      BY <1>5, Zenon
    <2>2. Uncaches(cached[i]) /\ cached[i] \in Range(cached)
      BY <1>1, <1>3, <2>1, Zenon
    <2>3. Finds(cached[i], s)
      BY <2>1, <2>2, RefFacts, Zenon DEF Finds
    <2> QED BY <1>1, <2>1, <2>2, <2>3, Zenon
  <1>6. CASE NotFound /\ Recycled
    <2>1. Len(cached) \in 1 .. Len(cached)
      BY <1>1, <1>6
    <2>2. oldest \in Range(cached) /\ Uncaches(oldest)
      BY <1>1, <1>3, <1>6, <2>1, Zenon
    <2>3. Recycles(oldest, s)
      BY <1>6, <2>2, Zenon DEF Recycles
    <2> QED BY <1>1, <1>6, <2>2, <2>3, Zenon
  <1>7. CASE NotFound /\ Made
    <2>1. fresh \in Buffers \ Live
      BY <1>7, FreshExists, Zenon
    <2> HIDE DEF fresh
    <2>2. Uncaches(fresh)
      BY <1>1, <1>7, <2>1, Zenon DEF Uncaches, Live
    <2>3. Makes(fresh, s)
      BY <1>7, <2>1, Zenon DEF Makes
    <2> QED BY <1>7, <2>1, <2>2, <2>3, Zenon
  <1> HIDE DEF Found, FoundCached, NotFound, Recycled, Made
  <1> QED BY <1>2, <1>4, <1>5, <1>6, <1>7, Zenon

(* drop() of a ref in terms of sets. *)
Returns(h) ==
    /\ ref' = [ref EXCEPT ![h] = None]
    /\ pc' = [pc EXCEPT ![h] = "idle"]
    /\ UNCHANGED <<disk, buf, latest>>
    /\ \/ /\ \E g \in Holders \ {h} : ref[g] = ref[h]
          /\ UNCHANGED <<lent, cached>>
       \/ /\ \A g \in Holders \ {h} : ref[g] # ref[h]
          /\ lent' = lent \ {ref[h]}
          /\ cached' \in Seq(Buffers) /\ IsInjective(cached')
          /\ Range(cached') = Range(cached) \union {ref[h]}

LEMMA ReleaseIs ==
    ASSUME TypeOK, Tables, NEW h \in Holders, pc[h] # "idle", Release(h)
    PROVE  Returns(h)
  <1>1. ref[h] \in lent /\ lent \subseteq Live /\ ref[h] \in Buffers
    BY RefFacts, Zenon DEF TypeOK
  <1>2. ASSUME NEW b \in lent, label[b] = label[ref[h]] PROVE b = ref[h]
    BY <1>1, <1>2, Zenon DEF Tables
  <1> DEFINE last == ~\E g \in Holders \ {h} : ref[g] = ref[h]
             b == CHOOSE b \in lent : label[b] = label[ref[h]]
  <1>3. b = ref[h]
    BY <1>1, <1>2, Zenon
  <1>4. /\ ref' = [ref EXCEPT ![h] = None]
        /\ pc' = [pc EXCEPT ![h] = "idle"]
        /\ UNCHANGED <<disk, buf, latest>>
        /\ IF last THEN lent' = lent \ {b} /\ cached' = PushFront(cached, b)
                   ELSE UNCHANGED <<lent, cached>>
    BY Zenon DEF Release, Unref
  <1> HIDE DEF b
  <1>5. CASE last
    <2>1. lent' = lent \ {ref[h]} /\ cached' = PushFront(cached, ref[h])
      BY <1>3, <1>4, <1>5, Zenon
    <2>2. cached \in Seq(Buffers) /\ IsInjective(cached) /\ ref[h] \notin Range(cached)
      BY <1>1, Zenon DEF TypeOK, Tables
    <2> QED BY <1>1, <1>4, <1>5, <2>1, <2>2, PushElems DEF Returns
  <1> QED BY <1>4, <1>5, Zenon DEF Returns

(* The setting does not change, and nothing defined from it does. *)
LEMMA SettingKept ==
    ASSUME setting' = setting
    PROVE  /\ Holders' = Holders /\ Buffers' = Buffers /\ Owner' = Owner /\ Faults' = Faults
           /\ Undisturbed' = Undisturbed
  BY Zenon DEF Holders, Buffers, Owner, CacheSize, Faults, Undisturbed

(* Obtaining a buffer keeps the tables. *)
LEMMA ObtainKeeps ==
    ASSUME TypeOK, Tables, Data, setting' = setting, todo' \in [Tasks -> Seq(Sectors) \union {None}],
           NEW h \in Holders, pc[h] = "idle", NEW s \in Sectors, Obtain(h, s)
    PROVE  TypeOK' /\ Tables' /\ Data'
  <1>1. PICK b \in Buffers : /\ Lends(h, b) /\ Uncaches(b)
                             /\ Finds(b, s) \/ Recycles(b, s) \/ Makes(b, s)
    BY ObtainIs, Zenon
  <1>2. /\ Holders' = Holders /\ Buffers' = Buffers /\ None \notin Buffers /\ None \notin Sectors
        /\ Blank \in setting.values
    BY SettingKept, SettingFacts, Zenon DEF TypeOK
  <1>3. Live' = Live \union {b} /\ Live \subseteq Buffers
    BY <1>1, RefFacts, Zenon DEF Live, Lends, Uncaches
  <1>4. TypeOK'
    <2>1. ref' \in [Holders -> Buffers \union {None}] /\ lent' \subseteq Buffers
      BY <1>1, Zenon DEF TypeOK, Lends
    <2>2. pc' \in [Holders -> {"idle", "init", "read", "use", "written", "commit", "committed",
                               "failed"}]
      BY <1>1, Zenon DEF TypeOK, Lends
    <2>3. /\ label' \in [Buffers -> Sectors \union {None}]
          /\ home' \in [Buffers -> Sectors \union {None}]
          /\ bytes' \in [Buffers -> setting.values \union {Garbage}]
      <3>1. label' \in [Buffers -> Sectors \union {None}]
        BY <1>1, Zenon DEF TypeOK, Finds, Recycles, Makes
      <3>2. home' \in [Buffers -> Sectors \union {None}]
        BY <1>1, Zenon DEF TypeOK, Finds, Recycles, Makes
      <3>3. bytes' \in [Buffers -> setting.values \union {Garbage}]
        BY <1>1, <1>2, Zenon DEF TypeOK, Finds, Recycles, Makes
      <3> QED BY <3>1, <3>2, <3>3, Zenon
    <2> QED BY <1>1, <1>2, <2>1, <2>2, <2>3, Zenon DEF TypeOK, Lends, Uncaches
  <1>5. Tables'
    <2>1. \A g \in Holders : pc'[g] = "idle" <=> ref'[g] = None
      BY <1>1, <1>2, Zenon DEF TypeOK, Tables, Lends
    <2>2. lent' = {ref'[g] : g \in Holders} \ {None}
      <3>1. ref[h] = None
        BY Zenon DEF Tables
      <3>2. ref'[h] = b /\ \A g \in Holders \ {h} : ref'[g] = ref[g]
        BY <1>1, Zenon DEF TypeOK, Lends
      <3> QED BY <1>1, <1>2, <3>1, <3>2 DEF Tables, Lends
    <2>3. lent' \intersect Range(cached') = {} /\ IsInjective(cached')
      BY <1>1, Zenon DEF Tables, Lends, Uncaches
    <2>4. label'[b] = s /\ \A c \in Live \ {b} : label'[c] = label[c] /\ label[c] # s
      BY <1>1, <1>3, Zenon DEF TypeOK, Tables, Finds, Recycles, Makes
    <2>5. \A c \in Live' : label'[c] \in Sectors
      BY <1>3, <2>4, Zenon DEF Tables
    <2>6. \A c, d \in Live' : label'[c] = label'[d] => c = d
      BY <1>3, <2>4 DEF Tables
    <2> QED BY <1>2, <2>1, <2>2, <2>3, <2>5, <2>6, Zenon DEF Tables
  <1>6. Data'
    <2>1. \A c \in Buffers : dirty'[c] => c \in Live' /\ home'[c] \in Sectors
      BY <1>1, <1>3 DEF TypeOK, Data, Lends, Finds, Recycles, Makes
    <2>2. ASSUME NEW g \in Holders, Using(g)' PROVE home'[ref'[g]] = label'[ref'[g]]
      <3>1. g # h /\ pc'[g] = pc[g] /\ ref'[g] = ref[g] /\ Using(g)
        BY <1>1, <2>2, Zenon DEF TypeOK, Lends, Using
      <3>2. ref[g] \in lent /\ lent \cap Range(cached) = {} /\ home[ref[g]] = label[ref[g]]
        BY <3>1, RefFacts, Zenon DEF Using, Data, Tables
      <3>3. UNCHANGED <<label, home>> \/ b \notin lent
        BY <1>1, <3>2, RefFacts, Zenon DEF Finds, Recycles, Makes
      <3> QED BY <1>1, <3>1, <3>2, <3>3, Zenon DEF TypeOK, Finds, Recycles, Makes
    <2> QED BY <1>2, <2>1, <2>2, Zenon DEF Data
  <1> QED BY <1>4, <1>5, <1>6, Zenon

(* With one task, nobody is in a call when a call starts. *)
LEMMA NobodyBusy ==
    ASSUME TypeOK, Undisturbed, NEW h \in Holders, ~InCall(Owner[h])
    PROVE  \A g \in Holders : pc[g] \in {"idle", "use"}
  BY Zenon DEF Undisturbed, InCall

(* Obtaining a buffer keeps what the buffers hold, and takes s out of the cached sectors. *)
LEMMA ObtainFresh ==
    ASSUME TypeOK, Tables, Data, Undisturbed, OneCall, Fresh, setting' = setting,
           NEW h \in Holders, pc[h] = "idle", ~InCall(Owner[h]), NEW s \in Sectors, Obtain(h, s)
    PROVE  /\ OneCall' /\ Fresh'
           /\ \A g \in Holders : pc'[g] # "written"
           /\ \A c \in Range(cached') : /\ c \in Range(cached) /\ dirty'[c] = dirty[c]
                                        /\ label'[c] = label[c] /\ label[c] # s
  <1>1. PICK b \in Buffers : /\ Lends(h, b) /\ Uncaches(b)
                             /\ Finds(b, s) \/ Recycles(b, s) \/ Makes(b, s)
    BY ObtainIs, Zenon
  <1>2. Holders' = Holders /\ Live' = Live \union {b} /\ Live \subseteq Buffers
    BY <1>1, SettingKept, RefFacts, Zenon DEF Live, Lends, Uncaches
  <1>3. /\ pc'[h] = "init" /\ ref'[h] = b
        /\ \A g \in Holders \ {h} : pc'[g] \in {"idle", "use"} /\ ref'[g] = ref[g]
    BY <1>1, NobodyBusy, Zenon DEF TypeOK, Lends
  <1>4. \A c \in Live : home[c] = label[c]
    BY NobodyBusy, Zenon DEF OneCall
  <1>5. label'[b] = s /\ \A c \in Live \ {b} : label'[c] = label[c] /\ label[c] # s
    BY <1>1, <1>2, Zenon DEF TypeOK, Tables, Finds, Recycles, Makes
  <1>6. \A c \in Live \ {b} : home'[c] = home[c] /\ bytes'[c] = bytes[c]
    BY <1>1, <1>2, Zenon DEF TypeOK, Finds, Recycles, Makes
  <1>7. \/ b \in Live /\ home'[b] = home[b] /\ bytes'[b] = bytes[b]
        \/ b \notin Live /\ home'[b] = None
    BY <1>1, RefFacts, Zenon DEF TypeOK, Finds, Recycles, Makes
  <1>8. dirty' = dirty /\ disk' = disk /\ latest' = latest
    BY <1>1, Zenon DEF Lends
  <1>9. OneCall'
    <2>1. \A f, g \in Holders : Busy(f)' /\ Busy(g)' => f = g
      BY <1>3, Zenon DEF Busy
    <2>2. \A g \in Holders : pc'[g] # "failed"
      BY <1>3, Zenon
    <2>3. \A c \in Live' : \/ home'[c] = label'[c]
                           \/ \E g \in Holders : ref'[g] = c /\ pc'[g] \in {"init", "read"}
      BY <1>2, <1>3, <1>4, <1>5, <1>6, ZenonT(40)
    <2> QED BY <1>2, <2>1, <2>2, <2>3, Zenon DEF OneCall
  <1>10. Fresh'
    <2>1. \A c \in Live' : home'[c] # None => bytes'[c] = latest'[home'[c]]
      BY <1>2, <1>6, <1>7, <1>8 DEF Fresh
    <2>2. ASSUME NEW x \in Sectors, disk'[x] # latest'[x]
          PROVE  \E c \in Live' : home'[c] = x /\ dirty'[c]
      <3>1. PICK c \in Live : home[c] = x /\ dirty[c]
        BY <1>8, <2>2, NobodyBusy, Zenon DEF Fresh
      <3> QED BY <1>2, <1>6, <1>7, <1>8, <3>1, Zenon
    <2>3. \A g \in Holders : pc'[g] \in {"read", "commit", "committed"} => ~dirty'[ref'[g]]
      BY <1>3, Zenon
    <2> QED BY <1>2, <2>1, <2>2, <2>3, Zenon DEF Fresh
  <1>11. \A c \in Range(cached') : /\ c \in Range(cached) /\ dirty'[c] = dirty[c]
                                   /\ label'[c] = label[c] /\ label[c] # s
    BY <1>1, <1>5, <1>8, RefFacts, Zenon DEF Uncaches
  <1> QED BY <1>3, <1>9, <1>10, <1>11, Zenon

(* Dropping a ref keeps the tables. *)
LEMMA ReturnKeeps ==
    ASSUME TypeOK, Tables, Data, setting' = setting, todo' \in [Tasks -> Seq(Sectors) \union {None}],
           NEW h \in Holders, pc[h] # "idle", Returns(h)
    PROVE  TypeOK' /\ Tables' /\ Data' /\ Live' = Live
  <1>1. /\ Holders' = Holders /\ Buffers' = Buffers /\ None \notin Buffers
        /\ ref[h] \in lent /\ lent \subseteq Buffers /\ lent \subseteq Live
    BY SettingKept, SettingFacts, RefFacts, Zenon DEF TypeOK
  <1>2. Live' = Live
    BY <1>1, Zenon DEF Live, Returns
  <1>3. /\ pc'[h] = "idle" /\ ref'[h] = None
        /\ \A g \in Holders \ {h} : pc'[g] = pc[g] /\ ref'[g] = ref[g]
        /\ label' = label /\ home' = home /\ dirty' = dirty /\ bytes' = bytes
        /\ disk' = disk /\ latest' = latest
    BY Zenon DEF TypeOK, Returns, buf
  <1>4. TypeOK'
    <2>1. ref' \in [Holders -> Buffers \union {None}]
      BY Zenon DEF TypeOK, Returns
    <2>2. pc' \in [Holders -> {"idle", "init", "read", "use", "written", "commit", "committed",
                               "failed"}]
      BY Zenon DEF TypeOK, Returns
    <2>3. lent' \subseteq Buffers /\ cached' \in Seq(Buffers)
      BY Zenon DEF TypeOK, Returns
    <2> QED BY <1>1, <1>3, <2>1, <2>2, <2>3, Zenon DEF TypeOK
  <1>5. Tables'
    <2>1. \A g \in Holders : pc'[g] = "idle" <=> ref'[g] = None
      BY <1>3, Zenon DEF Tables
    <2>2. lent' = {ref'[g] : g \in Holders} \ {None}
      <3>1. CASE \E g \in Holders \ {h} : ref[g] = ref[h]
        BY <1>3, <3>1 DEF Returns, Tables
      <3>2. CASE \A g \in Holders \ {h} : ref[g] # ref[h]
        BY <1>3, <3>2 DEF Returns, Tables
      <3> QED BY <3>1, <3>2, Zenon
    <2>3. IsInjective(cached') /\ lent' \intersect Range(cached') = {}
      BY <1>1, Zenon DEF Returns, Tables
    <2> QED BY <1>1, <1>2, <1>3, <2>1, <2>2, <2>3, Zenon DEF Tables
  <1>6. Data'
    BY <1>1, <1>2, <1>3, Zenon DEF Data, Using
  <1> QED BY <1>2, <1>4, <1>5, <1>6, Zenon

(* Dropping a ref that is in use, or whose sector was committed, keeps what the buffers hold. *)
LEMMA ReturnFresh ==
    ASSUME TypeOK, Tables, Data, Undisturbed, OneCall, Fresh, setting' = setting, Live' = Live,
           NEW h \in Holders, pc[h] \in {"use", "committed"}, Returns(h)
    PROVE  /\ OneCall' /\ Fresh'
           /\ \A g \in Holders : pc[g] # "written" => pc'[g] # "written"
           /\ \A c \in Range(cached') : c \in Range(cached) \/ c = ref[h]
           /\ dirty' = dirty /\ label' = label
  <1>0. Holders' = Holders
    BY SettingKept, Zenon
  <1>1. /\ Holders' = Holders
        /\ pc'[h] = "idle" /\ ref'[h] = None
        /\ \A g \in Holders \ {h} : pc'[g] = pc[g] /\ ref'[g] = ref[g]
        /\ label' = label /\ home' = home /\ dirty' = dirty /\ bytes' = bytes
        /\ disk' = disk /\ latest' = latest
    BY <1>0, Zenon DEF TypeOK, Returns, buf
  <1>2. OneCall'
    <2>1. \A f, g \in Holders : Busy(f)' /\ Busy(g)' => f = g
      BY <1>1, ZenonT(40) DEF Busy, OneCall
    <2>2. \A g \in Holders : pc'[g] # "failed"
      BY <1>1, Zenon DEF OneCall
    <2>3. \A c \in Live : \/ home'[c] = label'[c]
                          \/ \E g \in Holders : ref'[g] = c /\ pc'[g] \in {"init", "read"}
      BY <1>1 DEF OneCall
    <2> QED BY <1>1, <2>1, <2>2, <2>3, Zenon DEF OneCall
  <1>3. Fresh'
    <2>1. ASSUME NEW x \in Sectors, disk'[x] # latest'[x]
          PROVE  \E c \in Live : home'[c] = x /\ (dirty'[c] \/ \E g \in Holders : ref'[g] = c /\ pc'[g] = "written")
      BY <1>1, <2>1 DEF Fresh
    <2>2. \A g \in Holders : pc'[g] \in {"read", "commit", "committed"} => ~dirty'[ref'[g]]
      BY <1>1, Zenon DEF Fresh
    <2> QED BY <1>1, <2>1, <2>2, Zenon DEF Fresh
  <1>4. \A c \in Range(cached') : c \in Range(cached) \/ c = ref[h]
    BY Zenon DEF Returns
  <1> QED BY <1>1, <1>2, <1>3, <1>4, Zenon

-----------------------------------------------------------------------------
(* A step of a holder with its ref: the tables stay as they are. *)
LEMMA PlacesKept ==
    ASSUME TypeOK, Tables, setting' = setting,
           label' = label, lent' = lent, cached' = cached, ref' = ref,
           NEW h \in Holders, pc[h] # "idle",
           NEW p \in {"init", "read", "use", "written", "commit", "committed", "failed"},
           pc' = [pc EXCEPT ![h] = p]
    PROVE  /\ Tables' /\ Live' = Live /\ Holders' = Holders /\ Buffers' = Buffers
           /\ ref[h] \in lent /\ ref[h] \in Live /\ ref[h] \in Buffers /\ label[ref[h]] \in Sectors
           /\ pc'[h] = p /\ \A g \in Holders \ {h} : pc'[g] = pc[g]
           /\ pc' \in [Holders -> {"idle", "init", "read", "use", "written", "commit",
                                   "committed", "failed"}]
  <1>1. Holders' = Holders /\ Buffers' = Buffers
    BY SettingKept, Zenon
  <1>2. Live' = Live
    BY Zenon DEF Live
  <1>3. ref[h] \in lent /\ ref[h] \in Live /\ ref[h] \in Buffers /\ label[ref[h]] \in Sectors
    BY RefFacts, Zenon DEF Tables
  <1>4. /\ pc'[h] = p /\ \A g \in Holders \ {h} : pc'[g] = pc[g]
        /\ pc' \in [Holders -> {"idle", "init", "read", "use", "written", "commit",
                                "committed", "failed"}]
    BY Zenon DEF TypeOK
  <1>5. Tables'
    <2>1. \A g \in Holders : pc'[g] = "idle" <=> ref[g] = None
      BY <1>4, Zenon DEF Tables
    <2> QED BY <1>1, <1>2, <2>1, Zenon DEF Tables
  <1> QED BY <1>1, <1>2, <1>3, <1>4, <1>5, Zenon

(* Writing a buffer back, in initialize() or commit(): the holder is at ok or has failed. *)
LEMMA WriteBackKeeps ==
    ASSUME TypeOK, Tables, Data, setting' = setting,
           UNCHANGED <<label, home, bytes, lent, cached, ref, todo, latest>>,
           NEW h \in Holders, pc[h] # "idle", NEW ok \in {"read", "use", "commit", "committed"},
           ok # "read" => home[ref[h]] = label[ref[h]],
           WriteBack(h, ok)
    PROVE  TypeOK' /\ Tables' /\ Data'
  <1> DEFINE b == ref[h]
  <1>1. PICK p \in {ok, "failed"} : pc' = [pc EXCEPT ![h] = p]
    BY Zenon DEF WriteBack, WriteBackTo
  <1>2. /\ Tables' /\ Live' = Live /\ Holders' = Holders /\ Buffers' = Buffers /\ b \in Buffers
        /\ pc'[h] = p /\ \A g \in Holders \ {h} : pc'[g] = pc[g]
        /\ pc' \in [Holders -> {"idle", "init", "read", "use", "written", "commit",
                                "committed", "failed"}]
    <2>1. p \in {"init", "read", "use", "written", "commit", "committed", "failed"}
      BY Zenon
    <2>2. label' = label /\ lent' = lent /\ cached' = cached /\ ref' = ref
      BY Zenon
    <2>3. pc[h] # "idle" /\ setting' = setting
      BY Zenon
    <2> QED BY <1>1, <2>1, <2>2, <2>3, PlacesKept, Zenon
  <1>3. \/ dirty' = dirty /\ disk' = disk
        \/ dirty[b] /\ dirty' = [dirty EXCEPT ![b] = FALSE] /\ disk' = [disk EXCEPT ![home[b]] = bytes[b]]
    BY Zenon DEF WriteBack, WriteBackTo
  <1>4. TypeOK'
    <2>1. dirty' \in [Buffers -> BOOLEAN]
      BY <1>2, <1>3, Zenon DEF TypeOK
    <2>2. disk' \in [Sectors -> setting.values \union {Garbage}]
      BY <1>2, <1>3 DEF TypeOK
    <2> QED BY <1>2, <2>1, <2>2, Zenon DEF TypeOK
  <1>5. Data'
    <2>1. \A c \in Buffers : dirty'[c] => c \in Live' /\ home'[c] \in Sectors
      BY <1>2, <1>3, Zenon DEF TypeOK, Data
    <2>2. ASSUME NEW g \in Holders, Using(g)' PROVE home'[ref'[g]] = label'[ref'[g]]
      BY <1>1, <1>2, <2>2, Zenon DEF Data, Using
    <2> QED BY <1>2, <2>1, <2>2, Zenon DEF Data
  <1> QED BY <1>2, <1>4, <1>5, Zenon

LEMMA WriteBackFresh ==
    ASSUME TypeOK, Tables, Data, Undisturbed, OneCall, Fresh, setting' = setting,
           UNCHANGED <<label, home, bytes, lent, cached, ref, todo, latest>>,
           NEW h \in Holders, pc[h] \in {"init", "commit"},
           NEW ok \in {"read", "use", "commit", "committed"},
           ok # "read" => home[ref[h]] = label[ref[h]],
           WriteBack(h, ok)
    PROVE  /\ OneCall' /\ Fresh'
           /\ \A g \in Holders : pc'[g] # "written"
           /\ \A c \in Buffers : dirty'[c] => dirty[c]
  <1> DEFINE b == ref[h]
  <1>1. pc' = [pc EXCEPT ![h] = ok]
    BY Zenon DEF WriteBack, WriteBackTo, Undisturbed
  <1>2. /\ Live' = Live /\ Live \subseteq Buffers /\ Holders' = Holders /\ b \in Live /\ b \in Buffers
        /\ pc'[h] = ok /\ \A g \in Holders \ {h} : pc'[g] = pc[g]
    <2>1. ok \in {"init", "read", "use", "written", "commit", "committed", "failed"}
      BY Zenon
    <2>2. label' = label /\ lent' = lent /\ cached' = cached /\ ref' = ref
      BY Zenon
    <2>3. pc[h] # "idle" /\ Live \subseteq Buffers
      BY RefFacts, Zenon
    <2> QED BY <1>1, <2>1, <2>2, <2>3, PlacesKept, Zenon
  <1>3. \A g \in Holders \ {h} : pc'[g] \in {"idle", "use"} /\ pc[g] \in {"idle", "use"}
    BY <1>2, Zenon DEF OneCall, Busy
  <1>4. \/ ~dirty[b] /\ dirty' = dirty /\ disk' = disk
        \/ dirty[b] /\ dirty' = [dirty EXCEPT ![b] = FALSE] /\ disk' = [disk EXCEPT ![home[b]] = bytes[b]]
    BY Zenon DEF WriteBack, WriteBackTo, Undisturbed
  <1>5. ~dirty'[b] /\ \A c \in Buffers \ {b} : dirty'[c] = dirty[c]
    BY <1>2, <1>4, Zenon DEF TypeOK
  <1>6. OneCall'
    <2>1. \A f, g \in Holders : Busy(f)' /\ Busy(g)' => f = g
      BY <1>2, <1>3, Zenon DEF Busy
    <2>2. \A g \in Holders : pc'[g] # "failed"
      BY <1>2, <1>3, Zenon
    <2>3. \A c \in Live : \/ home[c] = label[c]
                          \/ \E g \in Holders : ref[g] = c /\ pc'[g] \in {"init", "read"}
      BY <1>2, <1>3 DEF OneCall
    <2> QED BY <1>2, <2>1, <2>2, <2>3, Zenon DEF OneCall
  <1>7. Fresh'
    <2>1. ASSUME NEW x \in Sectors, disk'[x] # latest[x]
          PROVE  \E c \in Live : home[c] = x /\ dirty'[c]
      <3>1. x # home[b] \/ ~dirty[b]
        <4>1. CASE dirty[b] /\ x = home[b]
          <5>1. disk'[x] = bytes[b]
            BY <1>4, <2>1, <4>1, Zenon DEF TypeOK
          <5>2. x # None
            BY SettingFacts, Zenon DEF TypeOK
          <5>3. bytes[b] = latest[x]
            BY <1>2, <4>1, <5>2, Zenon DEF Fresh
          <5> QED BY <2>1, <5>1, <5>3, Zenon
        <4> QED BY <4>1, Zenon
      <3>2. disk[x] # latest[x]
        BY <1>4, <2>1, <3>1, Zenon DEF TypeOK
      <3>3. PICK c \in Live : home[c] = x /\ dirty[c]
        BY <1>3, <3>2, Zenon DEF Fresh
      <3> QED BY <1>2, <1>5, <3>1, <3>3, Zenon
    <2>2. \A g \in Holders : pc'[g] \in {"read", "commit", "committed"} => ~dirty'[ref[g]]
      BY <1>2, <1>3, <1>5, Zenon
    <2> QED BY <1>2, <2>1, <2>2, Zenon DEF Fresh
  <1> QED BY <1>2, <1>3, <1>5, <1>6, <1>7, Zenon

LEMMA InitializeKeeps ==
    ASSUME TypeOK, Tables, Data, setting' = setting, NEW h \in Holders, Initialize(h)
    PROVE  /\ TypeOK' /\ Tables' /\ Data'
           /\ Undisturbed /\ OneCall /\ Fresh =>
                 /\ OneCall' /\ Fresh'
                 /\ \A g \in Holders : pc'[g] # "written"
                 /\ \A c \in Buffers : dirty'[c] => dirty[c]
  <1> DEFINE ok == IF home[ref[h]] = label[ref[h]] THEN Ready(h) ELSE "read"
  <1>1. ok \in {"read", "use", "commit", "committed"} /\ (ok # "read" => home[ref[h]] = label[ref[h]])
    BY Zenon DEF Ready
  <1>2. /\ pc[h] = "init" /\ WriteBack(h, ok)
        /\ UNCHANGED <<label, home, bytes, lent, cached, ref, todo, latest>>
    BY Zenon DEF Initialize
  <1> HIDE DEF ok
  <1>3. TypeOK' /\ Tables' /\ Data'
    BY <1>1, <1>2, WriteBackKeeps, Zenon
  <1> QED BY <1>1, <1>2, <1>3, WriteBackFresh, Zenon

LEMMA CommitSectorKeeps ==
    ASSUME TypeOK, Tables, Data, setting' = setting, NEW h \in Holders, CommitSector(h)
    PROVE  /\ TypeOK' /\ Tables' /\ Data'
           /\ Undisturbed /\ OneCall /\ Fresh =>
                 /\ OneCall' /\ Fresh'
                 /\ \A g \in Holders : pc'[g] # "written"
                 /\ \A c \in Buffers : dirty'[c] => dirty[c]
  <1>1. /\ pc[h] = "commit" /\ WriteBack(h, "committed")
        /\ UNCHANGED <<label, home, bytes, lent, cached, ref, todo, latest>>
    BY Zenon DEF CommitSector
  <1>2. home[ref[h]] = label[ref[h]]
    BY <1>1, Zenon DEF Data, Using
  <1>3. TypeOK' /\ Tables' /\ Data'
    BY <1>1, <1>2, WriteBackKeeps, Zenon
  <1> QED BY <1>1, <1>2, <1>3, WriteBackFresh, Zenon

(* Reading a sector in, or failing to. *)
LEMMA ReadInKeeps ==
    ASSUME TypeOK, Tables, Data, setting' = setting, NEW h \in Holders, ReadIn(h)
    PROVE  TypeOK' /\ Tables' /\ Data'
  <1> DEFINE b == ref[h]
  <1>1. /\ pc[h] = "read"
        /\ label' = label /\ lent' = lent /\ cached' = cached /\ ref' = ref
        /\ disk' = disk /\ dirty' = dirty /\ todo' = todo /\ latest' = latest
    BY Zenon DEF ReadIn
  <1>2. PICK p \in {"use", "commit", "failed"} : pc' = [pc EXCEPT ![h] = p]
    BY Zenon DEF ReadIn, Ready
  <1>3. p \in {"init", "read", "use", "written", "commit", "committed", "failed"}
        /\ pc[h] # "idle" /\ setting' = setting
    BY <1>1, Zenon
  <1>4. /\ Tables' /\ Live' = Live /\ Holders' = Holders /\ Buffers' = Buffers
        /\ b \in Buffers /\ label[b] \in Sectors
        /\ pc'[h] = p /\ \A g \in Holders \ {h} : pc'[g] = pc[g]
        /\ pc' \in [Holders -> {"idle", "init", "read", "use", "written", "commit",
                                "committed", "failed"}]
    BY <1>1, <1>2, <1>3, PlacesKept, Zenon
  <1>5. \/ p # "failed" /\ home' = [home EXCEPT ![b] = label[b]]
        \/ p = "failed" /\ home' = home
    BY <1>1, <1>2, <1>4, Zenon DEF ReadIn, Ready
  <1>6. TypeOK'
    <2>1. bytes' \in [Buffers -> setting.values \union {Garbage}]
      <3>1. disk[label[b]] \in setting.values \union {Garbage} /\ bytes[b] \in setting.values \union {Garbage}
        BY <1>4, Zenon DEF TypeOK
      <3>2. PICK v \in setting.values \union {Garbage} : bytes' = [bytes EXCEPT ![b] = v]
        BY <3>1, Zenon DEF ReadIn
      <3> QED BY <3>2, Zenon DEF TypeOK
    <2>2. home' \in [Buffers -> Sectors \union {None}]
      BY <1>4, <1>5, Zenon DEF TypeOK
    <2> QED BY <1>1, <1>4, <2>1, <2>2, Zenon DEF TypeOK
  <1>7. Data'
    <2>1. \A c \in Buffers : dirty'[c] => c \in Live' /\ home'[c] \in Sectors
      BY <1>1, <1>4, <1>5, Zenon DEF TypeOK, Data
    <2>2. ASSUME NEW g \in Holders, Using(g)' PROVE home'[ref'[g]] = label'[ref'[g]]
      <3>1. ref[g] \in Buffers
        BY <1>1, <1>4, <2>2, RefFacts, Zenon DEF Using
      <3>2. CASE g = h
        BY <1>1, <1>4, <1>5, <2>2, <3>2, Zenon DEF TypeOK, Using
      <3>3. CASE g # h
        BY <1>1, <1>4, <1>5, <2>2, <3>1, <3>3, Zenon DEF TypeOK, Using, Data
      <3> QED BY <3>2, <3>3, Zenon
    <2> QED BY <1>4, <2>1, <2>2, Zenon DEF Data
  <1> QED BY <1>4, <1>6, <1>7, Zenon

LEMMA ReadInFresh ==
    ASSUME TypeOK, Tables, Data, Undisturbed, OneCall, Fresh, setting' = setting,
           NEW h \in Holders, ReadIn(h)
    PROVE  /\ OneCall' /\ Fresh'
           /\ \A g \in Holders : pc'[g] # "written"
  <1> DEFINE b == ref[h]
  <1>1. /\ pc[h] = "read"
        /\ label' = label /\ lent' = lent /\ cached' = cached /\ ref' = ref
        /\ disk' = disk /\ dirty' = dirty /\ todo' = todo /\ latest' = latest
    BY Zenon DEF ReadIn
  <1>2. PICK p \in {"use", "commit"} : pc' = [pc EXCEPT ![h] = p]
    BY Zenon DEF ReadIn, Ready, Undisturbed
  <1>3. p \in {"init", "read", "use", "written", "commit", "committed", "failed"}
        /\ pc[h] # "idle" /\ setting' = setting
    BY <1>1, Zenon
  <1>4. /\ Live' = Live /\ Holders' = Holders /\ b \in Live /\ b \in Buffers /\ label[b] \in Sectors
        /\ pc'[h] = p /\ \A g \in Holders \ {h} : pc'[g] = pc[g]
    BY <1>1, <1>2, <1>3, PlacesKept, Zenon
  <1>5. \A g \in Holders \ {h} : pc'[g] \in {"idle", "use"} /\ pc[g] \in {"idle", "use"}
    BY <1>1, <1>4, Zenon DEF OneCall, Busy
  <1>6. home' = [home EXCEPT ![b] = label[b]] /\ bytes' = [bytes EXCEPT ![b] = disk[label[b]]]
    BY Zenon DEF ReadIn, Undisturbed
  <1>7. /\ home'[b] = label[b] /\ bytes'[b] = disk[label[b]] /\ Live \subseteq Buffers
        /\ \A c \in Live \ {b} : home'[c] = home[c] /\ bytes'[c] = bytes[c]
    BY <1>4, <1>6, RefFacts, Zenon DEF TypeOK
  <1>8. \A c \in Live \ {b} : home[c] = label[c] /\ label[c] # label[b]
    BY <1>1, <1>4, <1>5 DEF OneCall, Tables
  <1>9. ~dirty[b]
    BY <1>1, Zenon DEF Fresh
  <1>10. disk[label[b]] = latest[label[b]]
    <2>1. \A c \in Live : home[c] = label[b] => c = b
      BY <1>8, Zenon
    <2> QED BY <1>1, <1>4, <1>5, <1>9, <2>1, ZenonT(40) DEF Fresh
  <1>11. OneCall'
    <2>1. \A f, g \in Holders : Busy(f)' /\ Busy(g)' => f = g
      BY <1>5, Zenon DEF Busy
    <2>2. \A g \in Holders : pc'[g] # "failed"
      BY <1>4, <1>5, Zenon
    <2>3. \A c \in Live : home'[c] = label[c]
      BY <1>7, <1>8, Zenon
    <2> QED BY <1>1, <1>4, <2>1, <2>2, <2>3, Zenon DEF OneCall
  <1>12. Fresh'
    <2>1. \A c \in Live : home'[c] # None => bytes'[c] = latest[home'[c]]
      BY <1>7, <1>10, Zenon DEF Fresh
    <2>2. ASSUME NEW x \in Sectors, disk[x] # latest[x]
          PROVE  \E c \in Live : home'[c] = x /\ dirty[c]
      <3>1. PICK c \in Live : home[c] = x /\ dirty[c]
        BY <1>1, <1>5, <2>2, Zenon DEF Fresh
      <3> QED BY <1>7, <1>9, <3>1, Zenon
    <2>3. \A g \in Holders : pc'[g] \in {"read", "commit", "committed"} => ~dirty[ref[g]]
      BY <1>4, <1>5, <1>9, Zenon
    <2> QED BY <1>1, <1>4, <2>1, <2>2, <2>3, Zenon DEF Fresh
  <1> QED BY <1>4, <1>5, <1>11, <1>12, Zenon

(* Storing bytes, which is followed by marking the buffer as dirty. *)
LEMMA WriteBytesKeeps ==
    ASSUME TypeOK, Tables, Data, setting' = setting, NEW h \in Holders, NEW v \in setting.values,
           WriteBytes(h, v)
    PROVE  /\ TypeOK' /\ Tables' /\ Data'
           /\ Undisturbed /\ OneCall /\ Fresh => OneCall' /\ Fresh'
  <1> DEFINE b == ref[h]
  <1>1. /\ pc[h] = "use" /\ ~InCall(Owner[h]) /\ pc' = [pc EXCEPT ![h] = "written"]
        /\ bytes' = [bytes EXCEPT ![b] = v] /\ latest' = [latest EXCEPT ![label[b]] = v]
        /\ label' = label /\ lent' = lent /\ cached' = cached /\ ref' = ref
        /\ home' = home /\ disk' = disk /\ dirty' = dirty /\ todo' = todo
    BY Zenon DEF WriteBytes
  <1>2. "written" \in {"init", "read", "use", "written", "commit", "committed", "failed"}
        /\ pc[h] # "idle" /\ setting' = setting
    BY <1>1, Zenon
  <1>3. /\ Tables' /\ Live' = Live /\ Holders' = Holders /\ Buffers' = Buffers
        /\ b \in Live /\ b \in Buffers /\ label[b] \in Sectors
        /\ pc'[h] = "written" /\ \A g \in Holders \ {h} : pc'[g] = pc[g]
        /\ pc' \in [Holders -> {"idle", "init", "read", "use", "written", "commit",
                                "committed", "failed"}]
    BY <1>1, <1>2, PlacesKept, Zenon
  <1>4. TypeOK'
    <2>1. bytes' \in [Buffers -> setting.values \union {Garbage}]
      BY <1>1, Zenon DEF TypeOK
    <2>2. latest' \in [Sectors -> setting.values \union {Garbage}]
      BY <1>1, Zenon DEF TypeOK
    <2> QED BY <1>1, <1>3, <2>1, <2>2, Zenon DEF TypeOK
  <1>5. home[b] = label[b]
    BY <1>1, Zenon DEF Data, Using
  <1>6. Data'
    <2>1. \A g \in Holders : Using(g)' => home[ref[g]] = label[ref[g]]
      BY <1>3, <1>5, Zenon DEF Data, Using
    <2> QED BY <1>1, <1>3, <2>1, Zenon DEF Data
  <1>7. ASSUME Undisturbed, OneCall, Fresh PROVE OneCall' /\ Fresh'
    <2>1. \A g \in Holders \ {h} : pc'[g] \in {"idle", "use"} /\ pc[g] \in {"idle", "use"}
      BY <1>1, <1>3, <1>7, NobodyBusy, Zenon
    <2>2. \A c \in Live : home[c] = label[c]
      BY <1>1, <1>7, <2>1, Zenon DEF OneCall
    <2>3. OneCall'
      <3>1. \A f, g \in Holders : Busy(f)' /\ Busy(g)' => f = g
        BY <2>1, Zenon DEF Busy
      <3>2. \A g \in Holders : pc'[g] # "failed"
        BY <1>3, <2>1, Zenon
      <3> QED BY <1>1, <1>3, <2>2, <3>1, <3>2, Zenon DEF OneCall
    <2>4. Fresh'
      <3>1. /\ bytes'[b] = v /\ latest'[label[b]] = v
            /\ \A c \in Live \ {b} : bytes'[c] = bytes[c]
            /\ \A x \in Sectors \ {label[b]} : latest'[x] = latest[x]
        BY <1>1, <1>3, RefFacts DEF TypeOK
      <3>2. \A c \in Live : home[c] # None => bytes'[c] = latest'[home[c]]
        <4>1. \A c \in Live \ {b} : home[c] \in Sectors \ {label[b]}
          BY <1>3, <2>2 DEF Tables
        <4> QED BY <1>5, <1>7, <3>1, <4>1, Zenon DEF Fresh
      <3>3. ASSUME NEW x \in Sectors, disk[x] # latest'[x]
            PROVE  \E c \in Live : home[c] = x /\ (dirty[c] \/ \E g \in Holders : ref[g] = c /\ pc'[g] = "written")
        <4>1. CASE x = label[b]
          BY <1>3, <1>5, <4>1, Zenon
        <4>2. CASE x # label[b]
          BY <1>1, <1>7, <2>1, <3>1, <3>3, <4>2, Zenon DEF Fresh
        <4> QED BY <4>1, <4>2, Zenon
      <3>4. \A g \in Holders : pc'[g] \in {"read", "commit", "committed"} => ~dirty[ref[g]]
        BY <1>3, <2>1, Zenon
      <3> QED BY <1>1, <1>3, <3>2, <3>3, <3>4, SMTT(20) DEF Fresh
    <2> QED BY <2>3, <2>4, Zenon
  <1> QED BY <1>3, <1>4, <1>6, <1>7, Zenon

LEMMA MarkAsDirtyKeeps ==
    ASSUME TypeOK, Tables, Data, setting' = setting, NEW h \in Holders, MarkAsDirty(h)
    PROVE  /\ TypeOK' /\ Tables' /\ Data'
           /\ Undisturbed /\ OneCall /\ Fresh => OneCall' /\ Fresh'
  <1> DEFINE b == ref[h]
  <1>1. /\ pc[h] = "written" /\ pc' = [pc EXCEPT ![h] = "use"]
        /\ dirty' = [dirty EXCEPT ![b] = TRUE]
        /\ label' = label /\ lent' = lent /\ cached' = cached /\ ref' = ref
        /\ home' = home /\ disk' = disk /\ bytes' = bytes /\ todo' = todo /\ latest' = latest
    BY Zenon DEF MarkAsDirty
  <1>2. "use" \in {"init", "read", "use", "written", "commit", "committed", "failed"}
        /\ pc[h] # "idle" /\ setting' = setting
    BY <1>1, Zenon
  <1>3. /\ Tables' /\ Live' = Live /\ Holders' = Holders /\ Buffers' = Buffers
        /\ b \in Live /\ b \in Buffers /\ label[b] \in Sectors
        /\ pc'[h] = "use" /\ \A g \in Holders \ {h} : pc'[g] = pc[g]
        /\ pc' \in [Holders -> {"idle", "init", "read", "use", "written", "commit",
                                "committed", "failed"}]
    BY <1>1, <1>2, PlacesKept, Zenon
  <1>4. dirty' \in [Buffers -> BOOLEAN]
    BY <1>1, Zenon DEF TypeOK
  <1>5. TypeOK'
    BY <1>1, <1>3, <1>4, Zenon DEF TypeOK
  <1>6. dirty'[b] /\ \A c \in Buffers \ {b} : dirty'[c] = dirty[c]
    BY <1>1, <1>3, Zenon DEF TypeOK
  <1>7. home[b] = label[b]
    BY <1>1, Zenon DEF Data, Using
  <1>8. Data'
    <2>1. \A g \in Holders : Using(g)' => home[ref[g]] = label[ref[g]]
      BY <1>3, <1>7, Zenon DEF Data, Using
    <2>2. \A c \in Buffers : dirty'[c] => c \in Live /\ home[c] \in Sectors
      BY <1>3, <1>6, <1>7, Zenon DEF Data
    <2> QED BY <1>1, <1>3, <2>1, <2>2, Zenon DEF Data
  <1>9. ASSUME Undisturbed, OneCall, Fresh PROVE OneCall' /\ Fresh'
    <2>1. \A g \in Holders \ {h} : pc'[g] \in {"idle", "use"} /\ pc[g] \in {"idle", "use"}
      BY <1>1, <1>3, <1>9, Zenon DEF OneCall, Busy
    <2>2. OneCall'
      <3>1. \A f, g \in Holders : Busy(f)' /\ Busy(g)' => f = g
        BY <1>3, <2>1, Zenon DEF Busy
      <3>2. \A g \in Holders : pc'[g] # "failed"
        BY <1>3, <2>1, Zenon
      <3>3. \A c \in Live : home[c] = label[c]
        BY <1>1, <1>9, <2>1, Zenon DEF OneCall
      <3> QED BY <1>1, <1>3, <3>1, <3>2, <3>3, Zenon DEF OneCall
    <2>3. Fresh'
      <3>1. ASSUME NEW x \in Sectors, disk[x] # latest[x]
            PROVE  \E c \in Live : home[c] = x /\ dirty'[c]
        <4>1. PICK c \in Live : home[c] = x /\ (dirty[c] \/ \E g \in Holders : ref[g] = c /\ pc[g] = "written")
          BY <1>9, <3>1, Zenon DEF Fresh
        <4>2. dirty[c] \/ c = b
          BY <2>1, <4>1, Zenon
        <4> QED BY <1>6, <4>1, <4>2, RefFacts, Zenon
      <3>2. \A g \in Holders : pc'[g] \in {"read", "commit", "committed"} => ~dirty'[ref[g]]
        BY <1>3, <2>1, Zenon
      <3>3. \A c \in Live : home[c] # None => bytes[c] = latest[home[c]]
        BY <1>9, Zenon DEF Fresh
      <3> QED BY <1>1, <1>3, <3>1, <3>2, <3>3, Zenon DEF Fresh
    <2> QED BY <2>2, <2>3, Zenon
  <1> QED BY <1>3, <1>5, <1>8, <1>9, Zenon

(* A second ref to a buffer that the task uses. *)
LEMMA CloneKeeps ==
    ASSUME TypeOK, Tables, Data, setting' = setting, NEW h \in Holders, NEW g \in Holders, Clone(h, g)
    PROVE  /\ TypeOK' /\ Tables' /\ Data'
           /\ Undisturbed /\ OneCall /\ Fresh => OneCall' /\ Fresh'
  <1>1. /\ pc[h] = "use" /\ pc[g] = "idle" /\ ~InCall(Owner[h])
        /\ ref' = [ref EXCEPT ![g] = ref[h]] /\ pc' = [pc EXCEPT ![g] = "use"]
        /\ label' = label /\ home' = home /\ dirty' = dirty /\ bytes' = bytes
        /\ lent' = lent /\ cached' = cached
        /\ disk' = disk /\ todo' = todo /\ latest' = latest
    BY Zenon DEF Clone, buf
  <1>2. Holders' = Holders /\ Buffers' = Buffers /\ None \notin Buffers
    BY SettingKept, SettingFacts, Zenon DEF TypeOK
  <1>3. Live' = Live
    BY <1>1, Zenon DEF Live
  <1>4. /\ ref'[g] = ref[h] /\ pc'[g] = "use" /\ ref[h] \in lent /\ ref[h] \in Buffers
        /\ \A f \in Holders \ {g} : ref'[f] = ref[f] /\ pc'[f] = pc[f]
    BY <1>1, RefFacts, Zenon DEF TypeOK
  <1>5. TypeOK'
    <2>1. ref' \in [Holders -> Buffers \union {None}]
      BY <1>1, <1>4, Zenon DEF TypeOK
    <2>2. pc' \in [Holders -> {"idle", "init", "read", "use", "written", "commit", "committed",
                               "failed"}]
      BY <1>1, Zenon DEF TypeOK
    <2> QED BY <1>1, <1>2, <2>1, <2>2, Zenon DEF TypeOK
  <1>6. Tables'
    <2>1. \A f \in Holders : pc'[f] = "idle" <=> ref'[f] = None
      BY <1>2, <1>4, Zenon DEF Tables
    <2>2. lent = {ref'[f] : f \in Holders} \ {None}
      <3>1. ref[g] = None /\ g # h
        BY <1>1, Zenon DEF Tables
      <3>2. ASSUME NEW b \in lent PROVE b \in {ref'[f] : f \in Holders} \ {None}
        BY <1>4, <3>1, SMTT(20) DEF Tables
      <3>3. ASSUME NEW b \in {ref'[f] : f \in Holders} \ {None} PROVE b \in lent
        BY <1>4 DEF Tables
      <3> QED BY <3>2, <3>3, Zenon
    <2> QED BY <1>1, <1>2, <1>3, <2>1, <2>2, Zenon DEF Tables
  <1>7. Data'
    <2>1. \A f \in Holders : Using(f)' => home[ref'[f]] = label[ref'[f]]
      BY <1>1, <1>4 DEF Data, Using
    <2> QED BY <1>1, <1>2, <1>3, <2>1, Zenon DEF Data
  <1>8. ASSUME Undisturbed, OneCall, Fresh PROVE OneCall' /\ Fresh'
    <2>1. \A f \in Holders : pc'[f] \in {"idle", "use"} /\ pc[f] \in {"idle", "use"}
      BY <1>1, <1>4, <1>8, NobodyBusy, Zenon
    <2>2. OneCall'
      BY <1>1, <1>2, <1>3, <1>8, <2>1, Zenon DEF OneCall, Busy
    <2>3. Fresh'
      BY <1>1, <1>2, <1>3, <1>8, <2>1, Zenon DEF Fresh
    <2> QED BY <2>2, <2>3, Zenon
  <1> QED BY <1>5, <1>6, <1>7, <1>8, Zenon

(* commit() is called by, and runs for, the only task. *)
LEMMA NoCommit ==
    ASSUME Undisturbed, Committing, NEW h \in Holders, todo[Owner[h]] = None
    PROVE  \A t \in Tasks : todo[t] = None
  BY Zenon DEF Undisturbed, Committing

(* Steps that dirty no cached buffer keep a running commit() on its way. *)
LEMMA CommitGoesOn ==
    ASSUME Undisturbed, Committing, setting' = setting, todo' = todo,
           \A g \in Holders : pc'[g] # "written",
           \A c \in Range(cached') : dirty'[c] => c \in Range(cached) /\ dirty[c] /\ label'[c] = label[c]
    PROVE  Committing'
  <1>1. Holders' = Holders /\ Owner' = Owner
    BY SettingKept, Zenon
  <1> QED BY <1>1, Zenon DEF Committing

(* When nobody runs commit(), there is nothing to keep. *)
LEMMA NothingToCommit ==
    ASSUME todo' = todo, \A t \in Tasks : todo[t] = None
    PROVE  Committing'
  BY Zenon DEF Committing

(* commit() starts with a list of every cached sector. *)
LEMMA StartCommitKeeps ==
    ASSUME IndInv, setting' = setting, NEW t \in Tasks, StartCommit(t)
    PROVE  IndInv'
  <1> DEFINE list == [i \in 1 .. Len(cached) |-> label[cached[i]]]
  <1>1. /\ todo[t] = None /\ ~InCall(t) /\ \E h \in Holders : Owner[h] = t
        /\ todo' = [todo EXCEPT ![t] = list]
        /\ label' = label /\ home' = home /\ dirty' = dirty /\ bytes' = bytes
        /\ lent' = lent /\ cached' = cached /\ ref' = ref /\ pc' = pc
        /\ disk' = disk /\ latest' = latest
    BY Zenon DEF StartCommit, CommitList, buf
  <1>2. /\ Holders' = Holders /\ Buffers' = Buffers /\ Owner' = Owner
        /\ Undisturbed' = Undisturbed
    BY SettingKept, Zenon
  <1>3. Live' = Live
    BY <1>1, Zenon DEF Live
  <1>4. /\ Len(cached) \in Nat
        /\ \A x : x \in Range(cached) <=> \E i \in 1 .. Len(cached) : cached[i] = x
    BY ElemsOf, Zenon DEF IndInv, TypeOK
  <1>5. list \in Seq(Sectors)
    <2>1. \A i \in 1 .. Len(cached) : label[cached[i]] \in Sectors
      BY <1>4, Zenon DEF IndInv, Tables, Live
    <2> QED BY <1>4, <2>1
  <1>6. TypeOK'
    <2>1. todo' \in [Tasks -> Seq(Sectors) \union {None}]
      <3> HIDE DEF list
      <3> QED BY <1>1, <1>5, Zenon DEF IndInv, TypeOK
    <2> QED BY <1>1, <1>2, <2>1, Zenon DEF IndInv, TypeOK
  <1>7. Tables' /\ Data'
    BY <1>1, <1>2, <1>3, SMTT(20) DEF IndInv, Tables, Data, Using
  <1>8. ASSUME Undisturbed PROVE OneCall' /\ Fresh' /\ Committing'
    <2>1. OneCall' /\ Fresh'
      BY <1>1, <1>2, <1>3, <1>8, SMTT(20) DEF IndInv, OneCall, Busy, Fresh
    <2>2. \A h \in Holders : pc[h] # "written"
      BY <1>1, <1>8, Zenon DEF InCall, Undisturbed
    <2>3. \A b \in Range(cached) : label[b] \in Range(list)
      <3>1. DOMAIN list = 1 .. Len(cached) /\ \A i \in 1 .. Len(cached) : list[i] = label[cached[i]]
        BY Zenon
      <3> HIDE DEF list
      <3> QED BY <1>4, <3>1 DEF Range
    <2>4. \A u \in Tasks : todo'[u] # None => u = t
      <3>1. \A u \in Tasks : todo[u] = None
        BY <1>1, <1>8, NoCommit, Zenon DEF IndInv
      <3> QED BY <1>1, <3>1, Zenon DEF IndInv, TypeOK
    <2>5. todo'[t] = list
      BY <1>1, Zenon DEF IndInv, TypeOK
    <2> HIDE DEF list
    <2>6. Committing'
      BY <1>1, <1>2, <2>2, <2>3, <2>4, <2>5, Zenon DEF Committing
    <2> QED BY <2>1, <2>6, Zenon
  <1> QED BY <1>2, <1>6, <1>7, <1>8, Zenon DEF IndInv

LEMMA EndCommitKeeps ==
    ASSUME IndInv, setting' = setting, NEW t \in Tasks, EndCommit(t)
    PROVE  IndInv'
  <1>1. /\ todo' = [todo EXCEPT ![t] = None]
        /\ label' = label /\ home' = home /\ dirty' = dirty /\ bytes' = bytes
        /\ lent' = lent /\ cached' = cached /\ ref' = ref /\ pc' = pc
        /\ disk' = disk /\ latest' = latest
    BY Zenon DEF EndCommit, buf
  <1>2. /\ Holders' = Holders /\ Buffers' = Buffers /\ Owner' = Owner
        /\ Undisturbed' = Undisturbed
    BY SettingKept, Zenon
  <1>3. Live' = Live
    BY <1>1, Zenon DEF Live
  <1>4. TypeOK'
    <2>1. todo' \in [Tasks -> Seq(Sectors) \union {None}]
      BY <1>1, Zenon DEF IndInv, TypeOK
    <2> QED BY <1>1, <1>2, <2>1, Zenon DEF IndInv, TypeOK
  <1>5. Tables' /\ Data'
    BY <1>1, <1>2, <1>3, SMTT(20) DEF IndInv, Tables, Data, Using
  <1>6. ASSUME Undisturbed PROVE OneCall' /\ Fresh' /\ Committing'
    <2>1. OneCall' /\ Fresh'
      BY <1>1, <1>2, <1>3, <1>6, SMTT(20) DEF IndInv, OneCall, Busy, Fresh
    <2>2. \A u \in Tasks : todo'[u] # None => todo'[u] = todo[u]
      BY <1>1, Zenon DEF IndInv, TypeOK
    <2>3. Committing'
      BY <1>1, <1>2, <1>6, <2>2, Zenon DEF IndInv, Committing
    <2> QED BY <2>1, <2>3, Zenon
  <1> QED BY <1>2, <1>4, <1>5, <1>6, Zenon DEF IndInv

-----------------------------------------------------------------------------
(* The steps that take a buffer or give one back. *)
LEMMA RequestKeeps ==
    ASSUME IndInv, setting' = setting, NEW h \in Holders, NEW s \in Sectors, Request(h, s)
    PROVE  IndInv'
  <1>1. /\ pc[h] = "idle" /\ ~InCall(Owner[h]) /\ todo[Owner[h]] = None
        /\ Obtain(h, s) /\ todo' = todo
    BY Zenon DEF Request
  <1>2. TypeOK' /\ Tables' /\ Data'
    <2>1. todo' \in [Tasks -> Seq(Sectors) \union {None}]
      BY <1>1, Zenon DEF IndInv, TypeOK
    <2> QED BY <1>1, <2>1, ObtainKeeps, Zenon DEF IndInv
  <1>3. ASSUME Undisturbed PROVE OneCall' /\ Fresh' /\ Committing'
    <2>1. OneCall' /\ Fresh'
      BY <1>1, <1>3, ObtainFresh, Zenon DEF IndInv
    <2>2. Committing'
      BY <1>1, <1>3, NoCommit, NothingToCommit, Zenon DEF IndInv
    <2> QED BY <2>1, <2>2, Zenon
  <1> QED BY <1>2, <1>3, SettingKept DEF IndInv

LEMMA CommitNextKeeps ==
    ASSUME IndInv, setting' = setting, NEW h \in Holders, CommitNext(h)
    PROVE  IndInv'
  <1> DEFINE t == Owner[h]
             s == Head(todo[t])
  <1>1. /\ todo[t] \notin {None, <<>>} /\ pc[h] = "idle" /\ ~InCall(t)
        /\ Obtain(h, s) /\ todo' = [todo EXCEPT ![t] = Tail(todo[t])]
    BY Zenon DEF CommitNext
  <1>2. t \in Tasks
    BY SettingFacts, Zenon DEF IndInv, TypeOK
  <1>3. todo[t] \in Seq(Sectors) /\ todo[t] # <<>>
    BY <1>1, <1>2, Zenon DEF IndInv, TypeOK
  <1>4. s \in Sectors /\ Tail(todo[t]) \in Seq(Sectors)
    BY <1>3, HeadTailProperties, Zenon
  <1>5. \A x \in Range(todo[t]) : x = s \/ x \in Range(Tail(todo[t]))
    <2> DEFINE q == todo[t]
               r == Tail(todo[t])
    <2>1. /\ Len(q) \in Nat \ {0} /\ Len(r) = Len(q) - 1 /\ s = q[1]
          /\ \A i \in 1 .. Len(r) : r[i] = q[i + 1]
          /\ DOMAIN q = 1 .. Len(q) /\ DOMAIN r = 1 .. Len(r)
      BY <1>3, <1>4, HeadTailProperties, EmptySeq, LenProperties
    <2> HIDE DEF q, r, s
    <2>2. SUFFICES ASSUME NEW x \in Range(q), x # s PROVE x \in Range(r)
      BY Zenon DEF q, r
    <2>3. PICK i \in 1 .. Len(q) : x = q[i]
      BY <2>1, Zenon DEF Range
    <2>4. i - 1 \in 1 .. Len(r) /\ r[i - 1] = x
      BY <2>1, <2>2, <2>3
    <2> QED BY <2>1, <2>4, Zenon DEF Range
  <1> HIDE DEF s
  <1>6. TypeOK' /\ Tables' /\ Data'
    <2>1. todo' \in [Tasks -> Seq(Sectors) \union {None}]
      BY <1>1, <1>4, Zenon DEF IndInv, TypeOK
    <2> QED BY <1>1, <1>4, <2>1, ObtainKeeps, Zenon DEF IndInv
  <1>7. ASSUME Undisturbed PROVE OneCall' /\ Fresh' /\ Committing'
    <2>1. /\ OneCall' /\ Fresh'
          /\ \A g \in Holders : pc'[g] # "written"
          /\ \A c \in Range(cached') : /\ c \in Range(cached) /\ dirty'[c] = dirty[c]
                                       /\ label'[c] = label[c] /\ label[c] # s
      BY <1>1, <1>4, <1>7, ObtainFresh, Zenon DEF IndInv
    <2>2. \A u \in Tasks \ {t} : todo'[u] = todo[u] /\ todo[u] = None
      <3>1. \A u \in Tasks \ {t} : todo[u] = None
        BY <1>7, Zenon DEF IndInv, Committing, Undisturbed
      <3> QED BY <1>1, <3>1, Zenon DEF IndInv, TypeOK
    <2>3. todo'[t] = Tail(todo[t])
      BY <1>1, <1>2, Zenon DEF IndInv, TypeOK
    <2>4. \A c \in Range(cached') : dirty'[c] => label'[c] \in Range(todo'[t])
      <3>1. \A c \in Range(cached) : dirty[c] => label[c] \in Range(todo[t])
        BY <1>1, <1>2, <1>7, Zenon DEF IndInv, Committing
      <3> QED BY <1>5, <2>1, <2>3, <3>1, Zenon
    <2>5. Holders' = Holders /\ Owner' = Owner
      BY SettingKept, Zenon
    <2>6. Committing'
      BY <2>1, <2>2, <2>4, <2>5, Zenon DEF Committing
    <2> QED BY <2>1, <2>6, Zenon
  <1> QED BY <1>6, <1>7, SettingKept DEF IndInv

(* A ref is dropped after a use, after a commit of its sector, or on an error. *)
LEMMA DropKeeps ==
    ASSUME IndInv, setting' = setting, NEW h \in Holders, Drop(h) \/ CommitDrop(h) \/ Fail(h)
    PROVE  IndInv'
  <1>1. pc[h] \in {"use", "committed", "failed"} /\ Release(h)
    BY Zenon DEF Drop, CommitDrop, Fail
  <1>2. Returns(h)
    BY <1>1, ReleaseIs, Zenon DEF IndInv
  <1>3. TypeOK' /\ Tables' /\ Data' /\ Live' = Live
    <2>1. todo' \in [Tasks -> Seq(Sectors) \union {None}]
      <3>1. todo' = todo \/ todo' = [todo EXCEPT ![Owner[h]] = None]
        BY Zenon DEF Drop, CommitDrop, Fail
      <3> QED BY <3>1, Zenon DEF IndInv, TypeOK
    <2> QED BY <1>1, <1>2, <2>1, ReturnKeeps, Zenon DEF IndInv
  <1>4. ASSUME Undisturbed PROVE OneCall' /\ Fresh' /\ Committing'
    <2>1. pc[h] \in {"use", "committed"} /\ todo' = todo
      BY <1>1, <1>4, Zenon DEF IndInv, OneCall, Drop, CommitDrop, Fail
    <2>2. /\ OneCall' /\ Fresh'
          /\ \A g \in Holders : pc[g] # "written" => pc'[g] # "written"
          /\ \A c \in Range(cached') : c \in Range(cached) \/ c = ref[h]
          /\ dirty' = dirty /\ label' = label
      BY <1>2, <1>3, <1>4, <2>1, ReturnFresh, Zenon DEF IndInv
    <2>3. CASE Drop(h)
      <3>1. todo[Owner[h]] = None
        BY <2>3, Zenon DEF Drop
      <3> QED BY <1>4, <2>1, <2>2, <3>1, NoCommit, NothingToCommit, Zenon DEF IndInv
    <2>4. CASE CommitDrop(h)
      <3>1. pc[h] = "committed" /\ ~dirty[ref[h]]
        BY <1>4, <2>4, Zenon DEF CommitDrop, IndInv, Fresh
      <3>2. \A g \in Holders : pc'[g] # "written"
        BY <1>4, <2>2, <3>1, SMTT(20) DEF IndInv, OneCall, Busy
      <3> QED BY <1>4, <2>1, <2>2, <3>1, <3>2, CommitGoesOn, Zenon DEF IndInv
    <2>5. CASE Fail(h)
      BY <2>1, <2>5, Zenon DEF Fail
    <2> QED BY <2>2, <2>3, <2>4, <2>5, Zenon
  <1> QED BY <1>3, <1>4, SettingKept DEF IndInv

(* The steps of a holder with the ref it has. *)
LEMMA UseKeeps ==
    ASSUME IndInv, setting' = setting, NEW h \in Holders,
           \/ Initialize(h) \/ ReadIn(h) \/ CommitSector(h) \/ MarkAsDirty(h)
           \/ \E v \in setting.values : WriteBytes(h, v)
           \/ \E g \in Holders : Clone(h, g)
    PROVE  IndInv'
  <1> USE DEF IndInv
  <1>1. CASE Initialize(h) \/ CommitSector(h)
    <2>1. TypeOK' /\ Tables' /\ Data' /\ todo' = todo /\ cached' = cached /\ label' = label
      BY <1>1, InitializeKeeps, CommitSectorKeeps, Zenon DEF Initialize, CommitSector
    <2>2. ASSUME Undisturbed PROVE OneCall' /\ Fresh' /\ Committing'
      <3>1. /\ OneCall' /\ Fresh' /\ \A g \in Holders : pc'[g] # "written"
            /\ \A c \in Buffers : dirty'[c] => dirty[c]
        BY <1>1, <2>2, InitializeKeeps, CommitSectorKeeps, Zenon
      <3>2. Range(cached) \subseteq Buffers
        BY RefFacts, Zenon
      <3>3. \A c \in Range(cached') : dirty'[c] => c \in Range(cached) /\ dirty[c] /\ label'[c] = label[c]
        BY <2>1, <3>1, <3>2, Zenon
      <3> QED BY <2>1, <2>2, <3>1, <3>3, CommitGoesOn, Zenon
    <2> QED BY <2>1, <2>2, SettingKept
  <1>2. CASE ReadIn(h)
    <2>1. /\ TypeOK' /\ Tables' /\ Data'
          /\ todo' = todo /\ cached' = cached /\ label' = label /\ dirty' = dirty
      BY <1>2, ReadInKeeps, Zenon DEF ReadIn
    <2>2. ASSUME Undisturbed PROVE OneCall' /\ Fresh' /\ Committing'
      <3>1. OneCall' /\ Fresh' /\ \A g \in Holders : pc'[g] # "written"
        BY <1>2, <2>2, ReadInFresh, Zenon
      <3> QED BY <2>1, <2>2, <3>1, CommitGoesOn, Zenon
    <2> QED BY <2>1, <2>2, SettingKept
  <1>3. CASE MarkAsDirty(h)
    <2>1. TypeOK' /\ Tables' /\ Data' /\ todo' = todo
      <3>1. TypeOK' /\ Tables' /\ Data'
        BY <1>3, MarkAsDirtyKeeps, Zenon
      <3>2. todo' = todo
        BY <1>3, Zenon DEF MarkAsDirty
      <3> QED BY <3>1, <3>2, Zenon
    <2>2. ASSUME Undisturbed PROVE OneCall' /\ Fresh' /\ Committing'
      <3>1. OneCall' /\ Fresh'
        BY <1>3, <2>2, MarkAsDirtyKeeps, Zenon
      <3>2. \A t \in Tasks : todo[t] = None
        BY <1>3, <2>2, Zenon DEF MarkAsDirty, Committing
      <3> QED BY <2>1, <3>1, <3>2, NothingToCommit, Zenon
    <2> QED BY <2>1, <2>2, SettingKept
  <1>4. CASE \E v \in setting.values : WriteBytes(h, v)
    <2>1. PICK v \in setting.values : WriteBytes(h, v)
      BY <1>4, Zenon
    <2>2. TypeOK' /\ Tables' /\ Data' /\ todo' = todo /\ todo[Owner[h]] = None
      <3>1. TypeOK' /\ Tables' /\ Data'
        BY <2>1, WriteBytesKeeps, Zenon
      <3>2. todo' = todo /\ todo[Owner[h]] = None
        BY <2>1, Zenon DEF WriteBytes
      <3> QED BY <3>1, <3>2, Zenon
    <2>3. ASSUME Undisturbed PROVE OneCall' /\ Fresh' /\ Committing'
      <3>1. OneCall' /\ Fresh'
        BY <2>1, <2>3, WriteBytesKeeps, Zenon
      <3> QED BY <2>2, <2>3, <3>1, NoCommit, NothingToCommit, Zenon
    <2> QED BY <2>2, <2>3, SettingKept
  <1>5. CASE \E g \in Holders : Clone(h, g)
    <2>1. PICK g \in Holders : Clone(h, g)
      BY <1>5, Zenon
    <2>2. TypeOK' /\ Tables' /\ Data' /\ todo' = todo /\ todo[Owner[h]] = None
      <3>1. TypeOK' /\ Tables' /\ Data'
        BY <2>1, CloneKeeps, Zenon
      <3>2. todo' = todo /\ todo[Owner[h]] = None
        BY <2>1, Zenon DEF Clone
      <3> QED BY <3>1, <3>2, Zenon
    <2>3. ASSUME Undisturbed PROVE OneCall' /\ Fresh' /\ Committing'
      <3>1. OneCall' /\ Fresh'
        BY <2>1, <2>3, CloneKeeps, Zenon
      <3> QED BY <2>2, <2>3, <3>1, NoCommit, NothingToCommit, Zenon
    <2> QED BY <2>2, <2>3, SettingKept
  <1> QED BY <1>1, <1>2, <1>3, <1>4, <1>5, Zenon

LEMMA VolumeStep == IndInv /\ [Next]_vars => IndInv'
  <1>1. SUFFICES ASSUME IndInv, [Next]_vars PROVE IndInv'
    BY Zenon
  <1>2. CASE UNCHANGED vars
    <2>1. /\ setting' = setting /\ disk' = disk /\ label' = label /\ home' = home /\ dirty' = dirty
          /\ bytes' = bytes /\ lent' = lent /\ cached' = cached /\ ref' = ref /\ pc' = pc
          /\ todo' = todo /\ latest' = latest
      BY <1>2, Zenon DEF vars, buf
    <2>2. Holders' = Holders /\ Buffers' = Buffers /\ Owner' = Owner /\ Undisturbed' = Undisturbed
      BY <2>1, SettingKept, Zenon
    <2>3. Live' = Live
      BY <2>1, Zenon DEF Live
    <2>4. TypeOK' /\ Tables' /\ Data'
      BY <1>1, <2>1, <2>2, <2>3, SMTT(20) DEF IndInv, TypeOK, Tables, Data, Using
    <2>5. ASSUME Undisturbed PROVE OneCall' /\ Fresh' /\ Committing'
      BY <1>1, <2>1, <2>2, <2>3, <2>5, SMTT(20) DEF IndInv, OneCall, Busy, Fresh, Committing
    <2> QED BY <2>2, <2>4, <2>5, Zenon DEF IndInv
  <1>3. CASE Next
    <2>1. setting' = setting
      BY <1>3, Zenon DEF Next
    <2>2. ASSUME NEW t \in Tasks, StartCommit(t) \/ EndCommit(t) PROVE IndInv'
      BY <1>1, <2>1, <2>2, StartCommitKeeps, EndCommitKeeps, Zenon
    <2>3. ASSUME NEW h \in Holders, NEW s \in Sectors, Request(h, s) PROVE IndInv'
      BY <1>1, <2>1, <2>3, RequestKeeps, Zenon
    <2>4. ASSUME NEW h \in Holders, CommitNext(h) PROVE IndInv'
      BY <1>1, <2>1, <2>4, CommitNextKeeps, Zenon
    <2>5. ASSUME NEW h \in Holders, Drop(h) \/ CommitDrop(h) \/ Fail(h) PROVE IndInv'
      BY <1>1, <2>1, <2>5, DropKeeps, Zenon
    <2>6. ASSUME NEW h \in Holders,
                 \/ Initialize(h) \/ ReadIn(h) \/ CommitSector(h) \/ MarkAsDirty(h)
                 \/ \E v \in setting.values : WriteBytes(h, v)
                 \/ \E g \in Holders : Clone(h, g)
          PROVE  IndInv'
      BY <1>1, <2>1, <2>6, UseKeeps, Zenon
    <2> QED BY <1>3, <2>2, <2>3, <2>4, <2>5, <2>6, Zenon DEF Next
  <1> QED BY <1>1, <1>2, <1>3, Zenon

LEMMA VolumeInit == Init => IndInv
  <1>1. SUFFICES ASSUME Init PROVE IndInv
    BY Zenon
  <1>2. Blank \in setting.values /\ Owner \in [Holders -> Tasks]
    BY <1>1, SettingFacts, Zenon DEF Init
  <1>3. cached \in Seq(Buffers) /\ DOMAIN cached = {} /\ Live = {} /\ Range(cached) = {}
    BY <1>1 DEF Init, Live, Range
  <1>4. TypeOK
    BY <1>1, <1>2, <1>3, Zenon DEF Init, TypeOK
  <1>5. Tables
    BY <1>1, <1>3, Zenon DEF Init, Tables, IsInjective
  <1>6. Data
    BY <1>1, Zenon DEF Init, Data, Using
  <1>7. OneCall /\ Fresh /\ Committing
    BY <1>1, <1>3, Zenon DEF Init, OneCall, Busy, Fresh, Committing
  <1> QED BY <1>4, <1>5, <1>6, <1>7, Zenon DEF IndInv

(* The inductive invariant holds in every reachable state: the tables of lent and cached *)
(* buffers, what a buffer's data says of itself and, for one task on a device that does  *)
(* not fail, where the last value of every sector is.                                    *)
THEOREM VolumeInvariance == Spec => []IndInv
  BY VolumeInit, VolumeStep, PTL DEF Spec

(* sector(), commit() and the drops of refs keep sharing sound, for any number of tasks and *)
(* refs and any cache size, and whichever reads and writes of the device fail: the unwraps  *)
(* of Arc::get_mut in sector() and of the sector in commit() succeed.                       *)
THEOREM BuffersShareSoundly == Spec => []SharingSound
  <1>1. IndInv => SharingSound
    <2>1. SUFFICES ASSUME IndInv PROVE SharingSound
      BY Zenon
    <2>2. TypeOK /\ Tables /\ Data
      BY <2>1, Zenon DEF IndInv
    <2>3. Cardinality(Range(cached)) = Len(cached)
      BY <2>2, CountOf, ZenonT(40) DEF TypeOK, Tables
    <2>4. Cardinality(lent) + Len(cached) <= Cardinality(Buffers)
      BY <2>2, LiveCount, RefFacts, SettingFacts, FS_Subset, SMTT(20) DEF TypeOK
    <2>5. \A b \in Live : dirty[b] => home[b] # None
      BY <2>2, RefFacts, SettingFacts, SMTT(20) DEF Data, TypeOK
    <2> QED BY <2>2, <2>3, <2>4, <2>5, Zenon DEF SharingSound, Tables, Data
  <1> QED BY <1>1, VolumeInvariance, PTL

(* Buffering is transparent for one task on a device that does not fail: through a ref it   *)
(* sees the last value stored in the sector, however often the buffer was recycled.         *)
THEOREM BufferingIsTransparent == Spec => []Coherent
  <1>1. IndInv => Coherent
    <2>1. SUFFICES ASSUME IndInv, Undisturbed, NEW h \in Holders, Using(h)
                   PROVE  bytes[ref[h]] = latest[label[ref[h]]]
      BY Zenon DEF Coherent
    <2>2. ref[h] \in Live /\ label[ref[h]] \in Sectors
      BY <2>1, RefFacts, Zenon DEF IndInv, Using, Tables
    <2>3. home[ref[h]] = label[ref[h]] /\ None \notin Sectors
      BY <2>1, SettingFacts, Zenon DEF IndInv, Data, TypeOK
    <2> QED BY <2>1, <2>2, <2>3, Zenon DEF IndInv, Fresh
  <1> QED BY <1>1, VolumeInvariance, PTL

(* When commit() returns, for one task on a device that does not fail, every sector that is *)
(* not lent has its last value on the volume.                                               *)
THEOREM CommitMakesDurable == Spec => []CommitIsDurable
  <1>1. IndInv => CommitIsDurable
    <2>1. SUFFICES ASSUME IndInv, Undisturbed, NEW t \in Tasks, todo[t] = <<>>, ~InCall(t),
                          NEW s \in Sectors \ {label[b] : b \in lent}
                   PROVE  disk[s] = latest[s]
      BY Zenon DEF CommitIsDurable
    <2>2. todo[t] # None
      BY <2>1, SettingFacts, Zenon DEF IndInv, TypeOK
    <2>3. \A h \in Holders : pc[h] \in {"idle", "use"}
      <3>1. PICK h \in Holders : Owner[h] = t
        BY <2>1, <2>2, Zenon DEF IndInv, Committing
      <3> QED BY <2>1, <3>1, NobodyBusy, Zenon DEF IndInv
    <2>4. \A b \in Range(cached) : ~dirty[b]
      BY <2>1, <2>2 DEF IndInv, Committing, Range
    <2>5. \A b \in Live : home[b] = label[b]
      BY <2>1, <2>3, Zenon DEF IndInv, OneCall
    <2>6. ASSUME NEW b \in Live, home[b] = s PROVE ~dirty[b]
      BY <2>1, <2>4, <2>5, <2>6, Zenon DEF Live
    <2> QED BY <2>1, <2>3, <2>6, Zenon DEF IndInv, Fresh
  <1> QED BY <1>1, VolumeInvariance, PTL
=============================================================================
