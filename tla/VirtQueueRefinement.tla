------------------------- MODULE VirtQueueRefinement -------------------------
(***************************************************************************)
(* VirtQueue implements Lending, for every queue size, index width and set *)
(* of buffers: a head stands for the buffers behind it.                    *)
(***************************************************************************)
EXTENDS VirtQueueProofs

(* Mapping a sequence with one more member. *)
LEMMA ThroughAppend ==
    ASSUME NEW s \in Seq(Desc), NEW x \in Desc, NEW f
    PROVE  Through(Append(s, x), f) = Append(Through(s, f), f[x])
  <1> DEFINE n == Len(s)
             t == Append(s, x)
             p == Through(s, f)
             V == {f[y] : y \in Desc}
  <1>1. /\ n \in Nat /\ DOMAIN s = 1 .. n /\ DOMAIN t = 1 .. n + 1
        /\ t[n + 1] = x /\ \A i \in 1 .. n : t[i] = s[i] /\ s[i] \in Desc
    OBVIOUS
  <1>2. p = [i \in 1 .. n |-> f[s[i]]] /\ Through(t, f) = [i \in 1 .. n + 1 |-> f[t[i]]]
    BY <1>1, Zenon DEF Through
  <1>3. f[x] \in V /\ \A i \in 1 .. n : f[s[i]] \in V
    BY <1>1
  <1> HIDE DEF n, t, p, V
  <1>4. p \in [1 .. n -> V]
    BY <1>2, <1>3
  <1>5. p \in Seq(V) /\ Len(p) = n
    BY <1>1, <1>4
  <1>6. Append(p, f[x]) = [i \in 1 .. n + 1 |-> IF i = n + 1 THEN f[x] ELSE p[i]]
    BY <1>1, <1>3, <1>5
  <1>7. \A i \in 1 .. n + 1 : f[t[i]] = IF i = n + 1 THEN f[x] ELSE p[i]
    <2>1. \A i \in 1 .. n + 1 : i = n + 1 \/ i \in 1 .. n
      BY <1>1
    <2> QED BY <1>1, <1>2, <2>1, Zenon
  <1> QED BY <1>2, <1>6, <1>7, Zenon DEF p, t

(* Tail, by its members. *)
LEMMA TailIs ==
    ASSUME NEW S, NEW s \in Seq(S), s # <<>>
    PROVE  Tail(s) = [i \in 1 .. Len(s) - 1 |-> s[i + 1]]
  <1> DEFINE t == Tail(s)
             n == Len(s) - 1
  <1>1. t \in Seq(S) /\ Len(t) = n /\ \A i \in 1 .. n : t[i] = s[i + 1]
    OBVIOUS
  <1> HIDE DEF t, n
  <1>2. t = [i \in 1 .. n |-> t[i]]
    BY <1>1
  <1>3. t = [i \in 1 .. n |-> s[i + 1]]
    BY <1>1, <1>2
  <1> QED BY <1>3 DEF t, n

(* Mapping a sequence without its first member. *)
LEMMA ThroughTail ==
    ASSUME NEW s \in Seq(Desc), s # <<>>, NEW f
    PROVE  /\ Through(s, f) # <<>> /\ Head(Through(s, f)) = f[Head(s)]
           /\ Through(Tail(s), f) = Tail(Through(s, f))
  <1> DEFINE n == Len(s)
             t == Tail(s)
             p == Through(s, f)
             V == {f[y] : y \in Desc}
  <1>1. /\ n \in Nat /\ n > 0 /\ DOMAIN s = 1 .. n /\ DOMAIN t = 1 .. n - 1 /\ Head(s) = s[1]
        /\ \A i \in 1 .. n : s[i] \in Desc
        /\ \A i \in 1 .. n - 1 : t[i] = s[i + 1] /\ i + 1 \in 1 .. n
    OBVIOUS
  <1>2. p = [i \in 1 .. n |-> f[s[i]]] /\ Through(t, f) = [i \in 1 .. n - 1 |-> f[t[i]]]
    BY <1>1, Zenon DEF Through
  <1>3. \A i \in 1 .. n : f[s[i]] \in V
    BY <1>1
  <1> HIDE DEF n, t, p, V
  <1>4. p \in [1 .. n -> V]
    BY <1>2, <1>3
  <1>5. p \in Seq(V) /\ Len(p) = n
    BY <1>1, <1>4
  <1>6. p # <<>> /\ Head(p) = p[1] /\ Tail(p) = [i \in 1 .. n - 1 |-> p[i + 1]] /\ 1 \in 1 .. n
    <2>1. p # <<>> /\ 1 \in 1 .. n
      BY <1>1, <1>5
    <2>2. Head(p) = p[1]
      BY <1>5, <2>1
    <2>3. Tail(p) = [i \in 1 .. n - 1 |-> p[i + 1]]
      BY <1>5, <2>1, TailIs, Zenon
    <2> QED BY <2>1, <2>2, <2>3, Zenon
  <1>7. \A i \in 1 .. n - 1 : f[t[i]] = p[i + 1]
    BY <1>1, <1>2
  <1>8. Through(t, f) = Tail(p)
    BY <1>2, <1>6, <1>7, Zenon
  <1>9. Head(p) = f[Head(s)]
    BY <1>1, <1>2, <1>6
  <1> QED BY <1>6, <1>8, <1>9, Zenon DEF p, t

(* Mapping a sequence through functions that agree on its members. *)
LEMMA ThroughSame ==
    ASSUME NEW s, NEW f, NEW g, \A x \in Elems(s) : f[x] = g[x]
    PROVE  Through(s, f) = Through(s, g)
  BY DEF Through, Elems

(* The mapped variables. *)
Lists == [h \in Desc |-> Behind(h)]
(* The data of the chain in hand that the callback of collect has not had    *)
(* yet.                                                                      *)
Back == IF op.at = "free" THEN Through(Chain(op.i), data) ELSE <<>>

(* The substitution of the refinement, in these terms. *)
LEMMA MappedVars ==
    L!vars = <<Through(Offered, Lists), {Behind(h) : h \in held}, Through(Finished, Lists), Back>>
  BY DEF L!vars, Lists, Back

(* The chains of the heads in flight and what is behind them. *)
LEMMA BehindFacts ==
    ASSUME IndInv, NEW h \in InFlight
    PROVE  /\ h \in Desc /\ Lists[h] = Behind(h) /\ Behind(h) = Through(Chain(h), data)
           /\ \E m \in 1 .. Size : Chain(h) \in [1 .. m -> Desc]
           /\ Chain(h)[1] = h /\ Once(Chain(h)) /\ h \in Elems(Chain(h))
           /\ \A x \in Elems(Chain(h)) : x \in Desc /\ data[x] # None
  <1>1. PICK list, chain : Layout(list, chain)
    BY Zenon DEF IndInv
  <1>2. TypeOK /\ Contents
    BY Zenon DEF IndInv
  <1>3. Chain(h) = chain[h]
    BY <1>1, <1>2, UniqueIs, Zenon DEF Unique
  <1>4. /\ h \in Desc /\ \E m \in 1 .. Size : Chain(h) \in [1 .. m -> Desc]
        /\ Chain(h)[1] = h /\ Once(Chain(h)) /\ h \in Elems(Chain(h))
        /\ \A x \in Elems(Chain(h)) : x \in Desc /\ data[x] # None
    BY <1>1, <1>2, <1>3, HeadFacts, SMTT(20)
  <1>5. Behind(h) = Through(Chain(h), data)
    <2>1. \A x \in Elems(Chain(h)) : buf[x] = data[x]
      BY <1>2, <1>4, Zenon DEF Contents
    <2> QED BY <2>1, ThroughSame, Zenon DEF Behind
  <1>6. Lists[h] = Behind(h)
    BY <1>4, Zenon DEF Lists
  <1> QED BY <1>4, <1>5, <1>6, Zenon

(* Different heads have different lists behind them. *)
LEMMA BehindInjective ==
    ASSUME IndInv, NEW g \in InFlight, NEW h \in InFlight, Behind(g) = Behind(h)
    PROVE  g = h
  <1>1. ASSUME NEW k \in InFlight PROVE Behind(k)[1] = data[k] /\ k \in Desc /\ data[k] # None
    <2>1. /\ k \in Desc /\ Behind(k) = Through(Chain(k), data) /\ Chain(k)[1] = k /\ data[k] # None
      BY BehindFacts, Zenon
    <2>2. PICK m \in 1 .. Size : Chain(k) \in [1 .. m -> Desc]
      BY BehindFacts, Zenon
    <2>3. 1 \in DOMAIN Chain(k)
      BY <2>2, SizeFacts
    <2>4. Behind(k)[1] = data[Chain(k)[1]]
      BY <2>1, <2>3, Zenon DEF Through
    <2> QED BY <2>1, <2>4, Zenon
  <1>2. data[g] = data[h]
    BY <1>1, Zenon
  <1> QED BY <1>1, <1>2, Zenon DEF IndInv, Contents

(* In a quiet step nothing changes behind any head. *)
LEMMA QuietLists ==
    ASSUME TypeOK, Places, Quiet
    PROVE  /\ Lists' = Lists /\ \A h : Behind(h)' = Behind(h) /\ Chain(h)' = Chain(h)
           /\ next' = next /\ data' = data /\ buf' = buf
  <1>1. next' = next /\ data' = data /\ buf' = buf
    BY QuietMoves, Zenon
  <1>2. ASSUME NEW h PROVE Behind(h)' = Behind(h) /\ Chain(h)' = Chain(h)
    <2>1. Chain(h)' = Chain(h)
      BY <1>1, ChainKept, Zenon
    <2> QED BY <1>1, <2>1, Zenon DEF Behind, Through
  <1>3. Lists' = Lists
    BY <1>2, Zenon DEF Lists
  <1> QED BY <1>1, <1>2, <1>3, Zenon

(* Writing a ring entry is not visible. *)
LEMMA EnqueueRefines ==
    ASSUME IndInv, Enqueue
    PROVE  UNCHANGED L!vars
  <1>1. TypeOK /\ Places
    BY Zenon DEF IndInv
  <1>2. Lists' = Lists /\ \A h : Behind(h)' = Behind(h)
    BY <1>1, QuietLists, Zenon DEF Quiet
  <1>3. /\ Offered' = Offered /\ held' = held /\ Finished' = Finished
        /\ op.at = "enqueue" /\ op' = [at |-> "publish", i |-> op.i]
    BY <1>1, EnqueueMoves, Zenon
  <1>4. Through(Offered, Lists)' = Through(Offered, Lists) /\ Through(Finished, Lists)' = Through(Finished, Lists)
    BY <1>2, <1>3, Zenon DEF Through
  <1>5. {Behind(h) : h \in held}' = {Behind(h) : h \in held}
    BY <1>2, <1>3
  <1>6. Back' = <<>> /\ Back = <<>>
    BY <1>3, SMTT(20) DEF Back
  <1> QED BY <1>4, <1>5, <1>6, MappedVars, Zenon DEF L!vars, Lists, Back

(* Nor is the end of collect. *)
LEMMA CollectEndsRefines ==
    ASSUME IndInv, CollectEnds
    PROVE  UNCHANGED L!vars
  <1>1. TypeOK /\ Places
    BY Zenon DEF IndInv
  <1>2. Lists' = Lists /\ \A h : Behind(h)' = Behind(h)
    BY <1>1, QuietLists, Zenon DEF Quiet
  <1>3. /\ Offered' = Offered /\ held' = held /\ Finished' = Finished
        /\ op.at = "collect" /\ op'.at = "idle"
    BY <1>1, CollectEndsMoves DEF Idle
  <1>4. Through(Offered, Lists)' = Through(Offered, Lists) /\ Through(Finished, Lists)' = Through(Finished, Lists)
    BY <1>2, <1>3, Zenon DEF Through
  <1>5. {Behind(h) : h \in held}' = {Behind(h) : h \in held}
    BY <1>2, <1>3
  <1>6. Back' = <<>> /\ Back = <<>>
    BY <1>3 DEF Back
  <1> QED BY <1>4, <1>5, <1>6, MappedVars, Zenon DEF L!vars, Lists, Back

(* The device takes the next list of those offered. *)
LEMMA DeviceTakeRefines ==
    ASSUME IndInv, DeviceTake
    PROVE  L!Take
  <1>1. TypeOK /\ Places
    BY Zenon DEF IndInv
  <1>2. Lists' = Lists /\ (\A h : Behind(h)' = Behind(h) /\ Chain(h)' = Chain(h)) /\ data' = data
    BY <1>1, QuietLists, Zenon DEF Quiet
  <1>3. /\ Offered # <<>> /\ Offered' = Tail(Offered) /\ held' = held \cup {Head(Offered)}
        /\ Finished' = Finished /\ op' = op
    BY <1>1, DeviceTakeMoves, Zenon
  <1>4. Offered \in Seq(Desc)
    BY <1>1, RingsAre, Zenon
  <1>5. /\ Through(Offered, Lists) # <<>> /\ Head(Through(Offered, Lists)) = Lists[Head(Offered)]
        /\ Through(Tail(Offered), Lists) = Tail(Through(Offered, Lists))
    BY <1>3, <1>4, ThroughTail, Zenon
  <1>6. Head(Offered) \in InFlight
    <2>1. Head(Offered) \in Elems(Offered)
      BY <1>1, <1>3, <1>4, TailOnce, Zenon DEF Places
    <2> QED BY <2>1, Zenon DEF InFlight
  <1>7. Lists[Head(Offered)] = Behind(Head(Offered))
    BY <1>6, BehindFacts, Zenon
  <1>8. Through(Offered, Lists)' = Tail(Through(Offered, Lists))
    BY <1>2, <1>3, <1>5, Zenon DEF Through
  <1>9. {Behind(h) : h \in held}' = {Behind(h) : h \in held} \cup {Head(Through(Offered, Lists))}
    <2>1. PICK x : x = Head(Offered)
      OBVIOUS
    <2>2. {Behind(h) : h \in held}' = {Behind(h) : h \in held'}
      BY <1>2
    <2>3. Head(Through(Offered, Lists)) = Behind(x) /\ held' = held \cup {x}
      BY <1>3, <1>5, <1>7, <2>1, Zenon
    <2> QED BY <2>2, <2>3
  <1>10. Through(Finished, Lists)' = Through(Finished, Lists)
    BY <1>2, <1>3, Zenon DEF Through
  <1>11. Back' = Back
    <2>1. PICK i : i = op.i
      OBVIOUS
    <2>2. Chain(op.i)' = Chain(op.i)
      BY <1>2, <1>3, <2>1, Zenon
    <2> QED BY <1>2, <1>3, <2>2, Zenon DEF Back, Through
  <1> QED BY <1>5, <1>8, <1>9, <1>10, <1>11, Zenon DEF L!Take, Lists, Back

(* The device finishes a list. *)
LEMMA DeviceUseRefines ==
    ASSUME IndInv, NEW h \in held, DeviceUse(h)
    PROVE  \E bs \in {Behind(g) : g \in held} : L!Finish(bs)
  <1>1. TypeOK /\ Places
    BY Zenon DEF IndInv
  <1>2. Lists' = Lists /\ (\A g : Behind(g)' = Behind(g) /\ Chain(g)' = Chain(g)) /\ data' = data
    BY <1>1, QuietLists, Zenon DEF Quiet
  <1>3. /\ Offered' = Offered /\ held' = held \ {h} /\ Finished' = Append(Finished, h)
        /\ op' = op /\ h \in Desc
    BY <1>1, DeviceUseMoves, Zenon
  <1>4. \A g \in held : g \in InFlight
    BY Zenon DEF InFlight
  <1>5. Lists[h] = Behind(h)
    BY <1>4, BehindFacts, Zenon
  <1>6. Through(Finished, Lists)' = Append(Through(Finished, Lists), Behind(h))
    <2>1. Through(Append(Finished, h), Lists) = Append(Through(Finished, Lists), Lists[h])
      BY <1>1, <1>3, RingsAre, ThroughAppend, Zenon
    <2> QED BY <1>2, <1>3, <1>5, <2>1, Zenon DEF Through
  <1>7. {Behind(g) : g \in held}' = {Behind(g) : g \in held} \ {Behind(h)}
    <2>1. {Behind(g) : g \in held}' = {Behind(g) : g \in held \ {h}}
      BY <1>2, <1>3
    <2>2. \A g \in held : Behind(g) = Behind(h) => g = h
      BY <1>4, BehindInjective, Zenon
    <2> QED BY <2>1, <2>2
  <1>8. Through(Offered, Lists)' = Through(Offered, Lists)
    BY <1>2, <1>3, Zenon DEF Through
  <1>9. Back' = Back
    <2>1. PICK i : i = op.i
      OBVIOUS
    <2>2. Chain(op.i)' = Chain(op.i)
      BY <1>2, <1>3, <2>1, Zenon
    <2> QED BY <1>2, <1>3, <2>2, Zenon DEF Back, Through
  <1>10. L!Finish(Behind(h))
    BY <1>6, <1>7, <1>8, <1>9, Zenon DEF L!Finish, Lists, Back
  <1> QED BY <1>10, Zenon

(* collect takes back the list that was finished first. *)
LEMMA DequeueRefines ==
    ASSUME IndInv, Dequeue
    PROVE  L!Collect
  <1>1. TypeOK /\ Places
    BY Zenon DEF IndInv
  <1>2. Lists' = Lists /\ (\A g : Behind(g)' = Behind(g) /\ Chain(g)' = Chain(g)) /\ data' = data
    BY <1>1, QuietLists, Zenon DEF Quiet
  <1>3. PICK x : x = Head(Finished)
    OBVIOUS
  <1>4. /\ Offered' = Offered /\ held' = held
        /\ Finished # <<>> /\ Finished' = Tail(Finished)
        /\ op.at \in {"idle", "collect"} /\ op' = [at |-> "free", i |-> x]
    BY <1>1, <1>3, DequeueMoves, Zenon
  <1>5. op.at # "free" /\ op'.at = "free" /\ op'.i = x
    BY <1>4
  <1>6. Finished \in Seq(Desc)
    BY <1>1, RingsAre, Zenon
  <1>7. /\ Through(Finished, Lists) # <<>> /\ Head(Through(Finished, Lists)) = Lists[x]
        /\ Through(Tail(Finished), Lists) = Tail(Through(Finished, Lists))
    BY <1>3, <1>4, <1>6, ThroughTail, Zenon
  <1>8. x \in InFlight
    <2>1. x \in Elems(Finished)
      BY <1>1, <1>3, <1>4, <1>6, TailOnce, Zenon DEF Places
    <2> QED BY <2>1, Zenon DEF InFlight
  <1>9. Lists[x] = Behind(x) /\ Behind(x) = Through(Chain(x), data)
    BY <1>8, BehindFacts, Zenon
  <1>10. Through(Finished, Lists)' = Tail(Through(Finished, Lists))
    BY <1>2, <1>4, <1>7, Zenon DEF Through
  <1>11. {Behind(h) : h \in held}' = {Behind(h) : h \in held}
    BY <1>2, <1>4
  <1>12. Through(Offered, Lists)' = Through(Offered, Lists)
    BY <1>2, <1>4, Zenon DEF Through
  <1>13. Back = <<>>
    BY <1>5, Zenon DEF Back
  <1>14. Back' = Head(Through(Finished, Lists))
    <2>1. Chain(op.i)' = Chain(x)
      BY <1>2, <1>5, Zenon
    <2>2. Back' = Through(Chain(x), data)
      BY <1>2, <1>5, <2>1, Zenon DEF Back, Through
    <2> QED BY <1>7, <1>9, <2>2, Zenon
  <1> QED BY <1>7, <1>10, <1>11, <1>12, <1>13, <1>14, Zenon DEF L!Collect, Lists, Back

(* Lists of heads whose lists stay the same. *)
LEMMA ThroughKept ==
    ASSUME TypeOK, NEW s \in Seq(Desc), \A h \in Elems(s) : Behind(h)' = Behind(h)
    PROVE  Through(s, Lists)' = Through(s, Lists)
  <1>1. PICK f, g : f = Lists /\ g = Lists'
    OBVIOUS
  <1>2. Elems(s) \subseteq Desc
    BY DEF Elems
  <1>3. \A h \in Elems(s) : g[h] = f[h]
    BY <1>1, <1>2, Zenon DEF Lists
  <1>4. Through(s, g) = Through(s, f)
    BY <1>3, ThroughSame, Zenon
  <1> QED BY <1>1, <1>4, Zenon DEF Through

(* Building a chain is not visible before it is published. *)
LEMMA TransferRefines ==
    ASSUME IndInv, NEW bs \in Batch, \A i \in DOMAIN bs : bs[i] \in Unused, Transfer(bs)
    PROVE  UNCHANGED L!vars
  <1>1. TypeOK
    BY Zenon DEF IndInv
  <1>2. PICK o, u : o = Offered /\ u = Finished
    OBVIOUS
  <1>3. \A h \in InFlight : Behind(h)' = Behind(h)
    BY TransferStep, Zenon
  <1>4. /\ Offered' = o /\ held' = held /\ Finished' = u
        /\ op.at = "idle" /\ op' = [at |-> "enqueue", i |-> first]
    BY <1>1, <1>2, TransferMoves, Zenon
  <1>5. o \in Seq(Desc) /\ u \in Seq(Desc)
    BY <1>1, <1>2, RingsAre, Zenon
  <1>6. \A h \in Elems(o) \cup held \cup Elems(u) : h \in InFlight
    BY <1>2, Zenon DEF InFlight
  <1>7. Through(o, Lists)' = Through(o, Lists) /\ Through(u, Lists)' = Through(u, Lists)
    BY <1>1, <1>3, <1>5, <1>6, ThroughKept, Zenon
  <1>8. Through(Offered, Lists)' = Through(Offered, Lists) /\ Through(Finished, Lists)' = Through(Finished, Lists)
    BY <1>2, <1>4, <1>7, Zenon DEF Through
  <1>9. {Behind(h) : h \in held}' = {Behind(h) : h \in held}
    BY <1>3, <1>4, <1>6, SMTT(20)
  <1>10. Back' = <<>> /\ Back = <<>>
    BY <1>4 DEF Back
  <1> QED BY <1>8, <1>9, <1>10, MappedVars, Zenon DEF L!vars, Lists, Back

(* Each freed descriptor gives one buffer to the callback. *)
LEMMA FreeRefines ==
    ASSUME IndInv, Free
    PROVE  L!HandBack
  <1>1. TypeOK /\ Places
    BY Zenon DEF IndInv
  <1>2. PICK o, u, d, c, dt : o = Offered /\ u = Finished /\ d = op.i /\ c = Chain(d) /\ dt = data
    OBVIOUS
  <1>3. PICK x : x = next[d]
    OBVIOUS
  <1>4. /\ Offered' = o /\ held' = held /\ Finished' = u /\ buf' = buf
        /\ op.at = "free" /\ InHand = {d}
        /\ x = None => op'.at = "collect"
        /\ x # None => op'.at = "free" /\ op'.i = x
    BY <1>1, <1>2, <1>3, FreeMoves
  <1>5. o \in Seq(Desc) /\ u \in Seq(Desc)
    BY <1>1, <1>2, RingsAre, Zenon
  <1>6. \A h \in InFlight \ {d} : Chain(h)' = Chain(h)
    BY <1>2, FreeStep, Zenon
  <1>7. PICK m : IsCut(c, m, d) /\ (x # None => Chain(x)' = Rest(c, 1, m))
    BY <1>2, <1>3, FreeStep, Zenon
  <1>8. ASSUME NEW h \in InFlight \ {d} PROVE Behind(h)' = Behind(h)
    BY <1>4, <1>6, Zenon DEF Behind, Through
  <1>9. \A h \in Elems(o) \cup held \cup Elems(u) : h \in InFlight \ {d}
    <2>1. \A h \in Elems(o) \cup held \cup Elems(u) : h # d
      BY <1>1, <1>2, <1>4, Zenon DEF Places
    <2> QED BY <1>2, <2>1, Zenon DEF InFlight
  <1>10. Through(o, Lists)' = Through(o, Lists) /\ Through(u, Lists)' = Through(u, Lists)
    BY <1>1, <1>5, <1>8, <1>9, ThroughKept, Zenon
  <1>11. Through(Offered, Lists)' = Through(Offered, Lists) /\ Through(Finished, Lists)' = Through(Finished, Lists)
    BY <1>2, <1>4, <1>10, Zenon DEF Through
  <1>12. {Behind(h) : h \in held}' = {Behind(h) : h \in held}
    BY <1>4, <1>8, <1>9
  <1> DEFINE b == Through(c, dt)
             r == Rest(c, 1, m)
             V == {dt[y] : y \in Desc}
  <1>13. Back = b
    BY <1>2, <1>4, Zenon DEF Back
  <1>14. /\ m \in 1 .. Size /\ c \in [1 .. m -> Desc] /\ r = [i \in 1 .. m - 1 |-> c[i + 1]]
         /\ (x = None <=> m = 1) /\ r \in [1 .. m - 1 -> Desc] /\ Elems(r) = Elems(c) \ {d}
    BY <1>3, <1>7, Zenon DEF IsCut, Rest
  <1>15. m \in Nat /\ m > 0
    BY <1>14, SizeFacts, SMTT(20)
  <1>16. b = [i \in 1 .. m |-> dt[c[i]]] /\ b \in [1 .. m -> V]
    BY <1>14 DEF Through
  <1> HIDE DEF b, r, V
  <1>17. b \in Seq(V) /\ Len(b) = m /\ b # <<>>
    BY <1>15, <1>16
  <1>18. Tail(b) = [i \in 1 .. m - 1 |-> b[i + 1]]
    BY <1>17, TailIs, Zenon
  <1>19. Back' = Tail(b)
    <2>1. CASE x = None
      <3>1. Back' = <<>>
        BY <1>4, <2>1 DEF Back
      <3>2. Tail(b) = <<>>
        <4>1. Len(b) = 1 /\ b \in Seq(V) /\ b # <<>>
          BY <1>14, <1>17, <2>1, Zenon
        <4>2. Tail(b) \in Seq(V) /\ Len(Tail(b)) = 0
          BY <4>1
        <4>3. \A t \in Seq(V) : Len(t) = 0 => t = <<>>
          OBVIOUS
        <4> QED BY <4>2, <4>3, Zenon
      <3> QED BY <3>1, <3>2, Zenon
    <2>2. CASE x # None
      <3>1. Chain(op.i)' = r
        BY <1>4, <1>7, <2>2, Zenon DEF r
      <3>2. Back' = [i \in 1 .. m - 1 |-> data'[r[i]]]
        <4>1. Back' = Through(Chain(op.i), data)'
          BY <1>4, <2>2, Zenon DEF Back
        <4>2. Back' = [i \in DOMAIN r |-> data'[r[i]]]
          BY <3>1, <4>1, Zenon DEF Through
        <4> QED BY <1>14, <4>2
      <3>3. data' = [data EXCEPT ![d] = None]
        BY <1>2 DEF Free, FreeTo
      <3>4. ASSUME NEW i \in 1 .. m - 1 PROVE data'[r[i]] = b[i + 1]
        <4>1. r[i] \in Desc /\ r[i] # d
          BY <1>14, Zenon DEF Elems
        <4>2. i + 1 \in 1 .. m /\ r[i] = c[i + 1]
          BY <1>14, <1>15
        <4>3. data'[r[i]] = data[r[i]]
          BY <1>1, <3>3, <4>1 DEF TypeOK
        <4> QED BY <1>2, <1>16, <4>2, <4>3
      <3> QED BY <1>18, <3>2, <3>4
    <2> QED BY <2>1, <2>2, Zenon
  <1>20. Back # <<>> /\ Back' = Tail(Back)
    BY <1>13, <1>17, <1>19, Zenon
  <1> QED BY <1>11, <1>12, <1>20, Zenon DEF L!HandBack, Lists, Back

(* The descriptors of all chains but that of d, and the buffers they refer to. *)
Others(d) == UNION {Elems(Chain(h)) : h \in InFlight \ {d}}

(* The buffers that Lending counts as away are behind the other chains. *)
LEMMA AwayIs ==
    ASSUME IndInv, op.at = "publish"
    PROVE  L!Away = {data[x] : x \in Others(op.i)}
  <1>1. TypeOK /\ Places
    BY Zenon DEF IndInv
  <1>2. PICK d : d = op.i
    OBVIOUS
  <1>3. Back = <<>> /\ InHand = {d}
    BY <1>2 DEF Back, InHand
  <1>4. \A h : h \in InFlight \ {d} <=> h \in Elems(Offered) \cup held \cup Elems(Finished)
    BY <1>1, <1>3, Zenon DEF InFlight, Places
  <1>5. ASSUME NEW h \in InFlight
        PROVE  /\ Lists[h] = Behind(h)
               /\ \A y : y \in Elems(Behind(h)) <=> \E x \in Elems(Chain(h)) : y = data[x]
    <2>1. Lists[h] = Behind(h) /\ Behind(h) = Through(Chain(h), data)
      BY BehindFacts, Zenon
    <2>2. PICK c, b : c = Chain(h) /\ b = Behind(h)
      OBVIOUS
    <2>3. b = [i \in DOMAIN c |-> data[c[i]]]
      BY <2>1, <2>2, Zenon DEF Through
    <2>4. \A y : y \in Elems(b) <=> \E x \in Elems(c) : y = data[x]
      BY <2>3 DEF Elems
    <2> QED BY <2>1, <2>2, <2>4, Zenon
  <1>6. ASSUME NEW s, \A h \in Elems(s) : h \in InFlight
        PROVE  \A b : b \in Elems(Through(s, Lists)) <=> \E h \in Elems(s) : b = Behind(h)
    <2> SUFFICES ASSUME NEW b
                 PROVE  b \in Elems(Through(s, Lists)) <=> \E h \in Elems(s) : b = Behind(h)
      OBVIOUS
    <2>1. \A i \in DOMAIN s : s[i] \in Elems(s) /\ Lists[s[i]] = Behind(s[i])
      BY <1>5, <1>6, Zenon DEF Elems
    <2>2. b \in Elems(Through(s, Lists)) <=> \E i \in DOMAIN s : b = Lists[s[i]]
      BY DEF Through, Elems
    <2>3. ASSUME NEW i \in DOMAIN s, b = Lists[s[i]] PROVE \E h \in Elems(s) : b = Behind(h)
      BY <2>1, <2>3, Zenon
    <2>4. ASSUME NEW h \in Elems(s), b = Behind(h) PROVE \E i \in DOMAIN s : b = Lists[s[i]]
      <3>1. PICK i \in DOMAIN s : h = s[i]
        BY Zenon DEF Elems
      <3> QED BY <2>1, <2>4, <3>1, Zenon
    <2> QED BY <2>2, <2>3, <2>4, Zenon
  <1>7. \A h \in Elems(Offered) \cup held \cup Elems(Finished) : h \in InFlight
    BY <1>4, Zenon
  <1> DEFINE W == Elems(Through(Offered, Lists)) \cup {Behind(h) : h \in held}
                    \cup Elems(Through(Finished, Lists)) \cup {Back}
  <1>8. L!Away = UNION {Elems(b) : b \in W}
    BY Zenon DEF L!Away, L!Elems, Elems, Lists, Back
  <1>9. \A b : b \in W <=> b = <<>> \/ \E h \in InFlight \ {d} : b = Behind(h)
    <2>1. \A b : b \in Elems(Through(Offered, Lists)) <=> \E h \in Elems(Offered) : b = Behind(h)
      BY <1>6, <1>7, Zenon
    <2>2. \A b : b \in Elems(Through(Finished, Lists)) <=> \E h \in Elems(Finished) : b = Behind(h)
      BY <1>6, <1>7, Zenon
    <2>3. \A b : b \in {Behind(h) : h \in held} <=> \E h \in held : b = Behind(h)
      BY Zenon
    <2> QED BY <1>3, <1>4, <2>1, <2>2, <2>3, Zenon
  <1> HIDE DEF W
  <1>10. Elems(<<>>) = {}
    BY DEF Elems
  <1>11. ASSUME NEW y PROVE y \in L!Away <=> y \in {data[x] : x \in Others(d)}
    <2>1. y \in L!Away <=> \E h \in InFlight \ {d} : y \in Elems(Behind(h))
      <3>1. y \in L!Away <=> \E b \in W : y \in Elems(b)
        BY <1>8, Zenon
      <3> QED BY <1>9, <1>10, <3>1, Zenon
    <2>2. y \in L!Away <=> \E h \in InFlight \ {d} : \E x \in Elems(Chain(h)) : y = data[x]
      <3>1. \A h \in InFlight \ {d} : y \in Elems(Behind(h)) <=> \E x \in Elems(Chain(h)) : y = data[x]
        <4> TAKE h \in InFlight \ {d}
        <4>1. h \in InFlight
          OBVIOUS
        <4> QED BY <4>1, <1>5, ZenonT(40)
      <3>2. ASSUME NEW h \in InFlight \ {d}, y \in Elems(Behind(h))
            PROVE  \E x \in Elems(Chain(h)) : y = data[x]
        BY <3>1, <3>2, Zenon
      <3>3. ASSUME NEW h \in InFlight \ {d}, \E x \in Elems(Chain(h)) : y = data[x]
            PROVE  y \in Elems(Behind(h))
        BY <3>1, <3>3, Zenon
      <3> QED BY <2>1, <3>2, <3>3, Zenon
    <2>3. y \in {data[x] : x \in Others(d)} <=> \E x \in Others(d) : y = data[x]
      BY Zenon
    <2>4. \A x : x \in Others(d) <=> \E h \in InFlight \ {d} : x \in Elems(Chain(h))
      BY Zenon DEF Others
    <2> QED BY <2>2, <2>3, <2>4, Zenon
  <1>12. L!Away = {data[x] : x \in Others(d)}
    BY <1>11, Zenon
  <1> QED BY <1>2, <1>12, Zenon

(* Publishing offers the list, and there is room for it. *)
LEMMA PublishRefines ==
    ASSUME IndInv, Publish
    PROVE  \E bs \in Batch : L!Give(bs)
  <1>1. TypeOK /\ Places /\ Contents
    BY Zenon DEF IndInv
  <1>2. PICK d, c, b : d = op.i /\ c = Chain(d) /\ b = Behind(d)
    OBVIOUS
  <1>3. Lists' = Lists /\ \A h : Behind(h)' = Behind(h)
    BY <1>1, QuietLists, Zenon DEF Quiet
  <1>4. /\ Offered' = Append(Offered, d) /\ held' = held /\ Finished' = Finished
        /\ op.at = "publish" /\ op' = Idle /\ InHand = {d}
    BY <1>1, <1>2, PublishMoves, Zenon
  <1>5. op'.at = "idle"
    BY <1>4 DEF Idle
  <1>6. d \in InFlight
    BY <1>4, Zenon DEF InFlight
  <1>7. b \in Batch
    BY <1>1, <1>2, <1>4, Zenon DEF Contents
  <1>8. /\ d \in Desc /\ Lists[d] = b /\ b = Through(c, data) /\ Once(c)
        /\ \A x \in Elems(c) : x \in Desc /\ data[x] # None
    BY <1>2, <1>6, BehindFacts, Zenon
  <1>9. PICK m \in 1 .. Size : c \in [1 .. m -> Desc]
    BY <1>2, <1>6, BehindFacts, Zenon
  <1>10. m \in Nat /\ b = [i \in 1 .. m |-> data[c[i]]]
    BY <1>8, <1>9, SizeFacts, SMTT(20) DEF Through
  <1>11. Len(b) = m
    <2>1. b \in [1 .. m -> {data[x] : x \in Desc}]
      BY <1>9, <1>10
    <2> QED BY <1>10, <2>1
  <1> DEFINE X == Others(d)
             Y == Elems(c)
             A == {data[x] : x \in X}
  <1>12. L!Away = A
    BY <1>2, <1>4, AwayIs, Zenon
  <1>13. ASSUME NEW x \in X PROVE x \in Desc /\ data[x] # None /\ x \notin Y
    <2>1. PICK h \in InFlight \ {d} : x \in Elems(Chain(h))
      BY Zenon DEF Others
    <2>2. x \in Desc /\ data[x] # None
      BY <2>1, BehindFacts, Zenon
    <2>3. Elems(Chain(h)) \cap Elems(Chain(d)) = {}
      BY <1>6, <2>1, PartitionIs, Zenon DEF Partition
    <2> QED BY <1>2, <2>1, <2>2, <2>3, Zenon
  <1>14. A \cap Elems(b) = {}
    <2>1. \A y : y \in Elems(b) <=> \E x \in Y : y = data[x]
      BY <1>9, <1>10 DEF Elems
    <2>2. ASSUME NEW x \in X, NEW z \in Y PROVE data[x] # data[z]
      BY <1>1, <1>8, <1>13, Zenon DEF Contents
    <2> HIDE DEF X, Y
    <2> QED BY <2>1, <2>2, ZenonT(40)
  <1>15. /\ IsFiniteSet(Desc) /\ Cardinality(Desc) = Size
         /\ X \in SUBSET Desc /\ Y \in SUBSET Desc
    <2>1. IsFiniteSet(Desc) /\ Cardinality(Desc) = Size
      BY FS_Interval, SizeFacts DEF Desc
    <2> QED BY <1>8, <1>13, <2>1, Zenon
  <1>16. Cardinality(Y) = m /\ IsFiniteSet(Y)
    <2>1. c \in Bijection(1 .. m, Y)
      BY <1>8, <1>9 DEF Bijection, Injection, Surjection, IsInjective, Once, Elems
    <2>2. ExistsBijection(1 .. m, Y)
      BY <2>1, Zenon DEF ExistsBijection
    <2> QED BY <1>10, <1>15, <2>2, FS_CountingElements, FS_Subset, Zenon
  <1>17. IsFiniteSet(X) /\ Cardinality(X) + m <= Size /\ Cardinality(X) \in Nat
    <2>1. IsFiniteSet(X) /\ Cardinality(X) \in Nat
      BY <1>15, FS_Subset, FS_CardinalityType, Zenon
    <2>2. X \cap Y = {}
      BY <1>13, Zenon
    <2>3. /\ IsFiniteSet(X \cup Y)
          /\ Cardinality(X \cup Y) = Cardinality(X) + Cardinality(Y) - Cardinality(X \cap Y)
      BY <1>16, <2>1, FS_Union, Zenon
    <2>4. Cardinality(X \cap Y) = 0
      BY <2>2, FS_EmptySet
    <2>5. Cardinality(X \cup Y) <= Size
      <3>1. X \cup Y \in SUBSET Desc
        BY <1>15, Zenon
      <3> QED BY <1>15, <3>1, FS_Subset, Zenon
    <2> HIDE DEF X, Y
    <2> QED BY <1>10, <1>16, <2>1, <2>3, <2>4, <2>5, SizeFacts, SMTT(20)
  <1>18. Cardinality(A) <= Cardinality(X) /\ Cardinality(A) \in Nat
    <2> DEFINE f == [x \in X |-> data[x]]
    <2>1. f \in Surjection(X, A)
      <3> HIDE DEF X
      <3> QED BY DEF Surjection
    <2>2. IsFiniteSet(A) /\ Cardinality(A) <= Cardinality(X)
      BY <1>17, <2>1, FS_Surjection, Zenon
    <2> QED BY <2>2, FS_CardinalityType, Zenon
  <1>19. L!Free >= Len(b)
    <2>1. L!Free = Size - Cardinality(L!Away)
      BY Zenon DEF L!Free, L!Cardinality, Cardinality
    <2>2. L!Free = Size - Cardinality(A)
      BY <1>12, <2>1, Zenon
    <2> HIDE DEF A, X
    <2> QED BY <1>10, <1>11, <1>17, <1>18, <2>2, SizeFacts, SMTT(20)
  <1>20. L!Away \cap L!Elems(b) = {}
    BY <1>12, <1>14, Zenon DEF L!Elems, Elems
  <1>21. Through(Offered, Lists)' = Append(Through(Offered, Lists), b)
    <2>1. Through(Append(Offered, d), Lists) = Append(Through(Offered, Lists), Lists[d])
      BY <1>1, <1>8, RingsAre, ThroughAppend, Zenon
    <2> QED BY <1>3, <1>4, <1>8, <2>1, Zenon DEF Through
  <1>22. {Behind(h) : h \in held}' = {Behind(h) : h \in held}
    BY <1>3, <1>4
  <1>23. Through(Finished, Lists)' = Through(Finished, Lists)
    BY <1>3, <1>4, Zenon DEF Through
  <1>24. Back' = <<>> /\ Back = <<>>
    BY <1>4, <1>5 DEF Back
  <1>25. L!Give(b)
    BY <1>19, <1>20, <1>21, <1>22, <1>23, <1>24, Zenon DEF L!Give, Lists, Back
  <1> QED BY <1>7, <1>25, Zenon

(* Stuttering changes no mapped variable. *)
LEMMA StutterRefines ==
    ASSUME UNCHANGED vars
    PROVE  UNCHANGED L!vars
  <1>1. /\ next' = next /\ buf' = buf /\ data' = data
        /\ avail' = avail /\ used' = used /\ lastUsed' = lastUsed /\ op' = op
        /\ seen' = seen /\ held' = held
    BY Zenon DEF vars
  <1>2. Offered' = Offered /\ Finished' = Finished
    BY <1>1 DEF Offered, Finished, Heads
  <1>3. \A h : Chain(h)' = Chain(h)
    BY <1>1, ChainKept, Zenon
  <1>4. \A h : Behind(h)' = Behind(h)
    BY <1>1, <1>3, Zenon DEF Behind, Through
  <1>5. Lists' = Lists
    BY <1>4, Zenon DEF Lists
  <1>6. Through(Offered, Lists)' = Through(Offered, Lists) /\ Through(Finished, Lists)' = Through(Finished, Lists)
    BY <1>2, <1>5, Zenon DEF Through
  <1>7. {Behind(h) : h \in held}' = {Behind(h) : h \in held}
    BY <1>1, <1>4
  <1>8. Back' = Back
    <2>1. Chain(op.i)' = Chain(op.i)
      <3>1. PICK i : i = op.i
        OBVIOUS
      <3> QED BY <1>1, <1>3, <3>1, Zenon
    <2> QED BY <1>1, <2>1, Zenon DEF Back, Through
  <1> QED BY <1>6, <1>7, <1>8, MappedVars, Zenon DEF L!vars, Lists, Back

(* A new queue has lent nothing. *)
LEMMA InitRefines ==
    ASSUME Init
    PROVE  L!Init
  <1>1. IndInv
    BY InitInv
  <1>2. TypeOK
    BY <1>1, Zenon DEF IndInv
  <1>3. Offered = <<>> /\ Finished = <<>>
    <2>1. avail.idx = 0 /\ used.idx = 0 /\ seen = 0 /\ lastUsed = 0
      BY DEF Init
    <2>2. Len(Offered) = 0 /\ Len(Finished) = 0 /\ Offered \in Seq(Desc) /\ Finished \in Seq(Desc)
      BY <1>2, <2>1, RingsAre, HeadsAre, SMTT(20) DEF Offered, Finished
    <2> QED BY <2>2
  <1>4. \A f : Through(<<>>, f) = <<>>
    BY DEF Through
  <1>5. held = {} /\ op.at = "idle"
    BY DEF Init, Idle
  <1> QED BY <1>3, <1>4, <1>5 DEF L!Init

(* Each step of the virtqueue is a step of Lending or invisible to it: the   *)
(* device finds behind the heads of the available ring the lists that were   *)
(* transferred, in the order of the transfers and from the moment the index  *)
(* is published, and collect gives the data of each finished chain to its    *)
(* callback once, in the order of the used ring.                             *)
THEOREM IsLending == Spec => ImplementsLending
  <1>1. Init => L!Init
    BY InitRefines
  <1>2. IndInv /\ [Next]_vars => [L!Next]_(L!vars)
    <2> SUFFICES ASSUME IndInv, [Next]_vars PROVE L!Next \/ UNCHANGED L!vars
      BY Zenon
    <2>1. CASE \E bs \in Batch : (\A i \in DOMAIN bs : bs[i] \in Unused) /\ Transfer(bs)
      BY <2>1, TransferRefines, Zenon
    <2>2. CASE Enqueue
      BY <2>2, EnqueueRefines, Zenon
    <2>3. CASE Publish
      BY <2>3, PublishRefines, Zenon DEF L!Next
    <2>4. CASE Dequeue
      BY <2>4, DequeueRefines, Zenon DEF L!Next
    <2>5. CASE Free
      BY <2>5, FreeRefines, Zenon DEF L!Next
    <2>6. CASE CollectEnds
      BY <2>6, CollectEndsRefines, Zenon
    <2>7. CASE DeviceTake
      BY <2>7, DeviceTakeRefines, Zenon DEF L!Next
    <2>8. CASE \E h \in held : DeviceUse(h)
      BY <2>8, DeviceUseRefines, Zenon DEF L!Next
    <2>9. CASE UNCHANGED vars
      BY <2>9, StutterRefines, Zenon
    <2> QED BY <2>1, <2>2, <2>3, <2>4, <2>5, <2>6, <2>7, <2>8, <2>9, Zenon DEF Next
  <1> QED BY <1>1, <1>2, IndInvariant, PTL DEF Spec, ImplementsLending, L!Spec
=============================================================================
