-------------------------- MODULE VirtioBlockProofs --------------------------
(* Proofs about VirtioBlock, for any finite set of tasks and any queue size. *)
EXTENDS VirtioBlock, SequenceTheorems, FiniteSetTheorems, TLAPS

Batches == {Buffers(t) : t \in Task}

(* Buffers of different tasks differ, and the footer comes last. *)
LEMMA BuffersFacts ==
    ASSUME NEW t \in Task
    PROVE  /\ Len(Buffers(t)) = 3
           /\ Buffers(t)[1][1] = t /\ Buffers(t)[3] = <<t, "footer">> /\ Buffers(t)[3][1] = t
           /\ \A u \in Task : Buffers(u) = Buffers(t) => u = t
           /\ Buffers(t) # <<>>
  BY Zenon DEF Buffers

(* Tail on the tuples that back can be. *)
LEMMA TailTuple ==
    /\ \A a, b, c : Tail(<<a, b, c>>) = <<b, c>> /\ Head(<<a, b, c>>) = a
    /\ \A a, b : Tail(<<a, b>>) = <<b>> /\ Head(<<a, b>>) = a
    /\ \A a : Tail(<<a>>) = <<>> /\ Head(<<a>>) = a
  OBVIOUS

(* back shrinks from the three buffers of a task to its footer, and then to nothing. *)
LEMMA RestFacts ==
    ASSUME NEW t \in Task, NEW b \in Rest(t)
    PROVE  /\ b # <<>> /\ <<t, "footer">> \in Elems(b)
           /\ \/ Head(b)[2] # "footer" /\ Tail(b) \in Rest(t)
              \/ Head(b) = <<t, "footer">> /\ Tail(b) = <<>>
           /\ \A u \in Task : b \in Rest(u) => u = t
  <1>1. CASE b = Buffers(t)
    BY <1>1, TailTuple DEF Rest, Buffers, Elems
  <1>2. CASE b = <<<<t, "body">>, <<t, "footer">>>>
    BY <1>2, TailTuple DEF Rest, Buffers, Elems
  <1>3. CASE b = <<<<t, "footer">>>>
    BY <1>3, TailTuple DEF Rest, Buffers, Elems
  <1> QED BY <1>1, <1>2, <1>3, Zenon DEF Rest

(* What Append and Tail do to the elements of a sequence without repetitions. *)
LEMMA AppendElems ==
    ASSUME NEW S, NEW s \in Seq(S), NEW x \in S, Once(s), x \notin Elems(s)
    PROVE  /\ Append(s, x) \in Seq(S) /\ Once(Append(s, x))
           /\ Elems(Append(s, x)) = Elems(s) \cup {x}
  <1> DEFINE a == Append(s, x)
             n == Len(s)
  <1>1. /\ a \in Seq(S) /\ n \in Nat /\ DOMAIN a = 1 .. n + 1 /\ DOMAIN s = 1 .. n
        /\ \A i \in 1 .. n : a[i] = s[i]
        /\ a[n + 1] = x
    BY AppendProperties, LenProperties
  <1> HIDE DEF a, n
  <1>2. Elems(a) = Elems(s) \cup {x}
    BY <1>1 DEF Elems
  <1>3. Once(a)
    BY <1>1 DEF Elems, Once
  <1> QED BY <1>1, <1>2, <1>3, Zenon DEF a

LEMMA TailElems ==
    ASSUME NEW S, NEW s \in Seq(S), s # <<>>, Once(s)
    PROVE  /\ Tail(s) \in Seq(S) /\ Once(Tail(s)) /\ Head(s) \in Elems(s)
           /\ Elems(Tail(s)) = Elems(s) \ {Head(s)}
  <1> DEFINE a == Tail(s)
             n == Len(s)
  <1>1. /\ a \in Seq(S) /\ n \in Nat \ {0} /\ DOMAIN a = 1 .. n - 1 /\ DOMAIN s = 1 .. n
        /\ \A i \in 1 .. n - 1 : a[i] = s[i + 1]
        /\ Head(s) = s[1]
    BY HeadTailProperties, LenProperties, EmptySeq
  <1> HIDE DEF a, n
  <1>2. Elems(a) = Elems(s) \ {s[1]}
    <2>1. ASSUME NEW y \in Elems(a) PROVE y \in Elems(s) \ {s[1]}
      <3>1. PICK i \in 1 .. n - 1 : y = a[i]
        BY <1>1, <2>1, Zenon DEF Elems
      <3>2. i + 1 \in 1 .. n /\ 1 \in 1 .. n /\ y = s[i + 1]
        BY <1>1, <3>1
      <3>3. i + 1 # 1
        BY <3>1
      <3> QED BY <1>1, <3>2, <3>3, Zenon DEF Elems, Once
    <2>2. ASSUME NEW y \in Elems(s), y # s[1] PROVE y \in Elems(a)
      <3>1. PICK i \in 1 .. n : y = s[i]
        BY <1>1, <2>2, Zenon DEF Elems
      <3>2. i # 1 /\ i - 1 \in 1 .. n - 1 /\ a[i - 1] = s[i]
        BY <1>1, <2>2, <3>1
      <3> QED BY <1>1, <3>1, <3>2, Zenon DEF Elems
    <2> QED BY <2>1, <2>2, Zenon
  <1>3. Once(a)
    <2> SUFFICES ASSUME NEW i \in 1 .. n - 1, NEW j \in 1 .. n - 1, a[i] = a[j] PROVE i = j
      BY <1>1, Zenon DEF Once
    <2>1. i + 1 \in 1 .. n /\ j + 1 \in 1 .. n /\ s[i + 1] = s[j + 1]
      BY <1>1
    <2>2. i + 1 = j + 1
      BY <1>1, <2>1, Zenon DEF Once
    <2> QED BY <2>2
  <1>4. Head(s) \in Elems(s)
    BY <1>1 DEF Elems
  <1> QED BY <1>1, <1>2, <1>3, <1>4, Zenon DEF a

(* What Tail leaves of a sequence. *)
LEMMA TailCovers ==
    ASSUME NEW S, NEW s \in Seq(S), s # <<>>
    PROVE  Tail(s) \in Seq(S) /\ Elems(s) \subseteq Elems(Tail(s)) \cup {Head(s)}
  <1> DEFINE a == Tail(s)
             n == Len(s)
  <1>1. /\ a \in Seq(S) /\ n \in Nat \ {0} /\ DOMAIN a = 1 .. n - 1 /\ DOMAIN s = 1 .. n
        /\ \A i \in 1 .. n - 1 : a[i] = s[i + 1]
        /\ Head(s) = s[1]
    BY HeadTailProperties, LenProperties, EmptySeq
  <1> HIDE DEF a, n
  <1>2. ASSUME NEW i \in 1 .. n, i # 1 PROVE s[i] \in Elems(a)
    <2>1. i - 1 \in 1 .. n - 1 /\ a[i - 1] = s[i]
      BY <1>1, <1>2
    <2> QED BY <1>1, <2>1, Zenon DEF Elems
  <1> QED BY <1>1, <1>2, Zenon DEF Elems, a

(* The number of free descriptors is a number. *)
LEMMA FreeType == TypeOK => VQ!Free \in Int
  <1> SUFFICES ASSUME TypeOK PROVE VQ!Free \in Int
    BY Zenon
  <1>1. VQ!Away \subseteq Task \X Part
    <2>1. \A bs \in Batches : VQ!Elems(bs) \subseteq Task \X Part
      BY DEF Batches, Buffers, VQ!Elems, Part
    <2>2. VQ!Elems(offered) \cup held \cup VQ!Elems(done) \subseteq Batches
      BY DEF TypeOK, Batches, VQ!Elems
    <2>3. VQ!Elems(back) \subseteq Task \X Part
      BY DEF TypeOK, VQ!Elems
    <2> QED BY <2>1, <2>2, <2>3, Zenon DEF VQ!Away
  <1>2. IsFiniteSet(Part)
    <2>1. Part = ({"header"} \cup {"body"}) \cup {"footer"}
      BY Zenon DEF Part
    <2> QED BY <2>1, FS_Singleton, FS_AddElement, Zenon
  <1>3. IsFiniteSet(VQ!Away)
    BY <1>1, <1>2, VirtioBlockAssumption, FS_Product, FS_Subset, Zenon
  <1>4. VQ!Cardinality(VQ!Away) = Cardinality(VQ!Away)
    BY Zenon DEF VQ!Cardinality, Cardinality
  <1> QED BY <1>3, <1>4, FS_CardinalityType, VirtioBlockAssumption DEF VQ!Free

(* A task that is awake has a state the scheduler can keep. *)
LEMMA AwakeType == WC!Awake \in WC!Waiting
  BY Zenon DEF WC!Awake, WC!Waiting

(* A task that sleeps waits for descriptors or for its own answer. *)
LEMMA ChanFacts ==
    ASSUME Discipline, NEW t \in Task
    PROVE  \/ wait[t] = WC!Awake /\ wait[t].chan = None
           \/ pc[t] = "lock" /\ wait[t].chan = Queue
           \/ pc[t] = "return" /\ wait[t].chan = t
  <1>1. \/ wait[t] = WC!Awake
        \/ pc[t] = "lock" /\ wait[t] = [chan |-> Queue, timed |-> FALSE]
        \/ pc[t] = "return" /\ wait[t] = [chan |-> t, timed |-> FALSE]
    BY Zenon DEF Discipline
  <1>2. \A c : [chan |-> c, timed |-> FALSE].chan = c
    BY Zenon
  <1> QED BY <1>1, <1>2, Zenon DEF WC!Awake

(* The driver starts in a state of the inductive invariant. *)
LEMMA BlockInit == Init => IndInv
  <1> SUFFICES ASSUME Init PROVE IndInv
    BY Zenon
  <1> USE VirtioBlockAssumption DEF Init, VQ!Init, WC!Init
  <1>1. TypeOK
    <2>1. /\ offered \in Seq({Buffers(t) : t \in Task}) /\ done \in Seq({Buffers(t) : t \in Task})
          /\ back \in Seq(Task \X Part) /\ held = {}
      OBVIOUS
    <2> QED BY <2>1, AwakeType, Zenon DEF TypeOK
  <1>2. Discipline
    BY Zenon DEF Discipline
  <1>3. Elems(offered) = {} /\ Elems(done) = {} /\ Once(offered) /\ Once(done)
    BY DEF Elems, Once
  <1>4. InOnePlace
    BY <1>3, RestFacts, Zenon DEF InOnePlace, Given, Pending
  <1>5. AnsweredByDevice /\ NoLostWakeup
    BY Zenon DEF AnsweredByDevice, NoLostWakeup, WC!Awake
  <1> QED BY <1>1, <1>2, <1>4, <1>5, Zenon DEF IndInv

(* What only depends on the queue does not change with the rest. *)
LEMMA QueueUnchanged ==
    ASSUME UNCHANGED queueVars
    PROVE  /\ VQ!Free' = VQ!Free /\ VQ!Away' = VQ!Away
           /\ \A t \in Task : Given(t)' = Given(t)
  BY Zenon DEF queueVars, VQ!Free, VQ!Away, VQ!Elems, Given, Elems, Buffers

(* A step that leaves the queue and the standing of all requests alone       *)
(* leaves each request in its place.                                         *)
LEMMA PlacesKept ==
    ASSUME InOnePlace, UNCHANGED queueVars,
           back # <<>> /\ pc[Irq] = "collect" => pc'[Irq] = "collect",
           \A t \in Task : Pending(t)' <=> Pending(t),
           \A t \in Task : footer[t] # "new" /\ Pending(t) => footer'[t] # "new"
    PROVE  InOnePlace'
  <1>1. \A t \in Task : (Buffers(t) \in Elems(done))' => Pending(t) /\ footer[t] # "new"
    BY Zenon DEF InOnePlace, Given, queueVars
  <1>2. \A t \in Task : (back \in Rest(t))' => back \in Rest(t) /\ Pending(t) /\ footer[t] # "new"
    BY Zenon DEF InOnePlace, queueVars, Rest
  <1>3. /\ \A t \in Task : Given(t)' <=> Given(t)
        /\ \A t \in Task : (back \in Rest(t))' <=> back \in Rest(t)
    BY QueueUnchanged, Zenon DEF queueVars, Rest, Buffers
  <1>4. \A t \in Task : Pending(t)' <=> (Given(t) \/ back \in Rest(t))'
    BY <1>3, Zenon DEF InOnePlace
  <1>5. back' # <<>> => pc'[Irq] = "collect" /\ \E t \in Task : (back \in Rest(t))'
    BY <1>3, Zenon DEF InOnePlace, queueVars
  <1>6. \A t \in Task : (Buffers(t) \in Elems(done) \/ back \in Rest(t))' => footer'[t] # "new"
    BY <1>1, <1>2, Zenon
  <1>7. (/\ Once(offered) /\ Once(done)
         /\ Elems(offered) \cap held = {} /\ Elems(offered) \cap Elems(done) = {}
         /\ held \cap Elems(done) = {})'
    <2>1. Elems(offered)' = Elems(offered) /\ Elems(done)' = Elems(done) /\ held' = held
      BY Zenon DEF queueVars, Elems
    <2>2. Once(offered)' /\ Once(done)'
      BY Zenon DEF InOnePlace, queueVars, Once
    <2> QED BY <2>1, <2>2, Zenon DEF InOnePlace
  <1> QED BY <1>3, <1>4, <1>5, <1>6, <1>7, Zenon DEF InOnePlace

(* The footer of a request that is under way is away. *)
LEMMA FooterAway ==
    ASSUME InOnePlace, NEW t \in Task, Pending(t)
    PROVE  <<t, "footer">> \in VQ!Away
  <1>1. \A b \in Rest(t) : <<t, "footer">> \in VQ!Elems(b)
    BY RestFacts, Zenon DEF Elems, VQ!Elems
  <1>2. Buffers(t) \in Rest(t)
    BY Zenon DEF Rest
  <1>3. \E b \in Rest(t) : b \in VQ!Elems(offered) \cup held \cup VQ!Elems(done) \cup {back}
    BY <1>2, Zenon DEF InOnePlace, Given, Elems, VQ!Elems
  <1> QED BY <1>1, <1>3, Zenon DEF VQ!Away

(* Every step of request that does not touch the queue preserves the invariant. *)
LEMMA TaskKeeps ==
    ASSUME IndInv, NEW t \in Task,
           Request(t) \/ LockQueue(t) \/ Full(t) \/ Sleep(t) \/ Notify(t) \/ Block(t)
               \/ Await(t) \/ Return(t)
    PROVE  IndInv'
  <1> USE VirtioBlockAssumption, QueueUnchanged, AwakeType
        DEF IndInv, Goto, queueVars
  <1>1. CASE Request(t)
    <2>1. TypeOK'
      BY <1>1, Zenon DEF Request, TypeOK
    <2>2. Discipline'
      BY <1>1, Zenon DEF Request, Discipline, TypeOK
    <2>3. InOnePlace'
      BY <1>1, PlacesKept, Zenon DEF Request, Discipline, TypeOK, Pending
    <2>4. AnsweredByDevice' /\ NoLostWakeup'
      BY <1>1, Zenon DEF Request, AnsweredByDevice, NoLostWakeup, TypeOK
    <2> QED BY <2>1, <2>2, <2>3, <2>4, Zenon
  <1>2. CASE LockQueue(t)
    BY <1>2, Zenon DEF LockQueue, TypeOK, Discipline, InOnePlace, AnsweredByDevice, NoLostWakeup, Pending
  <1>3. CASE Full(t)
    <2>1. TypeOK'
      BY <1>3, Zenon DEF Full, TypeOK
    <2>2. VQ!Free < 3
      BY <1>3, BuffersFacts, Zenon DEF Full
    <2>3. Discipline'
      BY <1>3, <2>2, Zenon DEF Full, Discipline, TypeOK
    <2>4. InOnePlace'
      BY <1>3, PlacesKept, Zenon DEF Full, TypeOK, Pending
    <2>5. AnsweredByDevice' /\ NoLostWakeup'
      BY <1>3, Zenon DEF Full, AnsweredByDevice, NoLostWakeup, TypeOK
    <2> QED BY <2>1, <2>3, <2>4, <2>5, Zenon
  <1>4. CASE Sleep(t)
    <2>1. TypeOK'
      BY <1>4, Zenon DEF Sleep, TypeOK, WC!Block, WC!Waiting
    <2>2. Discipline'
      BY <1>4, Zenon DEF Sleep, Discipline, TypeOK, WC!Block
    <2>3. InOnePlace'
      BY <1>4, PlacesKept, Zenon DEF Sleep, TypeOK, WC!Block, Pending
    <2>4. AnsweredByDevice'
      BY <1>4, Zenon DEF Sleep, AnsweredByDevice, TypeOK, WC!Block
    <2>5. NoLostWakeup'
      BY <1>4, SMTT(20) DEF Sleep, NoLostWakeup, Discipline, TypeOK, WC!Block
    <2> QED BY <2>1, <2>2, <2>3, <2>4, <2>5, Zenon
  <1>5. CASE Notify(t)
    BY <1>5 DEF Notify, TypeOK, Discipline, InOnePlace, AnsweredByDevice, NoLostWakeup, Pending
  <1>6. CASE Block(t)
    BY <1>6, Zenon DEF Block, TypeOK, Discipline, InOnePlace, AnsweredByDevice, NoLostWakeup, Pending
  <1>7. CASE Await(t)
    <2>1. TypeOK'
      BY <1>7, Zenon DEF Await, TypeOK, WC!Block, WC!Waiting
    <2>2. Discipline'
      BY <1>7, Zenon DEF Await, Discipline, TypeOK, WC!Block
    <2>3. wait'[t] # WC!Awake /\ wait'[t].chan = t
      BY <1>7, Zenon DEF Await, TypeOK, WC!Block, WC!Awake
    <2>4. InOnePlace'
      BY <1>7, <2>3, PlacesKept, Zenon DEF Await, TypeOK, WC!Block, Pending
    <2>5. AnsweredByDevice'
      BY <1>7, <2>3, Zenon DEF Await, AnsweredByDevice, TypeOK, WC!Block
    <2>6. NoLostWakeup'
      <3>1. <<t, "footer">> \in VQ!Away
        BY <1>7, FooterAway, Zenon DEF Await, Pending
      <3> QED BY <1>7, <2>3, <3>1, Zenon DEF Await, NoLostWakeup, TypeOK, WC!Block
    <2> QED BY <2>1, <2>2, <2>4, <2>5, <2>6, Zenon
  <1>8. CASE Return(t)
    <2>1. TypeOK'
      BY <1>8, Zenon DEF Return, TypeOK
    <2>2. Discipline'
      BY <1>8, Zenon DEF Return, Discipline, TypeOK
    <2>3. InOnePlace'
      BY <1>8, PlacesKept, Zenon DEF Return, TypeOK, Pending
    <2>4. AnsweredByDevice' /\ NoLostWakeup'
      BY <1>8, Zenon DEF Return, AnsweredByDevice, NoLostWakeup, TypeOK
    <2> QED BY <2>1, <2>2, <2>3, <2>4, Zenon
  <1> QED BY <1>1, <1>2, <1>3, <1>4, <1>5, <1>6, <1>7, <1>8, Zenon

(* The transfer: the request enters the queue. *)
LEMMA TransferKeeps ==
    ASSUME IndInv, NEW t \in Task, Transfer(t)
    PROVE  IndInv'
  <1> USE VirtioBlockAssumption DEF IndInv
  <1>1. /\ pc[t] = "transfer" /\ lock = t /\ pc[Irq] # "collect" /\ back = <<>>
        /\ VQ!Free >= 3
        /\ offered' = Append(offered, Buffers(t)) /\ UNCHANGED <<held, done, back>>
        /\ pc' = [pc EXCEPT ![t] = "notify"]
        /\ UNCHANGED <<lock, queue, wait, footer, notified, irq>>
    BY BuffersFacts, Zenon DEF Transfer, VQ!Give, Discipline, Goto, InOnePlace
  <1>2. ~Pending(t) /\ ~Given(t)
    BY <1>1, Zenon DEF Pending, InOnePlace
  <1>3. ~(\E u \in Task : pc[u] = "sleep" \/ wait[u].chan = Queue)
    BY <1>1, FreeType DEF Discipline, NoLostWakeup
  <1>4. /\ offered' \in Seq({Buffers(u) : u \in Task}) /\ Once(offered')
        /\ Elems(offered') = Elems(offered) \cup {Buffers(t)}
    BY <1>1, <1>2, AppendElems DEF TypeOK, InOnePlace, Given
  <1>5. /\ \A u \in Task : Given(u)' <=> Given(u) \/ u = t
        /\ Elems(done') = Elems(done) /\ held' = held /\ Once(done') /\ back' = back
        /\ Elems(offered') \cap held' = {} /\ Elems(offered') \cap Elems(done') = {}
        /\ held' \cap Elems(done') = {}
    <2>1. held' = held /\ done' = done /\ back' = back
      BY <1>1, Zenon
    <2>2. \A u \in Task : Given(u)' <=> Buffers(u) \in Elems(offered') \cup held \cup Elems(done)
      BY <2>1, Zenon DEF Given, Buffers, Elems
    <2>3. \A u \in Task : Given(u)' <=> Given(u) \/ u = t
      BY <1>4, <2>2, BuffersFacts, Zenon DEF Given
    <2> QED BY <1>2, <1>4, <2>1, <2>3, Zenon DEF InOnePlace, Given
  <1>6. \A u \in Task : u # t => (Pending(u)' <=> Pending(u))
    BY <1>1, Zenon DEF Pending, TypeOK
  <1>7. Pending(t)' /\ pc'[Irq] = pc[Irq]
    BY <1>1, Zenon DEF Pending, TypeOK
  <1>8. TypeOK'
    BY <1>1, <1>4, Zenon DEF TypeOK
  <1>9. Discipline'
    BY <1>1, <1>3, Zenon DEF Discipline, TypeOK
  <1>10. InOnePlace'
    <2>1. \A u \in Task : back' \notin Rest(u)'
      BY <1>1, RestFacts, Zenon DEF Rest, Buffers
    <2>2. \A u \in Task : Pending(u)' <=> Given(u)' \/ (back \in Rest(u))'
      BY <1>5, <1>6, <1>7, <1>1, <2>1, RestFacts, Zenon DEF InOnePlace
    <2>3. \A u \in Task : (Buffers(u) \in Elems(done))' => footer'[u] # "new"
      BY <1>1, <1>5, Zenon DEF InOnePlace, Buffers
    <2> QED BY <1>1, <1>4, <1>5, <2>1, <2>2, <2>3, Zenon DEF InOnePlace
  <1>11. AnsweredByDevice'
    BY <1>1, Zenon DEF AnsweredByDevice, TypeOK
  <1>12. NoLostWakeup'
    <2>1. VQ!Away \subseteq VQ!Away'
      <3>1. VQ!Elems(offered') = Elems(offered') /\ VQ!Elems(offered) = Elems(offered)
        BY Zenon DEF VQ!Elems, Elems
      <3>2. VQ!Elems(offered) \subseteq VQ!Elems(offered')
        BY <1>4, <3>1, Zenon
      <3> HIDE <3>1
      <3> QED BY <1>1, <3>2 DEF VQ!Away
    <2> QED BY <1>1, <1>3, <1>7, <2>1, Zenon DEF NoLostWakeup
  <1> QED BY <1>8, <1>9, <1>10, <1>11, <1>12, Zenon

(* The steps of the handler that do not touch the queue, and of the device. *)
LEMMA HandlerKeeps ==
    ASSUME IndInv, Interrupt \/ Collect \/ Release \/ Unlock \/ DeviceIdle
    PROVE  IndInv'
  <1> USE VirtioBlockAssumption, QueueUnchanged, AwakeType DEF IndInv, Goto, queueVars
  <1>1. CASE Interrupt
    BY <1>1, Zenon DEF Interrupt, TypeOK, Discipline, InOnePlace, AnsweredByDevice, NoLostWakeup, Pending
  <1>2. CASE Collect
    BY <1>2, Zenon DEF Collect, TypeOK, Discipline, InOnePlace, AnsweredByDevice, NoLostWakeup, Pending
  <1>3. CASE Release
    <2>1. /\ \A t \in Task : wait'[t] = IF wait[t].chan = Queue THEN WC!Awake ELSE wait[t]
          /\ wait' \in [Task -> WC!Waiting]
      BY <1>3, Zenon DEF Release, WC!Release, TypeOK
    <2>2. \A t \in Task : wait[t].chan = Queue => pc[t] = "lock"
      BY ChanFacts, Zenon
    <2>3. TypeOK'
      BY <1>3, <2>1, Zenon DEF Release, TypeOK
    <2>4. Discipline'
      BY <1>3, <2>1, Zenon DEF Release, Discipline, TypeOK
    <2>5. InOnePlace'
      BY <1>3, <2>1, <2>2, PlacesKept, Zenon DEF Release, TypeOK, Pending
    <2>6. AnsweredByDevice'
      BY <1>3, <2>1, <2>2, Zenon DEF Release, AnsweredByDevice, TypeOK
    <2>7. \A t \in Task : wait'[t].chan # Queue /\ (wait'[t].chan = t => wait[t].chan = t)
      BY <2>1 DEF WC!Awake
    <2>8. NoLostWakeup'
      BY <1>3, <2>7, Zenon DEF Release, NoLostWakeup
    <2> QED BY <2>3, <2>4, <2>5, <2>6, <2>8, Zenon
  <1>4. CASE Unlock
    BY <1>4, Zenon DEF Unlock, TypeOK, Discipline, InOnePlace, AnsweredByDevice, NoLostWakeup, Pending
  <1>5. CASE DeviceIdle
    BY <1>5, ZenonT(40) DEF DeviceIdle, TypeOK, Discipline, InOnePlace, AnsweredByDevice, NoLostWakeup, Pending
  <1> QED BY <1>1, <1>2, <1>3, <1>4, <1>5, Zenon

(* A request that changes its place on the device's side stays given. *)
LEMMA SameAway ==
    ASSUME Elems(offered') \cup held' \cup Elems(done') = Elems(offered) \cup held \cup Elems(done),
           back' = back
    PROVE  /\ VQ!Away' = VQ!Away /\ VQ!Free' = VQ!Free
           /\ \A u \in Task : Given(u)' <=> Given(u)
  <1>1. \A s : VQ!Elems(s) = Elems(s)
    BY Zenon DEF VQ!Elems, Elems
  <1>2. VQ!Away' = UNION {VQ!Elems(bs) : bs \in Elems(offered') \cup held' \cup Elems(done') \cup {back'}}
    BY <1>1, Zenon DEF VQ!Away
  <1>3. VQ!Away = UNION {VQ!Elems(bs) : bs \in Elems(offered) \cup held \cup Elems(done) \cup {back}}
    BY <1>1, Zenon DEF VQ!Away
  <1>4. VQ!Away' = VQ!Away
    BY <1>2, <1>3, Zenon
  <1>5. VQ!Free' = VQ!Free
    BY <1>4, Zenon DEF VQ!Free
  <1>6. \A u \in Task : Given(u)' <=> Buffers(u) \in Elems(offered') \cup held' \cup Elems(done')
    BY Zenon DEF Given, Buffers, Elems
  <1> QED BY <1>4, <1>5, <1>6, Zenon DEF Given

(* The device takes a request, or finishes one and writes its footer. *)
LEMMA DeviceKeeps ==
    ASSUME IndInv, DeviceTake \/ \E bs \in held, s \in Status : DeviceUse(bs, s)
    PROVE  IndInv'
  <1> USE VirtioBlockAssumption DEF IndInv
  <1>1. CASE DeviceTake
    <2>1. /\ offered # <<>> /\ held' = held \cup {Head(offered)} /\ offered' = Tail(offered)
          /\ UNCHANGED <<done, back, lock, queue, wait, pc, footer, notified, irq>>
      BY <1>1, Zenon DEF DeviceTake, VQ!Take
    <2>2. /\ offered' \in Seq({Buffers(u) : u \in Task}) /\ Once(offered')
          /\ Elems(offered') = Elems(offered) \ {Head(offered)}
          /\ Head(offered) \in Elems(offered)
      BY <2>1, TailElems, Zenon DEF TypeOK, InOnePlace
    <2>3. Elems(offered) \subseteq {Buffers(u) : u \in Task} /\ Elems(done') = Elems(done)
      BY <2>1 DEF TypeOK, Elems
    <2>4. /\ VQ!Away' = VQ!Away /\ VQ!Free' = VQ!Free
          /\ \A u \in Task : Given(u)' <=> Given(u)
      <3>1. Elems(offered') \cup held' \cup Elems(done') = Elems(offered) \cup held \cup Elems(done)
        BY <2>1, <2>2, <2>3, Zenon
      <3> QED BY <2>1, <3>1, SameAway, Zenon
    <2>5. TypeOK'
      BY <2>1, <2>2, <2>3, Zenon DEF TypeOK
    <2>6. Discipline' /\ AnsweredByDevice' /\ NoLostWakeup'
      BY <2>1, <2>4, Zenon DEF Discipline, AnsweredByDevice, NoLostWakeup
    <2>7. InOnePlace'
      <3>1. (/\ Once(offered) /\ Once(done)
             /\ Elems(offered) \cap held = {} /\ Elems(offered) \cap Elems(done) = {}
             /\ held \cap Elems(done) = {})'
        BY <2>1, <2>2, <2>3, Zenon DEF InOnePlace
      <3>2. \A u \in Task : (Pending(u)' <=> Pending(u)) /\ ((back \in Rest(u))' <=> back \in Rest(u))
        BY <2>1, Zenon DEF Pending, Rest, Buffers
      <3>3. \A u \in Task : (Buffers(u) \in Elems(done))' <=> Buffers(u) \in Elems(done)
        BY <2>1, Zenon DEF Elems, Buffers
      <3> QED BY <2>1, <2>4, <3>1, <3>2, <3>3, Zenon DEF InOnePlace
    <2> QED BY <2>5, <2>6, <2>7, Zenon
  <1>2. CASE \E bs \in held, s \in Status : DeviceUse(bs, s)
    <2>1. PICK t \in Task, s \in Status :
            /\ Buffers(t) \in held /\ held' = held \ {Buffers(t)} /\ done' = Append(done, Buffers(t))
            /\ footer' = [footer EXCEPT ![t] = s] /\ irq' = TRUE
            /\ UNCHANGED <<offered, back, lock, queue, wait, pc, notified>>
      <3>1. PICK bs \in held, s \in Status : DeviceUse(bs, s)
        BY <1>2, Zenon
      <3>2. PICK t \in Task : bs = Buffers(t)
        BY Zenon DEF TypeOK
      <3>3. bs[3][1] = t
        BY <3>2, BuffersFacts, Zenon
      <3> QED BY <3>1, <3>2, <3>3, Zenon DEF DeviceUse, VQ!Finish
    <2>2. /\ done' \in Seq({Buffers(u) : u \in Task}) /\ Once(done')
          /\ Elems(done') = Elems(done) \cup {Buffers(t)}
      BY <2>1, AppendElems DEF TypeOK, InOnePlace
    <2>3. Elems(offered') = Elems(offered)
      BY <2>1, Zenon DEF Elems
    <2>4. /\ VQ!Away' = VQ!Away /\ VQ!Free' = VQ!Free
          /\ \A u \in Task : Given(u)' <=> Given(u)
      <3>1. Elems(offered') \cup held' \cup Elems(done') = Elems(offered) \cup held \cup Elems(done)
        BY <2>1, <2>2, <2>3, Zenon
      <3> QED BY <2>1, <3>1, SameAway, Zenon
    <2>5. s # "new" /\ \A u \in Task : footer[u] # "new" => footer'[u] # "new"
      BY <2>1, Zenon DEF Status, TypeOK
    <2>6. TypeOK'
      BY <2>1, <2>2, <2>3, Zenon DEF TypeOK
    <2>7. Discipline' /\ AnsweredByDevice' /\ NoLostWakeup'
      BY <2>1, <2>4, <2>5, Zenon DEF Discipline, AnsweredByDevice, NoLostWakeup
    <2>8. InOnePlace'
      <3>1. (/\ Once(offered) /\ Once(done)
             /\ Elems(offered) \cap held = {} /\ Elems(offered) \cap Elems(done) = {}
             /\ held \cap Elems(done) = {})'
        BY <2>1, <2>2, <2>3, Zenon DEF InOnePlace
      <3>2. \A u \in Task : (Pending(u)' <=> Pending(u)) /\ ((back \in Rest(u))' <=> back \in Rest(u))
        BY <2>1, Zenon DEF Pending, Rest, Buffers
      <3>3. \A u \in Task : (Buffers(u) \in Elems(done))' => Buffers(u) \in Elems(done) \/ u = t
        BY <2>2, BuffersFacts, Zenon DEF Buffers
      <3>4. footer'[t] # "new"
        BY <2>1, <2>5, Zenon DEF TypeOK
      <3> QED BY <2>1, <2>4, <2>5, <3>1, <3>2, <3>3, <3>4, Zenon DEF InOnePlace
    <2> QED BY <2>6, <2>7, <2>8, Zenon
  <1> QED BY <1>1, <1>2, Zenon

(* The handler takes a finished request out of the used ring. *)
LEMMA DequeueKeeps ==
    ASSUME IndInv, Dequeue
    PROVE  IndInv'
  <1> USE VirtioBlockAssumption DEF IndInv
  <1>1. /\ pc[Irq] = "collect" /\ done # <<>> /\ back = <<>>
        /\ back' = Head(done) /\ done' = Tail(done)
        /\ UNCHANGED <<offered, held, lock, queue, wait, pc, footer, notified, irq>>
    BY Zenon DEF Dequeue, VQ!Collect
  <1>2. /\ done' \in Seq({Buffers(u) : u \in Task}) /\ Once(done')
        /\ Elems(done') = Elems(done) \ {Head(done)} /\ Head(done) \in Elems(done)
    BY <1>1, TailElems, Zenon DEF TypeOK, InOnePlace
  <1>3. PICK t \in Task : Head(done) = Buffers(t)
    BY <1>2 DEF TypeOK, Elems
  <1>4. Elems(offered') = Elems(offered) /\ held' = held
    BY <1>1, Zenon DEF Elems
  <1>5. \A u \in Task : Given(u)' <=> Given(u) /\ u # t
    <2>1. \A u \in Task : Given(u)' <=> Buffers(u) \in Elems(offered') \cup held' \cup Elems(done')
      BY Zenon DEF Given, Buffers, Elems
    <2> QED BY <1>2, <1>3, <1>4, <2>1, BuffersFacts DEF Given, InOnePlace
  <1>6. \A u \in Task : back' \in Rest(u) <=> u = t
    BY <1>1, <1>3, RestFacts, Zenon DEF Rest
  <1>7. \A u \in Task : back \notin Rest(u)
    BY <1>1, RestFacts, Zenon
  <1>8. TypeOK'
    <2>1. Buffers(t) \in Seq(Task \X Part)
      BY DEF Buffers, Part
    <2> QED BY <1>1, <1>2, <1>3, <2>1, Zenon DEF TypeOK
  <1>9. Discipline' /\ AnsweredByDevice'
    BY <1>1, Zenon DEF Discipline, AnsweredByDevice
  <1>10. InOnePlace'
    <2>1. (/\ Once(offered) /\ Once(done)
           /\ Elems(offered) \cap held = {} /\ Elems(offered) \cap Elems(done) = {}
           /\ held \cap Elems(done) = {})'
      BY <1>1, <1>2, <1>4, Zenon DEF InOnePlace
    <2>2. \A u \in Task : (back \in Rest(u))' <=> back' \in Rest(u)
      BY Zenon DEF Rest, Buffers
    <2>3. \A u \in Task : Pending(u)' <=> Pending(u)
      BY <1>1, Zenon DEF Pending
    <2>4. \A u \in Task : Pending(u)' <=> Given(u)' \/ (back \in Rest(u))'
      BY <1>2, <1>3, <1>5, <1>6, <1>7, <2>2, <2>3, Zenon DEF InOnePlace, Given
    <2>5. \A u \in Task : (Buffers(u) \in Elems(done))' \/ (back \in Rest(u))' => footer'[u] # "new"
      <3>1. \A u \in Task : (Buffers(u) \in Elems(done))' => Buffers(u) \in Elems(done)
        BY <1>2, Zenon DEF Buffers
      <3> QED BY <1>1, <1>2, <1>3, <1>6, <2>2, <3>1, Zenon DEF InOnePlace
    <2> QED BY <1>1, <1>5, <1>6, <2>1, <2>2, <2>4, <2>5, Zenon DEF InOnePlace
  <1>11. NoLostWakeup'
    <2>1. VQ!Away \subseteq VQ!Away'
      <3>1. \A b : VQ!Elems(b) = Elems(b)
        BY Zenon DEF VQ!Elems, Elems
      <3>2. Elems(back) = {}
        BY <1>1 DEF Elems
      <3>3. Elems(offered) \cup held \cup Elems(done)
              \subseteq Elems(offered') \cup held' \cup Elems(done') \cup {back'}
        BY <1>1, <1>2, <1>4, Zenon
      <3>4. VQ!Away' = UNION {Elems(bs) : bs \in Elems(offered') \cup held' \cup Elems(done') \cup {back'}}
        BY <3>1, Zenon DEF VQ!Away
      <3>5. VQ!Away = UNION {Elems(bs) : bs \in Elems(offered) \cup held \cup Elems(done) \cup {back}}
        BY <3>1, Zenon DEF VQ!Away
      <3> QED BY <3>2, <3>3, <3>4, <3>5
    <2> QED BY <1>1, <2>1, Zenon DEF NoLostWakeup
  <1> QED BY <1>8, <1>9, <1>10, <1>11, Zenon

(* The handler hands back a descriptor, with the footer the request's task. *)
LEMMA FreeKeeps ==
    ASSUME IndInv, Free
    PROVE  IndInv'
  <1> USE VirtioBlockAssumption, AwakeType DEF IndInv
  <1>1. /\ pc[Irq] = "collect" /\ lock = Irq /\ back # <<>> /\ back' = Tail(back)
        /\ IF Head(back)[2] = "footer" THEN queue = None /\ WC!Release(Head(back)[1])
           ELSE UNCHANGED wait
        /\ UNCHANGED <<offered, held, done, lock, queue, pc, footer, notified, irq>>
    BY Zenon DEF Free, VQ!HandBack, Discipline
  <1>2. PICK t \in Task : back \in Rest(t)
    BY <1>1, Zenon DEF InOnePlace
  <1>3. /\ \A u \in Task : Given(u)' <=> Given(u)
        /\ \A u \in Task : (back \in Rest(u))' <=> back' \in Rest(u)
        /\ \A u \in Task : (Buffers(u) \in Elems(done))' <=> Buffers(u) \in Elems(done)
    BY <1>1, Zenon DEF Given, Rest, Buffers, Elems
  <1>4. (/\ Once(offered) /\ Once(done)
         /\ Elems(offered) \cap held = {} /\ Elems(offered) \cap Elems(done) = {}
         /\ held \cap Elems(done) = {})'
    <2>1. Elems(offered)' = Elems(offered) /\ Elems(done)' = Elems(done) /\ held' = held
      BY <1>1, Zenon DEF Elems
    <2>2. Once(offered)' /\ Once(done)'
      BY <1>1, Zenon DEF InOnePlace, Once
    <2> QED BY <2>1, <2>2, Zenon DEF InOnePlace
  <1>5. back' \in Seq(Task \X Part)
    BY <1>1, TailCovers, Zenon DEF TypeOK
  <1>6. VQ!Away \subseteq VQ!Away' \cup {Head(back)}
    <2>1. VQ!Elems(back) \subseteq VQ!Elems(back') \cup {Head(back)}
      <3>1. \A s : VQ!Elems(s) = Elems(s)
        BY Zenon DEF VQ!Elems, Elems
      <3> QED BY <1>1, <3>1, TailCovers, Zenon DEF TypeOK
    <2> DEFINE rest == VQ!Elems(offered) \cup held \cup VQ!Elems(done)
    <2>2. /\ VQ!Away = UNION {VQ!Elems(bs) : bs \in rest \cup {back}}
          /\ VQ!Away' = UNION {VQ!Elems(bs) : bs \in rest \cup {back'}}
      <3>1. offered' = offered /\ held' = held /\ done' = done
        BY <1>1
      <3> QED BY <3>1 DEF VQ!Away
    <2> HIDE DEF rest
    <2>3. ASSUME NEW x, \E bs \in rest \cup {back} : x \in VQ!Elems(bs), x # Head(back)
          PROVE  \E bs \in rest \cup {back'} : x \in VQ!Elems(bs)
      BY <2>1, <2>3, Zenon
    <2> QED BY <2>2, <2>3, Zenon
  <1>7. \/ Head(back)[2] # "footer" /\ back' \in Rest(t)
        \/ Head(back) = <<t, "footer">> /\ Head(back)[2] = "footer" /\ Head(back)[1] = t /\ back' = <<>>
    <2>1. \/ Head(back)[2] # "footer" /\ Tail(back) \in Rest(t)
          \/ Head(back) = <<t, "footer">> /\ Tail(back) = <<>>
      BY <1>2, RestFacts, Zenon
    <2> QED BY <1>1, <2>1
  <1>8. CASE Head(back)[2] # "footer"
    <2>1. wait' = wait /\ back' \in Rest(t)
      BY <1>1, <1>8, <1>7, Zenon
    <2>2. TypeOK'
      BY <1>1, <1>5, <2>1, Zenon DEF TypeOK
    <2>3. Discipline' /\ AnsweredByDevice'
      BY <1>1, <2>1, Zenon DEF Discipline, AnsweredByDevice
    <2>4. \A u \in Task : back' \in Rest(u) <=> back \in Rest(u)
      BY <1>2, <2>1, RestFacts, Zenon
    <2>5. InOnePlace'
      BY <1>1, <1>2, <1>3, <1>4, <2>1, <2>4, Zenon DEF InOnePlace, Pending
    <2>6. NoLostWakeup'
      BY <1>1, <1>6, <1>8, <2>1, SMTT(20) DEF NoLostWakeup
    <2> QED BY <2>2, <2>3, <2>5, <2>6, Zenon
  <1>9. CASE Head(back)[2] = "footer"
    <2>1. /\ Head(back) = <<t, "footer">> /\ back' = <<>> /\ queue = None
          /\ wait' = [u \in Task |-> IF wait[u].chan = t THEN WC!Awake ELSE wait[u]]
      BY <1>1, <1>9, <1>7, Zenon DEF WC!Release
    <2>2. /\ pc[t] = "return" /\ wait[t].chan = t /\ ~Given(t) /\ footer[t] # "new"
      <3>1. Pending(t) /\ ~Given(t) /\ footer[t] # "new"
        BY <1>2, Zenon DEF InOnePlace
      <3>2. pc[t] \notin {"notify", "block", "await"}
        BY <1>1, <2>1, Zenon DEF Discipline
      <3>3. pc[t] = "return" /\ wait[t] # WC!Awake
        BY <3>1, <3>2, Zenon DEF Pending
      <3> QED BY <3>1, <3>3, ChanFacts, Zenon
    <2>3. \A u \in Task : u # t => wait[u].chan # t
      BY ChanFacts, Zenon
    <2>4. wait'[t] = WC!Awake /\ \A u \in Task : u # t => wait'[u] = wait[u]
      BY <2>1, <2>2, <2>3, Zenon
    <2>5. TypeOK'
      BY <1>1, <1>5, <2>1, Zenon DEF TypeOK
    <2>6. Discipline' /\ AnsweredByDevice'
      BY <1>1, <2>2, <2>4, Zenon DEF Discipline, AnsweredByDevice
    <2>7. InOnePlace'
      <3>1. \A u \in Task : back' \notin Rest(u)
        BY <2>1, RestFacts, Zenon
      <3>2. \A u \in Task : u # t => back \notin Rest(u)
        BY <1>2, RestFacts, Zenon
      <3>3. \A u \in Task : u # t => (Pending(u)' <=> Pending(u))
        BY <1>1, <2>4, Zenon DEF Pending
      <3>4. ~Pending(t)'
        BY <1>1, <2>2, <2>4, Zenon DEF Pending
      <3>5. \A u \in Task : Pending(u)' <=> Given(u)' \/ (back \in Rest(u))'
        BY <1>3, <2>2, <3>1, <3>2, <3>3, <3>4, Zenon DEF InOnePlace
      <3> QED BY <1>1, <1>3, <1>4, <2>1, <3>1, <3>5, Zenon DEF InOnePlace
    <2>8. NoLostWakeup'
      <3>1. \A u \in Task : wait'[u].chan = u => u # t /\ wait[u].chan = u
        BY <2>4 DEF WC!Awake
      <3> QED BY <1>1, <1>6, <2>1, <3>1 DEF NoLostWakeup
    <2> QED BY <2>5, <2>6, <2>7, <2>8, Zenon
  <1> QED BY <1>8, <1>9, Zenon

(* Every step of the driver, of its handler and of the device preserves the  *)
(* inductive invariant.                                                      *)
LEMMA BlockStep == IndInv /\ [Next]_vars => IndInv'
  <1> SUFFICES ASSUME IndInv, [Next]_vars PROVE IndInv'
    BY Zenon
  <1>1. CASE UNCHANGED vars
    <2>1. UNCHANGED <<lock, queue, wait, pc, footer, notified, irq>> /\ UNCHANGED queueVars
      BY <1>1, Zenon DEF vars
    <2>2. InOnePlace'
      BY <2>1, PlacesKept, Zenon DEF IndInv, Pending
    <2> QED BY <2>1, <2>2, QueueUnchanged, Zenon
            DEF queueVars, IndInv, TypeOK, Discipline, AnsweredByDevice, NoLostWakeup
  <1> QED
    BY <1>1, TaskKeeps, TransferKeeps, HandlerKeeps, DequeueKeeps, FreeKeeps, DeviceKeeps, Zenon
       DEF Next, TaskStep, Handler

(* IndInv holds in every reachable state of the driver. *)
THEOREM BlockInvariance == Spec => []IndInv
  BY BlockInit, BlockStep, PTL DEF Spec

(* request never returns while the device may still read or write the        *)
(* buffers on its stack.                                                     *)
THEOREM StackOutlivesRequest == Spec => []BuffersOutliveRequest
  <1>1. IndInv => BuffersOutliveRequest
    <2> SUFFICES ASSUME IndInv, NEW bs \in Elems(offered) \cup held PROVE Pending(bs[1][1])
      BY Zenon DEF BuffersOutliveRequest, Exposed, Pending
    <2>1. PICK t \in Task : bs = Buffers(t)
      BY DEF IndInv, TypeOK, Elems
    <2>2. Pending(t)
      BY <2>1, Zenon DEF IndInv, InOnePlace, Given
    <2> QED BY <2>1, <2>2, BuffersFacts, Zenon
  <1> QED BY <1>1, BlockInvariance, PTL

(* The status that request returns was written by the device. *)
THEOREM StatusIsTheDevices == Spec => []AnsweredByDevice
  <1>1. IndInv => AnsweredByDevice
    BY Zenon DEF IndInv
  <1> QED BY <1>1, BlockInvariance, PTL

(* No task sleeps on its answer or on the queue's channel without somebody   *)
(* who has still to wake it.                                                 *)
THEOREM BlockWakeupsKept == Spec => []NoLostWakeup
  <1>1. IndInv => NoLostWakeup
    BY Zenon DEF IndInv
  <1> QED BY <1>1, BlockInvariance, PTL
=============================================================================
