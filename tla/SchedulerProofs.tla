------------------------- MODULE SchedulerProofs -------------------------
(***************************************************************************)
(* Proofs about Scheduler, for any number of CPUs, workers, channels and   *)
(* any bounds: types and control; contexts, interrupt locks, spin guards   *)
(* and time; pending ids and the places of the tasks; the inductive        *)
(* invariant IndInv of SchedulerInv, what follows from it, and the         *)
(* refinement of WaitChannels.                                             *)
(***************************************************************************)
EXTENDS SchedulerInv, SequenceTheorems, FiniteSetTheorems, TLAPS

-----------------------------------------------------------------------------
(* The run queues *)

(* A priority is a level. *)
LEMMA PriorityLevel == \A t \in Thread : Priority(t) \in Level
BY SchedulerAssumption DEF Priority, Level, Thread

(* Pushing a task that is in no queue keeps the queues well formed and adds *)
(* exactly that task.                                                       *)
LEMMA EnqueuedFacts ==
    ASSUME NEW q \in [Level -> Seq(Thread)], NEW t \in Thread
    PROVE  /\ Enqueued(q, t) \in [Level -> Seq(Thread)]
           /\ \A u \in Thread : InQ(Enqueued(q, t), u) <=> InQ(q, u) \/ u = t
           /\ QueueOK(q) /\ ~InQ(q, t) => QueueOK(Enqueued(q, t))
<1> DEFINE p == Priority(t)
           r == Enqueued(q, t)
<1>1. p \in Level
  BY PriorityLevel, Zenon
<1>2. r \in [Level -> Seq(Thread)]
  BY <1>1 DEF Enqueued
<1>3. r[p] = Append(q[p], t) /\ \A l \in Level : l # p => r[l] = q[l]
  BY <1>1, Zenon DEF Enqueued
<1>4. /\ DOMAIN r[p] = DOMAIN q[p] \cup {Len(q[p]) + 1}
      /\ Len(q[p]) + 1 \notin DOMAIN q[p]
      /\ \A i \in DOMAIN q[p] : r[p][i] = q[p][i]
      /\ r[p][Len(q[p]) + 1] = t
  BY <1>1, <1>3
<1> HIDE DEF r, p
<1>5. \A u \in Thread : InQ(r, u) <=> InQ(q, u) \/ u = t
  <2> SUFFICES ASSUME NEW u \in Thread PROVE InQ(r, u) <=> InQ(q, u) \/ u = t
    BY Zenon
  <2>1. (\E i \in DOMAIN r[p] : r[p][i] = u) <=> (\E i \in DOMAIN q[p] : q[p][i] = u) \/ u = t
    BY <1>4, Zenon
  <2>2. \A l \in Level : l # p =>
            ((\E i \in DOMAIN r[l] : r[l][i] = u) <=> (\E i \in DOMAIN q[l] : q[l][i] = u))
    BY <1>3, Zenon
  <2> QED BY <1>1, <2>1, <2>2, Zenon DEF InQ
<1>6. ASSUME QueueOK(q), ~InQ(q, t) PROVE QueueOK(r)
  <2> SUFFICES ASSUME NEW l \in Level, NEW i \in DOMAIN r[l]
               PROVE  /\ Priority(r[l][i]) = l
                      /\ \A j \in DOMAIN r[l] : r[l][i] = r[l][j] => i = j
    BY Zenon DEF QueueOK
  <2>1. CASE l # p
    BY <2>1, <1>3, <1>6, Zenon DEF QueueOK
  <2>2. CASE l = p
    <3>1. \A k \in DOMAIN q[p] : q[p][k] # t
      BY <1>6, <1>1, Zenon DEF InQ
    <3>2. Priority(r[p][i]) = p
      BY <2>2, <1>1, <1>4, <1>6, Zenon DEF QueueOK, p
    <3>3. ASSUME NEW j \in DOMAIN r[p], r[p][i] = r[p][j] PROVE i = j
      BY <2>2, <3>1, <3>3, <1>1, <1>4, <1>6, Zenon DEF QueueOK
    <3> QED BY <2>2, <3>2, <3>3, Zenon
  <2> QED BY <2>1, <2>2, Zenon
<1> QED BY <1>2, <1>5, <1>6, Zenon DEF r

(* Popping the front of a queue removes exactly that task. *)
LEMMA PoppedFacts ==
    ASSUME NEW q \in [Level -> Seq(Thread)], NEW l \in Level, q[l] # <<>>
    PROVE  /\ Head(q[l]) \in Thread
           /\ [q EXCEPT ![l] = Tail(@)] \in [Level -> Seq(Thread)]
           /\ InQ(q, Head(q[l]))
           /\ QueueOK(q) =>
                /\ QueueOK([q EXCEPT ![l] = Tail(@)])
                /\ \A u \in Thread : InQ([q EXCEPT ![l] = Tail(@)], u)
                                        <=> InQ(q, u) /\ u # Head(q[l])
<1> DEFINE h == Head(q[l])
           r == [q EXCEPT ![l] = Tail(@)]
<1>1. /\ h \in Thread /\ r \in [Level -> Seq(Thread)]
      /\ r[l] = Tail(q[l]) /\ \A m \in Level : m # l => r[m] = q[m]
  OBVIOUS
<1>2. /\ Len(q[l]) \in Nat /\ Len(q[l]) > 0
      /\ DOMAIN q[l] = 1 .. Len(q[l]) /\ DOMAIN r[l] = 1 .. (Len(q[l]) - 1)
      /\ \A i \in DOMAIN r[l] : r[l][i] = q[l][i + 1]
      /\ h = q[l][1]
  BY <1>1
<1> HIDE DEF h, r
<1>3. InQ(q, h)
  BY <1>2 DEF InQ
<1>4. ASSUME QueueOK(q) PROVE QueueOK(r)
  <2> SUFFICES ASSUME NEW m \in Level, NEW i \in DOMAIN r[m]
               PROVE  /\ Priority(r[m][i]) = m
                      /\ \A j \in DOMAIN r[m] : r[m][i] = r[m][j] => i = j
    BY Zenon DEF QueueOK
  <2>1. CASE m # l
    BY <2>1, <1>1, <1>4, Zenon DEF QueueOK
  <2>2. CASE m = l
    <3>1. i + 1 \in DOMAIN q[l] /\ \A j \in DOMAIN r[l] : j + 1 \in DOMAIN q[l]
      BY <2>2, <1>2
    <3>2. Priority(r[l][i]) = l
      BY <2>2, <3>1, <1>2, <1>4 DEF QueueOK
    <3>3. ASSUME NEW j \in DOMAIN r[l], r[l][i] = r[l][j] PROVE i = j
      <4>1. q[l][i + 1] = q[l][j + 1]
        BY <2>2, <3>3, <1>2, Zenon
      <4>2. i + 1 = j + 1
        BY <4>1, <3>1, <1>4, Zenon DEF QueueOK
      <4> QED BY <4>2, <1>2, <2>2
    <3> QED BY <2>2, <3>2, <3>3, Zenon
  <2> QED BY <2>1, <2>2, Zenon
<1>5. ASSUME QueueOK(q), NEW u \in Thread PROVE InQ(r, u) <=> InQ(q, u) /\ u # h
  <2>1. ASSUME InQ(r, u) PROVE InQ(q, u) /\ u # h
    <3>1. PICK m \in Level : \E i \in DOMAIN r[m] : r[m][i] = u
      BY <2>1, Zenon DEF InQ
    <3>2. PICK i \in DOMAIN r[m] : r[m][i] = u
      BY <3>1, Zenon
    <3>3. CASE m = l
      <4>1. i + 1 \in DOMAIN q[l] /\ q[l][i + 1] = u /\ 1 \in DOMAIN q[l] /\ i + 1 # 1
        BY <3>2, <3>3, <1>2
      <4> QED BY <4>1, <1>2, <1>5, Zenon DEF QueueOK, InQ
    <3>4. CASE m # l
      <4>1. q[m][i] = u /\ i \in DOMAIN q[m]
        BY <3>2, <3>4, <1>1, Zenon
      <4>2. Priority(u) = m /\ Priority(h) = l
        BY <4>1, <1>2, <1>5 DEF QueueOK
      <4> QED BY <4>1, <4>2, <3>4, Zenon DEF InQ
    <3> QED BY <3>3, <3>4, Zenon
  <2>2. ASSUME InQ(q, u), u # h PROVE InQ(r, u)
    <3>1. PICK m \in Level : \E i \in DOMAIN q[m] : q[m][i] = u
      BY <2>2, Zenon DEF InQ
    <3>2. PICK i \in DOMAIN q[m] : q[m][i] = u
      BY <3>1, Zenon
    <3>3. CASE m = l
      <4>1. i # 1 /\ i - 1 \in DOMAIN r[l] /\ r[l][i - 1] = u
        BY <3>2, <3>3, <2>2, <1>2, SMTT(20)
      <4> QED BY <4>1, Zenon DEF InQ
    <3>4. CASE m # l
      BY <3>2, <3>4, <1>1, Zenon DEF InQ
    <3> QED BY <3>3, <3>4, Zenon
  <2> QED BY <2>1, <2>2, Zenon
<1> QED BY <1>1, <1>3, <1>4, <1>5, Zenon DEF h, r

-----------------------------------------------------------------------------
(* Type correctness *)

(* The interrupt lock keeps its type. *)
LEMMA CliTypes ==
    ASSUME NEW k \in CliState
    PROVE  CliNew(k) \in CliState /\ CliDrop(k) \in CliState /\ Masked(k) \in CliState
           /\ Iret(k) \in CliState
<1>1. CliNew(k) \in CliState
  BY DEF CliNew, CliState
<1>2. CliDrop(k) \in CliState
  BY DEF CliDrop, CliState
<1>3. Masked(k) \in CliState
  BY Zenon DEF Masked, CliState
<1>4. Iret(k) \in CliState
  BY Zenon DEF Iret, CliState
<1> QED BY <1>1, <1>2, <1>3, <1>4, Zenon

(* So do the records that switch updates field by field. *)
LEMMA FieldTypes ==
    ASSUME NEW k \in CliState, NEW x \in Context, NEW b \in BOOLEAN
    PROVE  /\ [k EXCEPT !.intr = b] \in CliState
           /\ [x EXCEPT !.saved = b] \in Context
           /\ x.intr \in BOOLEAN
<1>1. [k EXCEPT !.intr = b] \in CliState
  BY Zenon DEF CliState
<1>2. [x EXCEPT !.saved = b] \in Context
  BY Zenon DEF Context
<1>3. x.intr \in BOOLEAN
  BY Zenon DEF Context
<1> QED BY <1>1, <1>2, <1>3, Zenon

LEMMA TypeInit == Init => TypeOK
<1> SUFFICES ASSUME Init PROVE TypeOK
  OBVIOUS
<1> USE SchedulerAssumption DEF Init
<1>1. ctx \in [Thread -> Context]
  BY DEF NewContext, Context
<1>2. op \in [Cpu -> Op] /\ cli \in [Cpu -> CliState]
  BY DEF Op, Yield, CliState
<1>3. runnable \in [Level -> Seq(Thread)]
  OBVIOUS
<1> QED BY <1>1, <1>2, <1>3 DEF TypeOK, Thread, Labels

(* Every step keeps the types. *)
LEMMA TypeStep == TypeOK /\ ControlInv /\ [Next]_vars => TypeOK'
<1> SUFFICES ASSUME TypeOK, ControlInv, [Next]_vars PROVE TypeOK'
  OBVIOUS
<1> USE SchedulerAssumption
<1>0. CASE UNCHANGED vars
  BY <1>0, Zenon DEF TypeOK, vars, queueVars, localVars
<1> SUFFICES ASSUME NEW c \in Cpu, Step(c) PROVE TypeOK'
  BY <1>0, Zenon DEF Next
<1>a. /\ c \in Thread /\ Yield \in Op
      /\ pc[c] \in HasHand => hand[c] \in Thread
      /\ pc[c] \in {"save", "restore"} => running[c] \in Thread
  BY DEF Thread, Op, Yield, TypeOK, ControlInv, ControlOf
<1>b. \A k \in CliState : /\ CliNew(k) \in CliState /\ CliDrop(k) \in CliState
                          /\ Masked(k) \in CliState /\ Iret(k) \in CliState
  BY CliTypes, Zenon
<1>1. ASSUME NEW w \in Worker, Add(c, w) PROVE TypeOK'
  <2>1. Enqueued(runnable, w) \in [Level -> Seq(Thread)]
    BY EnqueuedFacts, Zenon DEF TypeOK, Thread
  <2> QED BY <1>1, <2>1, Zenon DEF TypeOK, Add, Thread, localVars
<1>2. ASSUME NEW ch \in Chan, LockGuard(c, ch) PROVE TypeOK'
  BY <1>2, <1>b, Zenon DEF TypeOK, LockGuard, Goto, Labels, queueVars, localVars
<1>3. ASSUME NEW ch \in Chan, UnlockGuard(c, ch) PROVE TypeOK'
  BY <1>3, <1>b, Zenon DEF TypeOK, UnlockGuard, Goto, Labels, queueVars, localVars
<1>4. ASSUME Call(c) PROVE TypeOK'
  BY <1>4, <1>b DEF TypeOK, Call, Enter, Goto, Labels, queueVars
<1>5. ASSUME SchedulingOp(c) PROVE TypeOK'
  BY <1>5, <1>b, Zenon DEF TypeOK, SchedulingOp, Goto, Labels, queueVars, localVars
<1>6. ASSUME Cancel(c) PROVE TypeOK'
  BY <1>6, <1>b, <1>a, Zenon DEF TypeOK, Cancel, Install, Goto, Labels, queueVars
<1>7. ASSUME DequeueNone(c) PROVE TypeOK'
  BY <1>7, <1>b, <1>a, Zenon DEF TypeOK, DequeueNone, Install, Goto, Labels, queueVars
<1>8. ASSUME WaitSaved(c) PROVE TypeOK'
  BY <1>8, <1>b, <1>a, Zenon DEF TypeOK, WaitSaved, Install, Goto, Labels, queueVars
<1>9. ASSUME Dequeue(c) PROVE TypeOK'
  <2>1. PICK l \in Level :
          /\ IsNextLevel(c, l)
          /\ Register(c, [runnable EXCEPT ![l] = Tail(@)])
          /\ ctx' = [ctx EXCEPT ![hand[c]] = [@ EXCEPT !.saved = FALSE]]
          /\ hand' = [hand EXCEPT ![c] = Head(runnable[l])]
    BY <1>9, Zenon DEF Dequeue
  <2> DEFINE q == [runnable EXCEPT ![l] = Tail(@)]
  <2>2. Head(runnable[l]) \in Thread /\ q \in [Level -> Seq(Thread)] /\ hand[c] \in Thread
    BY <2>1, <1>9, <1>a, PoppedFacts, Zenon DEF IsNextLevel, TypeOK, Dequeue, HasHand
  <2>3. Enqueued(q, hand[c]) \in [Level -> Seq(Thread)]
    BY <2>2, EnqueuedFacts, Zenon
  <2> HIDE DEF q
  <2>4. Register(c, q)
    BY <2>1, Zenon DEF q
  <2>5. runnable' \in [Level -> Seq(Thread)]
    BY <2>2, <2>3, <2>4, Zenon DEF Register
  <2>6. pending' \in [PendingId -> Thread \cup {None}]
    BY <2>2, <2>4, Zenon DEF Register, TypeOK
  <2>7. blocks' \in [Chan -> SUBSET PendingId]
    <3>1. CASE op[c].kind = "yield"
      BY <3>1, <2>4, Zenon DEF Register, TypeOK
    <3>2. CASE op[c].kind # "yield"
      <4>1. blocks' = [ch \in Chan |->
                          IF ch = op[c].chan THEN blocks[ch] \cup {pendingIdGen} ELSE blocks[ch]]
        BY <3>2, <2>4, Zenon DEF Register
      <4>2. \A ch \in Chan : blocks[ch] \in SUBSET PendingId /\ pendingIdGen \in PendingId
        BY <3>2, <2>4, Zenon DEF Register, TypeOK
      <4> QED BY <4>1, <4>2, Zenon
    <3> QED BY <3>1, <3>2, Zenon
  <2>8. pendingIdGen' \in 0 .. MaxPending
    BY <2>4 DEF Register, TypeOK, PendingId
  <2>9. timeouts' \subseteq Timeout
    <3>1. CASE op[c].kind = "yield" \/ op[c].timeout = None
      BY <3>1, <2>4, Zenon DEF Register, TypeOK
    <3>2. CASE op[c].kind # "yield" /\ op[c].timeout # None
      <4>1. op[c].timeout \in Durations /\ op[c].chan \in Chan \cup {None}
        BY <3>2, Zenon DEF TypeOK, Op
      <4>2. Deadline(op[c].timeout) \in Nat
        <5>1. op[c].timeout \in Nat
          BY <4>1, Zenon
        <5>2. ticks \in Nat
          BY Zenon DEF TypeOK
        <5> QED BY <5>1, <5>2 DEF Deadline
      <4>4. pendingIdGen \in PendingId
        BY <3>2, <2>4, Zenon DEF Register
      <4>3. [at |-> Deadline(op[c].timeout), id |-> pendingIdGen, chan |-> op[c].chan] \in Timeout
        BY <4>1, <4>2, <4>4, Zenon DEF Timeout
      <4> QED BY <3>2, <4>3, <2>4 DEF Register, TypeOK
    <3> QED BY <3>1, <3>2, Zenon
  <2>10. ctx' \in [Thread -> Context]
    <3>1. [ctx[hand[c]] EXCEPT !.saved = FALSE] \in Context
      <4>1. ctx[hand[c]] \in Context /\ cli[c] \in CliState
        BY <2>2, Zenon DEF TypeOK
      <4> QED BY <4>1, FieldTypes, Zenon
    <3> QED BY <2>1, <2>2, <3>1, Zenon DEF TypeOK
  <2> QED BY <1>9, <2>1, <2>2, <2>5, <2>6, <2>7, <2>8, <2>9, <2>10, Zenon
             DEF Dequeue, TypeOK, Goto, Labels
<1>10. ASSUME Save(c) PROVE TypeOK'
  <2>1. SavedContext(cli[c]) \in Context
    BY Zenon DEF TypeOK, Context, CliState, SavedContext
  <2>2. [ncli |-> ctx[running[c]].ncli, zcli |-> ctx[running[c]].zcli, intr |-> cli[c].intr]
            \in CliState
    BY <1>10, <1>a, Zenon DEF Save, TypeOK, Context, CliState
  <2> QED BY <1>10, <2>1, <2>2, Zenon
             DEF TypeOK, Save, Goto, Labels, queueVars, localVars
<1>11. ASSUME Restore(c) PROVE TypeOK'
  <2>1. [cli[c] EXCEPT !.intr = ctx[running[c]].intr] \in CliState
    <3>1. ctx[running[c]] \in Context /\ cli[c] \in CliState
      BY <1>11, <1>a, Zenon DEF Restore, TypeOK
    <3> QED BY <3>1, FieldTypes, Zenon
  <2> QED BY <1>11, <1>a, <2>1, Zenon
             DEF TypeOK, Restore, Goto, Labels, queueVars, localVars
<1>12. ASSUME Leave(c) PROVE TypeOK'
  BY <1>12, <1>b, Zenon DEF TypeOK, Leave, Goto, Labels, queueVars, localVars
<1>13. ASSUME NEW ch \in Chan, Release(c, ch) PROVE TypeOK'
  BY <1>13, <1>b, Zenon DEF TypeOK, Release, StartRelease, Waiters, Goto, Labels
<1>14. ASSUME NEW ch \in Chan, DeviceInterrupt(c, ch) PROVE TypeOK'
  BY <1>14, <1>b, Zenon DEF TypeOK, DeviceInterrupt, StartRelease, Waiters, Goto, Labels
<1>15. ASSUME NEW id \in PendingId, Wake(id)
       PROVE  /\ pending' \in [PendingId -> Thread \cup {None}]
              /\ runnable' \in [Level -> Seq(Thread)]
  BY <1>15, EnqueuedFacts DEF Wake, TypeOK
<1>16. ASSUME ReleaseStep(c) PROVE TypeOK'
  BY <1>15, <1>16 DEF TypeOK, ReleaseStep
<1>17. ASSUME ReleaseEnd(c) PROVE TypeOK'
  BY <1>17, <1>b, Zenon DEF TypeOK, ReleaseEnd, Goto, Labels, queueVars, localVars
<1>18. ASSUME Timer(c) PROVE TypeOK'
  BY <1>18, <1>b DEF TypeOK, Timer, Deadline, Goto, Labels, queueVars, localVars
<1>19. ASSUME Elapse(c) PROVE TypeOK'
  BY <1>19, <1>b, Zenon DEF TypeOK, Elapse, Goto, Labels, queueVars
<1>20. ASSUME ElapseStep(c) PROVE TypeOK'
  <2>1. PICK e \in Due(c) :
          /\ Wake(e.id)
          /\ blocks' = Unregistered(e)
          /\ timeouts' = timeouts \ {e}
    BY <1>20, Zenon DEF ElapseStep
  <2>2. e.id \in PendingId
    BY Zenon DEF Due, TypeOK, Timeout
  <2>3. blocks' \in [Chan -> SUBSET PendingId]
    BY <2>1, Zenon DEF TypeOK, Unregistered
  <2> QED BY <1>15, <1>20, <2>1, <2>2, <2>3, Zenon DEF TypeOK, ElapseStep, localVars
<1>21. ASSUME ElapseEnd(c) PROVE TypeOK'
  BY <1>21, <1>b, <1>a, ZenonT(40) DEF TypeOK, ElapseEnd, Enter, Goto, Labels, queueVars
<1> QED
  BY <1>1, <1>2, <1>3, <1>4, <1>5, <1>6, <1>7, <1>8, <1>9, <1>10, <1>11, <1>12,
     <1>13, <1>14, <1>16, <1>17, <1>18, <1>19, <1>20, <1>21, Zenon
     DEF Step

-----------------------------------------------------------------------------
(* Control *)

(* Each point of switch, release and elapse finds the task, the lock and the *)
(* locals where it expects them.                                             *)
LEMMA ControlStep == TypeOK /\ ControlInv /\ PlaceInv /\ CliInv /\ [Next]_vars => ControlInv'
<1> SUFFICES ASSUME TypeOK, ControlInv, PlaceInv, CliInv, [Next]_vars PROVE ControlInv'
  OBVIOUS
<1> USE SchedulerAssumption
<1>0. CASE UNCHANGED vars
  BY <1>0, Zenon DEF ControlInv, ControlOf, vars, queueVars, localVars
<1> SUFFICES ASSUME NEW c \in Cpu, Step(c) PROVE ControlInv'
  BY <1>0, Zenon DEF Next
<1>a. /\ pc \in [Cpu -> Labels] /\ hand \in [Cpu -> Thread \cup {None}]
      /\ running \in [Cpu -> Thread \cup {None}] /\ exec \in [Cpu -> Thread]
      /\ todo \in [Cpu -> SUBSET PendingId] 
      /\ \A d \in Cpu : d # None
  BY Zenon DEF TypeOK, Thread
<1>b. /\ pc[c] \in HasLock <=> qlock = c
      /\ cli[c].intr => pc[c] = "run"
  BY Zenon DEF ControlInv, ControlOf, CliInv, CliOf
<1>c. /\ pc[c] \in Ordinary \cup {"leave"} /\ running[c] # None => running[c] \in created
      /\ pc[c] \in Ordinary /\ running[c] = None => exec[c] = c
  BY <1>a DEF ControlInv, ControlOf, PlaceInv, Held
<1>d. ASSUME NEW d \in Cpu, d # c, pc'[d] = pc[d], hand'[d] = hand[d], running'[d] = running[d],
             exec'[d] = exec[d], todo'[d] = todo[d], qlock' = d <=> qlock = d,
             d \in created' <=> d \in created
      PROVE  ControlOf(d)'
  BY <1>d DEF ControlInv, ControlOf
<1>1. ASSUME NEW w \in Worker, Add(c, w) PROVE ControlInv'
  <2>1. ControlOf(c)'
    BY <1>1, <1>a, <1>b, <1>c
       DEF ControlInv, ControlOf, HasHand, HasLock, Ordinary, Add, Goto, queueVars,
           localVars
  <2>2. ASSUME NEW d \in Cpu, d # c PROVE ControlOf(d)'
    BY <1>1, <2>2, <1>a, <1>b, <1>c, <1>d, Zenon
       DEF HasLock, Ordinary, Add, Goto, localVars
  <2> QED BY <2>1, <2>2, Zenon DEF ControlInv
<1>2. ASSUME NEW ch \in Chan, LockGuard(c, ch) PROVE ControlInv'
  <2>1. ControlOf(c)'
    BY <1>2, <1>a, <1>b, <1>c, Zenon
       DEF ControlInv, ControlOf, HasHand, HasLock, Ordinary, LockGuard, Goto,
           queueVars, localVars
  <2>2. ASSUME NEW d \in Cpu, d # c PROVE ControlOf(d)'
    BY <1>2, <2>2, <1>a, <1>b, <1>c, <1>d, Zenon
       DEF HasLock, Ordinary, LockGuard, Goto, localVars
  <2> QED BY <2>1, <2>2, Zenon DEF ControlInv
<1>3. ASSUME NEW ch \in Chan, UnlockGuard(c, ch) PROVE ControlInv'
  <2>1. ControlOf(c)'
    BY <1>3, <1>a, <1>b, <1>c, Zenon
       DEF ControlInv, ControlOf, HasHand, HasLock, Ordinary, UnlockGuard, Goto,
           queueVars, localVars
  <2>2. ASSUME NEW d \in Cpu, d # c PROVE ControlOf(d)'
    BY <1>3, <2>2, <1>a, <1>b, <1>c, <1>d, Zenon
       DEF HasLock, Ordinary, UnlockGuard, Goto, localVars
  <2> QED BY <2>1, <2>2, Zenon DEF ControlInv
<1>4. ASSUME Call(c) PROVE ControlInv'
  <2>1. ControlOf(c)'
    BY <1>4, <1>a, <1>b, <1>c, SMTT(20)
       DEF ControlInv, ControlOf, HasHand, HasLock, Ordinary, Call, Enter, Goto,
           queueVars, localVars
  <2>2. ASSUME NEW d \in Cpu, d # c PROVE ControlOf(d)'
    BY <1>4, <2>2, <1>a, <1>b, <1>c, <1>d, SMTT(20)
       DEF HasLock, Ordinary, Call, Enter, Goto, localVars
  <2> QED BY <2>1, <2>2, Zenon DEF ControlInv
<1>5. ASSUME SchedulingOp(c) PROVE ControlInv'
  <2>1. ControlOf(c)'
    BY <1>5, <1>a, <1>b, <1>c, Zenon
       DEF ControlInv, ControlOf, HasHand, HasLock, Ordinary, SchedulingOp, Goto,
           queueVars, localVars
  <2>2. ASSUME NEW d \in Cpu, d # c PROVE ControlOf(d)'
    BY <1>5, <2>2, <1>a, <1>b, <1>c, <1>d, Zenon
       DEF HasLock, Ordinary, SchedulingOp, Goto, localVars
  <2> QED BY <2>1, <2>2, Zenon DEF ControlInv
<1>6. ASSUME Cancel(c) PROVE ControlInv'
  <2>1. ControlOf(c)'
    BY <1>6, <1>a, <1>b, <1>c, Zenon
       DEF ControlInv, ControlOf, HasHand, HasLock, Ordinary, Cancel, Install, Goto,
           queueVars, localVars
  <2>2. ASSUME NEW d \in Cpu, d # c PROVE ControlOf(d)'
    BY <1>6, <2>2, <1>a, <1>b, <1>c, <1>d, Zenon
       DEF HasLock, Ordinary, Cancel, Install, Goto, localVars
  <2> QED BY <2>1, <2>2, Zenon DEF ControlInv
<1>7. ASSUME DequeueNone(c) PROVE ControlInv'
  <2>1. ControlOf(c)'
    BY <1>7, <1>a, <1>b, <1>c, Zenon
       DEF ControlInv, ControlOf, HasHand, HasLock, Ordinary, DequeueNone, Install,
           Goto, queueVars, localVars
  <2>2. ASSUME NEW d \in Cpu, d # c PROVE ControlOf(d)'
    BY <1>7, <2>2, <1>a, <1>b, <1>c, <1>d, ZenonT(40)
       DEF HasLock, Ordinary, DequeueNone, Install, Goto, localVars
  <2> QED BY <2>1, <2>2, Zenon DEF ControlInv
<1>8. ASSUME WaitSaved(c) PROVE ControlInv'
  <2>1. ControlOf(c)'
    BY <1>8, <1>a, <1>b, <1>c, SMTT(20)
       DEF ControlInv, ControlOf, HasHand, HasLock, Ordinary, WaitSaved, Install,
           Goto, queueVars, localVars
  <2>2. ASSUME NEW d \in Cpu, d # c PROVE ControlOf(d)'
    BY <1>8, <2>2, <1>a, <1>b, <1>c, <1>d, Zenon
       DEF HasLock, Ordinary, WaitSaved, Install, Goto, localVars
  <2> QED BY <2>1, <2>2, Zenon DEF ControlInv
<1>9. ASSUME Dequeue(c) PROVE ControlInv'
  <2>0. PICK l \in Level : hand' = [hand EXCEPT ![c] = Head(runnable[l])] /\ IsNextLevel(c, l)
    BY <1>9, Zenon DEF Dequeue
  <2>a. hand'[c] \in Thread
    BY <2>0, <1>a, PoppedFacts DEF IsNextLevel, TypeOK
  <2>1. ControlOf(c)'
    BY <1>9, <1>a, <1>b, <1>c, <2>a, Zenon
       DEF ControlInv, ControlOf, HasHand, HasLock, Ordinary, Dequeue, Goto,
           queueVars, localVars
  <2>2. ASSUME NEW d \in Cpu, d # c PROVE ControlOf(d)'
    BY <1>9, <2>2, <1>a, <1>b, <1>c, <1>d, Zenon
       DEF HasLock, Ordinary, Dequeue, Goto, localVars
  <2> QED BY <2>1, <2>2, Zenon DEF ControlInv
<1>10. ASSUME Save(c) PROVE ControlInv'
  <2>1. ControlOf(c)'
    BY <1>10, <1>a, <1>b, <1>c, Zenon
       DEF ControlInv, ControlOf, HasHand, HasLock, Ordinary, Save, Goto, queueVars,
           localVars
  <2>2. ASSUME NEW d \in Cpu, d # c PROVE ControlOf(d)'
    BY <1>10, <2>2, <1>a, <1>b, <1>c, <1>d, Zenon
       DEF HasLock, Ordinary, Save, Goto, localVars
  <2> QED BY <2>1, <2>2, Zenon DEF ControlInv
<1>11. ASSUME Restore(c) PROVE ControlInv'
  <2>1. ControlOf(c)'
    BY <1>11, <1>a, <1>b, <1>c, Zenon
       DEF ControlInv, ControlOf, HasHand, HasLock, Ordinary, Restore, Goto,
           queueVars, localVars
  <2>2. ASSUME NEW d \in Cpu, d # c PROVE ControlOf(d)'
    BY <1>11, <2>2, <1>a, <1>b, <1>c, <1>d, Zenon
       DEF HasLock, Ordinary, Restore, Goto, localVars
  <2> QED BY <2>1, <2>2, Zenon DEF ControlInv
<1>12. ASSUME Leave(c) PROVE ControlInv'
  <2>1. ControlOf(c)'
    BY <1>12, <1>a, <1>b, <1>c, Zenon
       DEF ControlInv, ControlOf, HasHand, HasLock, Ordinary, Leave, Goto, queueVars,
           localVars
  <2>2. ASSUME NEW d \in Cpu, d # c PROVE ControlOf(d)'
    BY <1>12, <2>2, <1>a, <1>b, <1>c, <1>d, Zenon
       DEF HasLock, Ordinary, Leave, Goto, localVars
  <2> QED BY <2>1, <2>2, Zenon DEF ControlInv
<1>13. ASSUME NEW ch \in Chan, Release(c, ch) PROVE ControlInv'
  <2>1. ControlOf(c)'
    BY <1>13, <1>a, <1>b, <1>c, Zenon
       DEF ControlInv, ControlOf, HasHand, HasLock, Ordinary, Release, StartRelease,
           Goto, queueVars, localVars
  <2>2. ASSUME NEW d \in Cpu, d # c PROVE ControlOf(d)'
    BY <1>13, <2>2, <1>a, <1>b, <1>c, <1>d, Zenon
       DEF HasLock, Ordinary, Release, StartRelease, Goto, localVars
  <2> QED BY <2>1, <2>2, Zenon DEF ControlInv
<1>14. ASSUME NEW ch \in Chan, DeviceInterrupt(c, ch) PROVE ControlInv'
  <2>1. ControlOf(c)'
    BY <1>14, <1>a, <1>b, <1>c, Zenon
       DEF ControlInv, ControlOf, HasHand, HasLock, Ordinary, DeviceInterrupt,
           StartRelease, Goto, queueVars, localVars
  <2>2. ASSUME NEW d \in Cpu, d # c PROVE ControlOf(d)'
    BY <1>14, <2>2, <1>a, <1>b, <1>c, <1>d, Zenon
       DEF HasLock, Ordinary, DeviceInterrupt, StartRelease, Goto, localVars
  <2> QED BY <2>1, <2>2, Zenon DEF ControlInv
<1>15. ASSUME ReleaseStep(c) PROVE ControlInv'
  <2>1. ControlOf(c)'
    BY <1>15, <1>a, <1>b, <1>c, Zenon
       DEF ControlInv, ControlOf, HasHand, HasLock, Ordinary, ReleaseStep, Goto,
           queueVars, localVars
  <2>2. ASSUME NEW d \in Cpu, d # c PROVE ControlOf(d)'
    BY <1>15, <2>2, <1>a, <1>b, <1>c, <1>d, Zenon
       DEF HasLock, Ordinary, ReleaseStep, Goto, localVars
  <2> QED BY <2>1, <2>2, Zenon DEF ControlInv
<1>16. ASSUME ReleaseEnd(c) PROVE ControlInv'
  <2>1. ControlOf(c)'
    BY <1>16, <1>a, <1>b, <1>c, Zenon
       DEF ControlInv, ControlOf, HasHand, HasLock, Ordinary, ReleaseEnd, Goto,
           queueVars, localVars
  <2>2. ASSUME NEW d \in Cpu, d # c PROVE ControlOf(d)'
    BY <1>16, <2>2, <1>a, <1>b, <1>c, <1>d, Zenon
       DEF HasLock, Ordinary, ReleaseEnd, Goto, localVars
  <2> QED BY <2>1, <2>2, Zenon DEF ControlInv
<1>17. ASSUME Timer(c) PROVE ControlInv'
  <2>1. ControlOf(c)'
    BY <1>17, <1>a, <1>b, <1>c, Zenon
       DEF ControlInv, ControlOf, HasHand, HasLock, Ordinary, Timer, Goto, queueVars,
           localVars
  <2>2. ASSUME NEW d \in Cpu, d # c PROVE ControlOf(d)'
    BY <1>17, <2>2, <1>a, <1>b, <1>c, <1>d, Zenon
       DEF HasLock, Ordinary, Timer, Goto, localVars
  <2> QED BY <2>1, <2>2, Zenon DEF ControlInv
<1>18. ASSUME Elapse(c) PROVE ControlInv'
  <2>1. ControlOf(c)'
    BY <1>18, <1>a, <1>b, <1>c, Zenon
       DEF ControlInv, ControlOf, HasHand, HasLock, Ordinary, Elapse, Goto,
           queueVars, localVars
  <2>2. ASSUME NEW d \in Cpu, d # c PROVE ControlOf(d)'
    BY <1>18, <2>2, <1>a, <1>b, <1>c, <1>d, Zenon
       DEF HasLock, Ordinary, Elapse, Goto, localVars
  <2> QED BY <2>1, <2>2, Zenon DEF ControlInv
<1>19. ASSUME ElapseStep(c) PROVE ControlInv'
  <2>1. ControlOf(c)'
    BY <1>19, <1>a, <1>b, <1>c, Zenon
       DEF ControlInv, ControlOf, HasHand, HasLock, Ordinary, ElapseStep, Goto,
           queueVars, localVars
  <2>2. ASSUME NEW d \in Cpu, d # c PROVE ControlOf(d)'
    BY <1>19, <2>2, <1>a, <1>b, <1>c, <1>d, Zenon
       DEF HasLock, Ordinary, ElapseStep, Goto, localVars
  <2> QED BY <2>1, <2>2, Zenon DEF ControlInv
<1>20. ASSUME ElapseEnd(c) PROVE ControlInv'
  <2>1. ControlOf(c)'
    <3>1. /\ pc[c] = "elapse" /\ pc'[c] = "lock" /\ qlock' = None
          /\ running'[c] = None /\ exec' = exec /\ todo' = todo
          /\ hand'[c] = IF running[c] = None THEN exec[c] ELSE running[c]
      BY <1>20, <1>a, Zenon DEF ElapseEnd, Enter, Goto
    <3>2. hand'[c] = exec[c] /\ todo[c] = {}
      BY <3>1, Zenon DEF ControlInv, ControlOf, Ordinary
    <3>3. exec[c] # None
      BY <1>a, Zenon DEF Thread
    <3> QED BY <1>a, <3>1, <3>2, <3>3, Zenon DEF ControlOf, HasHand, HasLock, Ordinary
  <2>2. ASSUME NEW d \in Cpu, d # c PROVE ControlOf(d)'
    BY <1>20, <2>2, <1>a, <1>b, <1>c, <1>d, Zenon
       DEF HasLock, Ordinary, ElapseEnd, Enter, Goto, localVars
  <2> QED BY <2>1, <2>2, Zenon DEF ControlInv
<1> QED
  BY <1>1, <1>2, <1>3, <1>4, <1>5, <1>6, <1>7, <1>8, <1>9, <1>10, <1>11, <1>12,
     <1>13, <1>14, <1>15, <1>16, <1>17, <1>18, <1>19, <1>20, Zenon
     DEF Step

(* scheduling_op asks for a legal suspension, of a worker, until dequeue has  *)
(* registered it.                                                            *)
LEMMA OpStep == TypeOK /\ ControlInv /\ CliInv /\ OpInv /\ [Next]_vars => OpInv'
<1> SUFFICES ASSUME TypeOK, ControlInv, CliInv, OpInv, [Next]_vars PROVE OpInv'
  OBVIOUS
<1> USE SchedulerAssumption
<1>0. CASE UNCHANGED vars
  BY <1>0, Zenon DEF OpInv, HasHand, vars, queueVars, localVars
<1> SUFFICES ASSUME NEW c \in Cpu, Step(c) PROVE OpInv'
  BY <1>0, Zenon DEF Next
<1>a. /\ pc \in [Cpu -> Labels] /\ exec \in [Cpu -> Thread] /\ op \in [Cpu -> Op]
  BY Zenon DEF TypeOK
<1>b. cli[c].intr => pc[c] = "run"
  BY Zenon DEF CliInv, CliOf
<1>c. pc[c] \notin HasHand => op[c].kind = "yield"
  BY Zenon DEF OpInv
<1>1. ASSUME NEW w \in Worker, Add(c, w) PROVE OpInv'
  BY <1>1, <1>a, <1>b, <1>c, Zenon DEF OpInv, HasHand, Add, Goto, queueVars, localVars
<1>2. ASSUME NEW ch \in Chan, LockGuard(c, ch) PROVE OpInv'
  BY <1>2, <1>a, <1>b, <1>c, Zenon
     DEF OpInv, HasHand, LockGuard, Goto, queueVars, localVars
<1>3. ASSUME NEW ch \in Chan, UnlockGuard(c, ch) PROVE OpInv'
  BY <1>3, <1>a, <1>b, <1>c, Zenon
     DEF OpInv, HasHand, UnlockGuard, Goto, queueVars, localVars
<1>4. ASSUME Call(c) PROVE OpInv'
  BY <1>4, <1>a, <1>b, <1>c
     DEF OpInv, HasHand, Call, Enter, Goto, queueVars, localVars, Op, Yield
<1>5. ASSUME SchedulingOp(c) PROVE OpInv'
  BY <1>5, <1>a, <1>b, <1>c, Zenon
     DEF OpInv, HasHand, SchedulingOp, Goto, queueVars, localVars
<1>6. ASSUME Cancel(c) PROVE OpInv'
  BY <1>6, <1>a, <1>b, <1>c, Zenon
     DEF OpInv, HasHand, Cancel, Install, Goto, queueVars, localVars, Yield
<1>7. ASSUME DequeueNone(c) PROVE OpInv'
  BY <1>7, <1>a, <1>b, <1>c, Zenon
     DEF OpInv, HasHand, DequeueNone, Install, Goto, queueVars, localVars, Yield
<1>8. ASSUME WaitSaved(c) PROVE OpInv'
  BY <1>8, <1>a, <1>b, <1>c, Zenon
     DEF OpInv, HasHand, WaitSaved, Install, Goto, queueVars, localVars, Yield
<1>9. ASSUME Dequeue(c) PROVE OpInv'
  BY <1>9, <1>a, <1>b, <1>c, Zenon
     DEF OpInv, HasHand, Dequeue, Goto, queueVars, localVars
<1>10. ASSUME Save(c) PROVE OpInv'
  BY <1>10, <1>a, <1>b, <1>c, Zenon DEF OpInv, HasHand, Save, Goto, queueVars, localVars
<1>11. ASSUME Restore(c) PROVE OpInv'
  BY <1>11, <1>a, <1>b, <1>c, Zenon
     DEF OpInv, HasHand, Restore, Goto, queueVars, localVars
<1>12. ASSUME Leave(c) PROVE OpInv'
  BY <1>12, <1>a, <1>b, <1>c, Zenon
     DEF OpInv, HasHand, Leave, Goto, queueVars, localVars
<1>13. ASSUME NEW ch \in Chan, Release(c, ch) PROVE OpInv'
  BY <1>13, <1>a, <1>b, <1>c, Zenon
     DEF OpInv, HasHand, Release, StartRelease, Goto, queueVars, localVars
<1>14. ASSUME NEW ch \in Chan, DeviceInterrupt(c, ch) PROVE OpInv'
  BY <1>14, <1>a, <1>b, <1>c, Zenon
     DEF OpInv, HasHand, DeviceInterrupt, StartRelease, Goto, queueVars, localVars
<1>15. ASSUME ReleaseStep(c) PROVE OpInv'
  BY <1>15, <1>a, <1>b, <1>c, Zenon
     DEF OpInv, HasHand, ReleaseStep, Goto, queueVars, localVars
<1>16. ASSUME ReleaseEnd(c) PROVE OpInv'
  BY <1>16, <1>a, <1>b, <1>c, Zenon
     DEF OpInv, HasHand, ReleaseEnd, Goto, queueVars, localVars
<1>17. ASSUME Timer(c) PROVE OpInv'
  BY <1>17, <1>a, <1>b, <1>c, Zenon
     DEF OpInv, HasHand, Timer, Goto, queueVars, localVars
<1>18. ASSUME Elapse(c) PROVE OpInv'
  BY <1>18, <1>a, <1>b, <1>c, Zenon
     DEF OpInv, HasHand, Elapse, Goto, queueVars, localVars
<1>19. ASSUME ElapseStep(c) PROVE OpInv'
  BY <1>19, <1>a, <1>b, <1>c, Zenon
     DEF OpInv, HasHand, ElapseStep, Goto, queueVars, localVars
<1>20. ASSUME ElapseEnd(c) PROVE OpInv'
  BY <1>20, <1>a, <1>b, <1>c, Zenon
     DEF OpInv, HasHand, ElapseEnd, Enter, Goto, queueVars, localVars, Yield
<1> QED
  BY <1>1, <1>2, <1>3, <1>4, <1>5, <1>6, <1>7, <1>8, <1>9, <1>10, <1>11, <1>12,
     <1>13, <1>14, <1>15, <1>16, <1>17, <1>18, <1>19, <1>20, Zenon
     DEF Step

-----------------------------------------------------------------------------
(* Contexts *)

(* A CPU switches only to a saved context that no CPU executes. *)
LEMMA ExecStep == TypeOK /\ ControlInv /\ PlaceInv /\ CliInv /\ ExecInv /\ [Next]_vars => ExecInv'
<1> SUFFICES ASSUME TypeOK, ControlInv, PlaceInv, CliInv, ExecInv, [Next]_vars PROVE ExecInv'
  OBVIOUS
<1> USE SchedulerAssumption
<1>0. CASE UNCHANGED vars
  BY <1>0, Zenon DEF ExecInv, vars, queueVars, localVars
<1> SUFFICES ASSUME NEW c \in Cpu, Step(c) PROVE ExecInv'
  BY <1>0, Zenon DEF Next
<1>a. /\ pc \in [Cpu -> Labels] /\ exec \in [Cpu -> Thread]
      /\ running \in [Cpu -> Thread \cup {None}] /\ hand \in [Cpu -> Thread \cup {None}]
      /\ ctx \in [Thread -> Context] /\ None \notin Thread
  BY Zenon DEF TypeOK
<1>b. cli[c].intr => pc[c] = "run"
  BY Zenon DEF CliInv, CliOf
<1>c. \A d, e \in Cpu : d # e =>
          /\ running[d] = running[e] => running[d] = None
          /\ running[d] = hand[e] => running[d] = None
          /\ hand[d] = hand[e] => hand[d] = None
  BY <1>a DEF PlaceInv, ThreadInOnePlace, Held
<1>1. ASSUME NEW w \in Worker, Add(c, w) PROVE ExecInv'
  BY <1>1, <1>a, <1>b, Zenon DEF ExecInv, Add, Goto, queueVars, localVars
<1>2. ASSUME NEW ch \in Chan, LockGuard(c, ch) PROVE ExecInv'
  BY <1>2, <1>a, <1>b, Zenon DEF ExecInv, LockGuard, Goto, queueVars, localVars
<1>3. ASSUME NEW ch \in Chan, UnlockGuard(c, ch) PROVE ExecInv'
  BY <1>3, <1>a, <1>b, SMTT(20) DEF ExecInv, UnlockGuard, Goto, queueVars, localVars
<1>4. ASSUME Call(c) PROVE ExecInv'
  BY <1>4, <1>a, <1>b DEF ExecInv, Call, Enter, Goto, queueVars, localVars
<1>5. ASSUME SchedulingOp(c) PROVE ExecInv'
  BY <1>5, <1>a, <1>b, Zenon DEF ExecInv, SchedulingOp, Goto, queueVars, localVars
<1>6. ASSUME Cancel(c) PROVE ExecInv'
  BY <1>6, <1>a, <1>b DEF ExecInv, Cancel, Install, Goto, queueVars, localVars
<1>7. ASSUME DequeueNone(c) PROVE ExecInv'
  BY <1>7, <1>a, <1>b, Zenon
     DEF ExecInv, DequeueNone, Install, Goto, queueVars, localVars
<1>8. ASSUME WaitSaved(c) PROVE ExecInv'
  <2>1. /\ ctx' = ctx /\ exec' = exec /\ pc' = [pc EXCEPT ![c] = "save"]
        /\ running' = [running EXCEPT ![c] = hand[c]] /\ pc[c] = "wait" /\ ctx[hand[c]].saved
    BY <1>8, Zenon DEF WaitSaved, Install, Goto
  <2>2. hand[c] \in Thread /\ hand[c] \in created /\ exec[c] # hand[c]
    BY <2>1, <1>a DEF ControlInv, ControlOf, HasHand, PlaceInv, Held, ExecInv
  <2>3. ASSUME NEW d \in Cpu, d # c, pc[d] # "restore" PROVE exec[d] # hand[c]
    <3>1. CASE pc[d] \in {"wait", "save"}
      BY <2>1, <3>1, Zenon DEF ExecInv
    <3>2. CASE pc[d] \in {"lock", "dequeue"}
      BY <2>2, <2>3, <3>2, <1>a, <1>c, SMTT(20) DEF ControlInv, ControlOf
    <3>3. CASE pc[d] \in Ordinary \cup {"leave"}
      BY <2>2, <2>3, <3>3, <1>a, <1>c, SMTT(20) DEF ControlInv, ControlOf
    <3> QED BY <2>3, <3>1, <3>2, <3>3, <1>a, Zenon DEF Labels, Ordinary
  <2> QED BY <2>1, <2>2, <2>3, <1>a, Zenon DEF ExecInv
<1>9. ASSUME Dequeue(c) PROVE ExecInv'
  <2>1. /\ exec' = exec /\ pc' = [pc EXCEPT ![c] = "wait"] /\ running' = running
        /\ ctx' = [ctx EXCEPT ![hand[c]] = [@ EXCEPT !.saved = FALSE]] /\ pc[c] = "dequeue"
    BY <1>9, Zenon DEF Dequeue, Goto
  <2>2. hand[c] \in Thread /\ hand[c] = exec[c]
    BY <2>1, <1>a, Zenon DEF ControlInv, ControlOf, HasHand
  <2>3. \A t \in Thread : ctx'[t].saved <=> t # hand[c] /\ ctx[t].saved
    BY <2>1, <2>2, <1>a DEF Context
  <2> QED BY <2>1, <2>2, <2>3, <1>a, <1>c, SMTT(20) DEF ExecInv, ControlInv, ControlOf, HasHand
<1>10. ASSUME Save(c) PROVE ExecInv'
  <2>1. /\ exec' = exec /\ pc' = [pc EXCEPT ![c] = "restore"] /\ running' = running
        /\ pc[c] = "save"
        /\ \A t \in Thread : ctx'[t].saved <=> t = exec[c] \/ ctx[t].saved
    BY <1>10, <1>a, Zenon DEF Save, SavedContext, Goto, Context
  <2>2. \A d \in Cpu : pc[d] \in {"save", "restore"} => running[d] \in Thread
    BY <1>a DEF ControlInv, ControlOf
  <2> QED BY <2>1, <2>2, <1>a DEF ExecInv
<1>11. ASSUME Restore(c) PROVE ExecInv'
  <2>1. /\ exec' = [exec EXCEPT ![c] = running[c]] /\ ctx' = ctx /\ running' = running
        /\ pc' = [pc EXCEPT ![c] = IF ctx[running[c]].rip = "entry" THEN "run" ELSE "leave"]
        /\ pc[c] = "restore" /\ running[c] \in Thread
    BY <1>11, <1>a DEF Restore, Goto, ControlInv, ControlOf
  <2> QED BY <2>1, <1>a, <1>c DEF ExecInv
<1>12. ASSUME Leave(c) PROVE ExecInv'
  BY <1>12, <1>a, <1>b DEF ExecInv, Leave, Goto, queueVars, localVars
<1>13. ASSUME NEW ch \in Chan, Release(c, ch) PROVE ExecInv'
  BY <1>13, <1>a, <1>b, Zenon
     DEF ExecInv, Release, StartRelease, Goto, queueVars, localVars
<1>14. ASSUME NEW ch \in Chan, DeviceInterrupt(c, ch) PROVE ExecInv'
  BY <1>14, <1>a, <1>b, Zenon
     DEF ExecInv, DeviceInterrupt, StartRelease, Goto, queueVars, localVars
<1>15. ASSUME ReleaseStep(c) PROVE ExecInv'
  BY <1>15, <1>a, <1>b, Zenon DEF ExecInv, ReleaseStep, Goto, queueVars, localVars
<1>16. ASSUME ReleaseEnd(c) PROVE ExecInv'
  BY <1>16, <1>a, <1>b, Zenon DEF ExecInv, ReleaseEnd, Goto, queueVars, localVars
<1>17. ASSUME Timer(c) PROVE ExecInv'
  BY <1>17, <1>a, <1>b, Zenon DEF ExecInv, Timer, Goto, queueVars, localVars
<1>18. ASSUME Elapse(c) PROVE ExecInv'
  BY <1>18, <1>a, <1>b, Zenon DEF ExecInv, Elapse, Goto, queueVars, localVars
<1>19. ASSUME ElapseStep(c) PROVE ExecInv'
  BY <1>19, <1>a, <1>b, Zenon DEF ExecInv, ElapseStep, Goto, queueVars, localVars
<1>20. ASSUME ElapseEnd(c) PROVE ExecInv'
  BY <1>20, <1>a, <1>b, Zenon DEF ExecInv, ElapseEnd, Enter, Goto, queueVars, localVars
<1> QED
  BY <1>1, <1>2, <1>3, <1>4, <1>5, <1>6, <1>7, <1>8, <1>9, <1>10, <1>11, <1>12,
     <1>13, <1>14, <1>15, <1>16, <1>17, <1>18, <1>19, <1>20, Zenon
     DEF Step

-----------------------------------------------------------------------------
(* Locks *)

(* A CPU holds at most one spin guard, in a critical section or in the call *)
(* of block that will drop it.                                              *)
LEMMA GuardStep == TypeOK /\ CliInv /\ GuardInv /\ [Next]_vars => GuardInv'
<1> SUFFICES ASSUME TypeOK, CliInv, GuardInv, [Next]_vars PROVE GuardInv'
  OBVIOUS
<1> USE SchedulerAssumption
<1>0. CASE UNCHANGED vars
  BY <1>0, Zenon DEF GuardInv, vars, queueVars, localVars
<1> SUFFICES ASSUME NEW c \in Cpu, Step(c) PROVE GuardInv'
  BY <1>0, Zenon DEF Next
<1>a. /\ pc \in [Cpu -> Labels] /\ op \in [Cpu -> Op] /\ guards \in [Chan -> Cpu \cup {None}]
      /\ \A d \in Cpu : d # None
  BY Zenon DEF TypeOK, Thread
<1>b. /\ cli[c].intr => pc[c] = "run"
  BY Zenon DEF CliInv, CliOf
<1>1. ASSUME NEW w \in Worker, Add(c, w) PROVE GuardInv'
  BY <1>1, <1>a, <1>b, Zenon DEF GuardInv, Add, Goto, queueVars, localVars
<1>2. ASSUME NEW ch \in Chan, LockGuard(c, ch) PROVE GuardInv'
  BY <1>2, <1>a, <1>b DEF GuardInv, LockGuard, Goto, queueVars, localVars
<1>3. ASSUME NEW ch \in Chan, UnlockGuard(c, ch) PROVE GuardInv'
  BY <1>3, <1>a, <1>b DEF GuardInv, UnlockGuard, Goto, queueVars, localVars
<1>4. ASSUME Call(c) PROVE GuardInv'
  <2>1. PICK o \in Op :
          /\ op' = [op EXCEPT ![c] = o] /\ pc' = [pc EXCEPT ![c] = "lock"] /\ guards' = guards
          /\ pc[c] = "run" \/ (pc[c] = "guard" /\ o.guarded /\ o.chan \in Chan /\ guards[o.chan] = c)
    BY <1>4, Zenon DEF Call, Enter, Goto, Op
  <2> QED BY <2>1, <1>a DEF GuardInv
<1>5. ASSUME SchedulingOp(c) PROVE GuardInv'
  <2>1. /\ guards' = [ch \in Chan |-> IF op[c].guarded /\ ch = op[c].chan THEN None ELSE guards[ch]]
        /\ op' = op /\ pc' = [pc EXCEPT ![c] = "dequeue"] /\ pc[c] = "lock"
    BY <1>5, Zenon DEF SchedulingOp, Goto, localVars
  <2>2. \A ch \in Chan : guards'[ch] # None => guards'[ch] = guards[ch] /\ guards[ch] # c
    BY <2>1, <1>a, Zenon DEF GuardInv
  <2> QED BY <2>1, <2>2, <1>a DEF GuardInv
<1>6. ASSUME Cancel(c) PROVE GuardInv'
  BY <1>6, <1>a, <1>b, ZenonT(40)
     DEF GuardInv, Cancel, Install, Goto, queueVars, localVars, Yield
<1>7. ASSUME DequeueNone(c) PROVE GuardInv'
  BY <1>7, <1>a, <1>b DEF GuardInv, DequeueNone, Install, Goto, queueVars, localVars
<1>8. ASSUME WaitSaved(c) PROVE GuardInv'
  BY <1>8, <1>a, <1>b DEF GuardInv, WaitSaved, Install, Goto, queueVars, localVars
<1>9. ASSUME Dequeue(c) PROVE GuardInv'
  BY <1>9, <1>a, <1>b, Zenon DEF GuardInv, Dequeue, Goto, queueVars, localVars
<1>10. ASSUME Save(c) PROVE GuardInv'
  BY <1>10, <1>a, <1>b, Zenon DEF GuardInv, Save, Goto, queueVars, localVars
<1>11. ASSUME Restore(c) PROVE GuardInv'
  BY <1>11, <1>a, <1>b, Zenon DEF GuardInv, Restore, Goto, queueVars, localVars
<1>12. ASSUME Leave(c) PROVE GuardInv'
  BY <1>12, <1>a, <1>b, Zenon DEF GuardInv, Leave, Goto, queueVars, localVars
<1>13. ASSUME NEW ch \in Chan, Release(c, ch) PROVE GuardInv'
  BY <1>13, <1>a, <1>b, Zenon
     DEF GuardInv, Release, StartRelease, Goto, queueVars, localVars
<1>14. ASSUME NEW ch \in Chan, DeviceInterrupt(c, ch) PROVE GuardInv'
  BY <1>14, <1>a, <1>b
     DEF GuardInv, DeviceInterrupt, StartRelease, Goto, queueVars, localVars
<1>15. ASSUME ReleaseStep(c) PROVE GuardInv'
  BY <1>15, <1>a, <1>b, Zenon DEF GuardInv, ReleaseStep, Goto, queueVars, localVars
<1>16. ASSUME ReleaseEnd(c) PROVE GuardInv'
  BY <1>16, <1>a, <1>b, ZenonT(40) DEF GuardInv, ReleaseEnd, Goto, queueVars, localVars
<1>17. ASSUME Timer(c) PROVE GuardInv'
  BY <1>17, <1>a, <1>b, ZenonT(40) DEF GuardInv, Timer, Goto, queueVars, localVars
<1>18. ASSUME Elapse(c) PROVE GuardInv'
  BY <1>18, <1>a, <1>b DEF GuardInv, Elapse, Goto, queueVars, localVars
<1>19. ASSUME ElapseStep(c) PROVE GuardInv'
  <2>1. pc' = pc /\ guards' = guards /\ op' = op
    BY <1>19, Zenon DEF ElapseStep, localVars
  <2> QED BY <2>1, Zenon DEF GuardInv
<1>20. ASSUME ElapseEnd(c) PROVE GuardInv'
  BY <1>20, <1>a, <1>b DEF GuardInv, ElapseEnd, Enter, Goto, queueVars, localVars
<1> QED
  BY <1>1, <1>2, <1>3, <1>4, <1>5, <1>6, <1>7, <1>8, <1>9, <1>10, <1>11, <1>12,
     <1>13, <1>14, <1>15, <1>16, <1>17, <1>18, <1>19, <1>20, Zenon
     DEF Step

(* What Cli::new, Cli::drop, an interrupt gate and iret do to each field. *)
LEMMA CliFields ==
    ASSUME NEW k \in CliState
    PROVE  /\ k.ncli \in Int
           /\ CliNew(k).ncli = k.ncli + 1 /\ ~CliNew(k).intr
           /\ k.ncli = 0 => (CliNew(k).zcli <=> ~k.intr)
           /\ k.ncli # 0 => (CliNew(k).zcli <=> k.zcli)
           /\ CliDrop(k).ncli = k.ncli - 1 /\ (CliDrop(k).zcli <=> k.zcli)
           /\ CliDrop(k).intr <=> k.ncli = 1 /\ ~k.zcli
           /\ Masked(k).ncli = k.ncli /\ ~Masked(k).intr
           /\ Iret(k).ncli = k.ncli /\ Iret(k).intr
BY Zenon DEF CliState, CliNew, CliDrop, Masked, Iret

(* A context that may be resumed holds what its thread needs to go on. *)
LEMMA ContextStep == TypeOK /\ ControlInv /\ CliInv /\ ContextInv /\ [Next]_vars => ContextInv'
<1> SUFFICES ASSUME TypeOK, ControlInv, CliInv, ContextInv, [Next]_vars PROVE ContextInv'
  OBVIOUS
<1> USE SchedulerAssumption
<1>0. CASE UNCHANGED vars
  BY <1>0, Zenon DEF ContextInv, ResumesAt, vars, queueVars, localVars
<1> SUFFICES ASSUME NEW c \in Cpu, Step(c) PROVE ContextInv'
  BY <1>0, Zenon DEF Next
<1>a. /\ pc \in [Cpu -> Labels] /\ exec \in [Cpu -> Thread] /\ ctx \in [Thread -> Context]
      /\ running \in [Cpu -> Thread \cup {None}] /\ hand \in [Cpu -> Thread \cup {None}]
      /\ irq \in [Thread -> BOOLEAN] /\ cli \in [Cpu -> CliState]
  BY Zenon DEF TypeOK
<1>b. cli[c].intr => pc[c] = "run"
  BY Zenon DEF CliInv, CliOf
<1>c. ASSUME pc[c] # "restore", exec' = exec, ctx' = ctx, pc'[c] # "restore",
             \A d \in Cpu : d # c => pc'[d] = pc[d],
             \A t \in Thread : t # exec[c] => irq'[t] = irq[t]
      PROVE  ContextInv'
  BY <1>c DEF ContextInv, ResumesAt
<1>1. ASSUME NEW w \in Worker, Add(c, w) PROVE ContextInv'
  BY <1>1, <1>a, <1>b, <1>c, Zenon DEF Add, Goto, localVars
<1>2. ASSUME NEW ch \in Chan, LockGuard(c, ch) PROVE ContextInv'
  BY <1>2, <1>a, <1>b, <1>c, Zenon DEF LockGuard, Goto, localVars
<1>3. ASSUME NEW ch \in Chan, UnlockGuard(c, ch) PROVE ContextInv'
  BY <1>3, <1>a, <1>b, <1>c, Zenon DEF UnlockGuard, Goto, localVars
<1>4. ASSUME Call(c) PROVE ContextInv'
  BY <1>4, <1>a, <1>b, <1>c, Zenon DEF Call, Enter, Goto, localVars
<1>5. ASSUME SchedulingOp(c) PROVE ContextInv'
  BY <1>5, <1>a, <1>b, <1>c, Zenon DEF SchedulingOp, Goto, localVars
<1>6. ASSUME Cancel(c) PROVE ContextInv'
  BY <1>6, <1>a, <1>b, <1>c, Zenon DEF Cancel, Install, Goto, localVars
<1>7. ASSUME DequeueNone(c) PROVE ContextInv'
  BY <1>7, <1>a, <1>b, <1>c, Zenon DEF DequeueNone, Install, Goto, localVars
<1>8. ASSUME WaitSaved(c) PROVE ContextInv'
  BY <1>8, <1>a, <1>b, <1>c, Zenon DEF WaitSaved, Install, Goto, localVars
<1>9. ASSUME Dequeue(c) PROVE ContextInv'
  <2>1. /\ exec' = exec /\ pc' = [pc EXCEPT ![c] = "wait"] /\ irq' = irq
        /\ ctx' = [ctx EXCEPT ![hand[c]] = [@ EXCEPT !.saved = FALSE]] /\ pc[c] = "dequeue"
    BY <1>9, Zenon DEF Dequeue, Goto
  <2>2. hand[c] \in Thread
    BY <2>1, <1>a, Zenon DEF ControlInv, ControlOf, HasHand
  <2>3. ~ctx'[hand[c]].saved /\ \A t \in Thread : t # hand[c] => ctx'[t] = ctx[t]
    BY <2>1, <2>2, <1>a, SMTT(20) DEF Context
  <2> QED BY <2>1, <2>3, <1>a DEF ContextInv, ResumesAt
<1>10. ASSUME Save(c) PROVE ContextInv'
  <2>1. /\ exec' = exec /\ pc' = [pc EXCEPT ![c] = "restore"] /\ irq' = irq /\ pc[c] = "save"
        /\ ctx' = [ctx EXCEPT ![exec[c]] = SavedContext(cli[c])]
    BY <1>10, Zenon DEF Save, Goto
  <2>2. /\ ctx'[exec[c]].rip = "switch" /\ (ctx'[exec[c]].intr <=> cli[c].intr)
        /\ ctx'[exec[c]].ncli = cli[c].ncli /\ (ctx'[exec[c]].zcli <=> cli[c].zcli)
        /\ \A t \in Thread : t # exec[c] => ctx'[t] = ctx[t]
    BY <2>1, <1>a, Zenon DEF SavedContext
  <2>3. cli[c].ncli = 1 /\ ~cli[c].intr /\ (cli[c].zcli <=> irq[exec[c]])
    BY <2>1, Zenon DEF CliInv, CliOf
  <2> QED BY <2>1, <2>2, <2>3, <1>a DEF ContextInv, ResumesAt
<1>11. ASSUME Restore(c) PROVE ContextInv'
  <2>1. /\ exec' = [exec EXCEPT ![c] = running[c]] /\ ctx' = ctx /\ irq' = irq
        /\ pc[c] = "restore" /\ \A d \in Cpu : d # c => pc'[d] = pc[d]
    BY <1>11, <1>a, Zenon DEF Restore, Goto
  <2> QED BY <2>1, <1>a, Zenon DEF ContextInv, ResumesAt
<1>12. ASSUME Leave(c) PROVE ContextInv'
  BY <1>12, <1>a, <1>b, <1>c, Zenon DEF Leave, Goto, localVars
<1>13. ASSUME NEW ch \in Chan, Release(c, ch) PROVE ContextInv'
  BY <1>13, <1>a, <1>b, <1>c, Zenon DEF Release, StartRelease, Goto, localVars
<1>14. ASSUME NEW ch \in Chan, DeviceInterrupt(c, ch) PROVE ContextInv'
  BY <1>14, <1>a, <1>b, <1>c, Zenon DEF DeviceInterrupt, StartRelease, Goto, localVars
<1>15. ASSUME ReleaseStep(c) PROVE ContextInv'
  BY <1>15, <1>a, <1>b, <1>c, Zenon DEF ReleaseStep, Goto, localVars
<1>16. ASSUME ReleaseEnd(c) PROVE ContextInv'
  BY <1>16, <1>a, <1>b, <1>c, Zenon DEF ReleaseEnd, Goto, localVars
<1>17. ASSUME Timer(c) PROVE ContextInv'
  BY <1>17, <1>a, <1>b, <1>c, Zenon DEF Timer, Goto, localVars
<1>18. ASSUME Elapse(c) PROVE ContextInv'
  BY <1>18, <1>a, <1>b, <1>c, Zenon DEF Elapse, Goto, localVars
<1>19. ASSUME ElapseStep(c) PROVE ContextInv'
  BY <1>19, <1>a, <1>b, <1>c, Zenon DEF ElapseStep, Goto, localVars
<1>20. ASSUME ElapseEnd(c) PROVE ContextInv'
  BY <1>20, <1>a, <1>b, <1>c, Zenon DEF ElapseEnd, Enter, Goto, localVars
<1> QED
  BY <1>1, <1>2, <1>3, <1>4, <1>5, <1>6, <1>7, <1>8, <1>9, <1>10, <1>11, <1>12,
     <1>13, <1>14, <1>15, <1>16, <1>17, <1>18, <1>19, <1>20, Zenon
     DEF Step

(* The nesting count, the saved interrupt flag and the flag itself agree with *)
(* the program point, on every CPU.                                           *)
LEMMA CliStep == TypeOK /\ ControlInv /\ OpInv /\ ExecInv /\ ContextInv /\ CliInv /\ [Next]_vars => CliInv'
<1> SUFFICES ASSUME TypeOK, ControlInv, OpInv, ExecInv, ContextInv, CliInv, [Next]_vars PROVE CliInv'
  OBVIOUS
<1> USE SchedulerAssumption
<1>0. CASE UNCHANGED vars
  BY <1>0, Zenon DEF CliInv, CliOf, ResumesAt, vars, queueVars, localVars
<1> SUFFICES ASSUME NEW c \in Cpu, Step(c) PROVE CliInv'
  BY <1>0, Zenon DEF Next
<1>a. /\ pc \in [Cpu -> Labels] /\ exec \in [Cpu -> Thread] /\ ctx \in [Thread -> Context]
      /\ running \in [Cpu -> Thread \cup {None}] /\ hand \in [Cpu -> Thread \cup {None}]
      /\ irq \in [Thread -> BOOLEAN] /\ cli \in [Cpu -> CliState] /\ op \in [Cpu -> Op]
  BY Zenon DEF TypeOK
<1>b. CliOf(c) /\ (cli[c].intr => pc[c] = "run") /\ cli[c] \in CliState
  BY <1>a, Zenon DEF CliInv, CliOf
<1>c. /\ pc[c] \notin HasHand => op[c].kind = "yield" /\ ~op[c].guarded
      /\ op[c].guarded => op[c].kind # "yield"
  BY Zenon DEF OpInv
<1>d. \A k \in CliState :
           /\ k.ncli \in Int /\ CliNew(k) \in CliState /\ CliDrop(k) \in CliState
           /\ Masked(k) \in CliState
           /\ CliNew(k).ncli = k.ncli + 1 /\ ~CliNew(k).intr
           /\ k.ncli = 0 => (CliNew(k).zcli <=> ~k.intr)
           /\ k.ncli # 0 => (CliNew(k).zcli <=> k.zcli)
           /\ CliDrop(k).ncli = k.ncli - 1 /\ (CliDrop(k).zcli <=> k.zcli)
           /\ CliDrop(k).intr <=> k.ncli = 1 /\ ~k.zcli
           /\ Masked(k).ncli = k.ncli /\ ~Masked(k).intr
           /\ Iret(k).ncli = k.ncli /\ Iret(k).intr
  BY CliFields, CliTypes, Zenon
<1>e. ASSUME NEW d \in Cpu, d # c, pc'[d] = pc[d], cli'[d] = cli[d], op'[d] = op[d],
             exec'[d] = exec[d], running'[d] = running[d], pc[c] # "restore",
             \A t \in Thread : t # exec[c] => irq'[t] = irq[t] /\ ctx'[t].rip = ctx[t].rip
      PROVE  CliOf(d)'
  <2>1. CASE pc[d] = "restore"
    <3>1. running[d] \in Thread /\ running[d] # exec[c]
      BY <1>a, <1>e, <2>1 DEF ControlInv, ControlOf, ExecInv
    <3>2. op[d].kind = "yield" /\ ~op[d].guarded
      BY <2>1, Zenon DEF OpInv, HasHand
    <3>3. irq'[running'[d]] = irq[running[d]] /\ ctx'[running'[d]].rip = ctx[running[d]].rip
      BY <1>e, <3>1, Zenon
    <3>4. ResumesAt(running[d], cli[d]) /\ ~cli[d].intr
      BY <2>1, Zenon DEF CliInv, CliOf
    <3>5. ResumesAt(running[d], cli[d])'
      BY <1>e, <3>3, <3>4, ZenonT(40) DEF ResumesAt
    <3> QED BY <1>e, <2>1, <3>2, <3>4, <3>5, ZenonT(40) DEF CliOf
  <2>2. CASE pc[d] # "restore"
    <3>1. exec[d] \in Thread /\ exec[d] # exec[c]
      BY <1>a, <1>e, <2>2, Zenon DEF ExecInv
    <3> QED BY <1>e, <2>2, <3>1 DEF CliInv, CliOf
  <2> QED BY <2>1, <2>2, Zenon
<1>f. cli[c] \in CliState
  BY <1>b, Zenon
<1>1. ASSUME NEW w \in Worker, Add(c, w) PROVE CliInv'
  <2>1. CliOf(c)'
    BY <1>1, <1>a, <1>b, <1>c, <1>d, Zenon DEF CliOf, Add, Goto, localVars
  <2>2. ASSUME NEW d \in Cpu, d # c PROVE CliOf(d)'
    BY <1>1, <2>2, <1>a, <1>b, <1>e, Zenon DEF Add, Goto, localVars
  <2> QED BY <2>1, <2>2, Zenon DEF CliInv
<1>2. ASSUME NEW ch \in Chan, LockGuard(c, ch) PROVE CliInv'
  <2>1. CliOf(c)'
    <3>1. /\ pc[c] = "run" /\ pc'[c] = "guard" /\ exec'[c] = exec[c]
          /\ cli'[c] = CliNew(cli[c])
          /\ irq' = irq /\ op'[c] = op[c]
      BY <1>2, <1>a, <1>b, Zenon DEF LockGuard, Goto, localVars
    <3>2. cli[c].ncli = 0 /\ cli[c].intr /\ ~irq[exec[c]]
      BY <3>1, <1>b, Zenon DEF CliOf
    <3>3. cli'[c].ncli = 1 /\ ~cli'[c].intr /\ ~cli'[c].zcli
      BY <3>1, <3>2, <1>d, <1>f
    <3> QED BY <3>1, <3>2, <3>3, <1>c, Zenon DEF CliOf, HasHand
  <2>2. ASSUME NEW d \in Cpu, d # c PROVE CliOf(d)'
    BY <1>2, <2>2, <1>a, <1>b, <1>e, Zenon DEF LockGuard, Goto, localVars
  <2> QED BY <2>1, <2>2, Zenon DEF CliInv
<1>3. ASSUME NEW ch \in Chan, UnlockGuard(c, ch) PROVE CliInv'
  <2>1. CliOf(c)'
    <3>1. /\ pc[c] = "guard" /\ pc'[c] = "run" /\ exec'[c] = exec[c]
          /\ cli'[c] = CliDrop(cli[c])
          /\ irq' = irq /\ op'[c] = op[c]
      BY <1>3, <1>a, <1>b, Zenon DEF UnlockGuard, Goto, localVars
    <3>2. cli[c].ncli = 1 /\ ~cli[c].zcli /\ ~irq[exec[c]]
      BY <3>1, <1>b, Zenon DEF CliOf
    <3>3. cli'[c].ncli = 0 /\ cli'[c].intr
      BY <3>1, <3>2, <1>d, <1>f
    <3> QED BY <3>1, <3>2, <3>3, <1>c, Zenon DEF CliOf, HasHand
  <2>2. ASSUME NEW d \in Cpu, d # c PROVE CliOf(d)'
    BY <1>3, <2>2, <1>a, <1>b, <1>e, Zenon DEF UnlockGuard, Goto, localVars
  <2> QED BY <2>1, <2>2, Zenon DEF CliInv
<1>4. ASSUME Call(c) PROVE CliInv'
  <2>1. PICK o \in Op :
          /\ op' = [op EXCEPT ![c] = o] /\ pc' = [pc EXCEPT ![c] = "lock"]
          /\ \/ pc[c] = "run" /\ (o = Yield \/ ~o.guarded)
             \/ pc[c] = "guard" /\ o.guarded
    BY <1>4, Zenon DEF Call, Enter, Goto
  <2>2. cli' = [cli EXCEPT ![c] = CliNew(@)] /\ exec' = exec /\ irq' = irq
    BY <1>4, Zenon DEF Call
  <2>3. CliOf(c)'
    <3>1. /\ pc'[c] = "lock" /\ op'[c] = o /\ cli'[c] = CliNew(cli[c])
          /\ irq'[exec'[c]] = irq[exec[c]]
      BY <2>1, <2>2, <1>a, Zenon
    <3>2. ~irq[exec[c]] /\ ~cli'[c].intr
      <4>1. ~irq[exec[c]]
        BY <2>1, <1>b, Zenon DEF CliOf
      <4>2. ~cli'[c].intr
        BY <3>1, <1>d, <1>f
      <4> QED BY <4>1, <4>2, Zenon
    <3>3. CASE pc[c] = "run" /\ ~o.guarded
      <4>1. cli[c].ncli = 0 /\ cli[c].intr
        BY <3>3, <1>b, Zenon DEF CliOf
      <4>2. cli'[c].ncli = 1 /\ ~cli'[c].zcli
        BY <3>1, <4>1, <1>d, <1>f
      <4> QED BY <3>1, <3>2, <3>3, <4>2, Zenon DEF CliOf
    <3>4. CASE pc[c] = "guard" /\ o.guarded
      <4>1. cli[c].ncli = 1 /\ ~cli[c].zcli
        BY <3>2, <3>4, <1>b, ZenonT(40) DEF CliOf
      <4>2. cli'[c].ncli = 2 /\ ~cli'[c].zcli
        BY <3>1, <4>1, <1>d, <1>f, SMTT(20)
      <4> QED BY <3>1, <3>2, <3>4, <4>2, Zenon DEF CliOf
    <3>5. o = Yield => ~o.guarded
      BY DEF Yield
    <3> QED BY <2>1, <3>3, <3>4, <3>5, Zenon
  <2>4. ASSUME NEW d \in Cpu, d # c PROVE CliOf(d)'
    BY <1>4, <2>4, <1>a, <1>b, <1>e, Zenon DEF Call, Enter, Goto
  <2> QED BY <2>3, <2>4, Zenon DEF CliInv
<1>5. ASSUME SchedulingOp(c) PROVE CliInv'
  <2>1. CliOf(c)'
    <3>1. /\ pc[c] = "lock" /\ pc'[c] = "dequeue" /\ exec'[c] = exec[c]
          /\ cli'[c] = IF op[c].guarded THEN CliDrop(CliNew(cli[c])) ELSE CliNew(cli[c])
          /\ irq' = irq /\ op'[c] = op[c]
      BY <1>5, <1>a, <1>b, Zenon DEF SchedulingOp, Goto, localVars
    <3>2. cli[c].ncli = (IF op[c].guarded THEN 2 ELSE 1) /\ (cli[c].zcli <=> irq[exec[c]])
      BY <3>1, <1>b, Zenon DEF CliOf
    <3>5. irq'[exec'[c]] = irq[exec[c]]
      BY <3>1, Zenon
    <3>6. cli'[c].zcli <=> cli[c].zcli
      <4>1. cli[c].ncli # 0
        BY <3>2
      <4>2. CliNew(cli[c]) \in CliState /\ (CliNew(cli[c]).zcli <=> cli[c].zcli)
        BY <4>1, <1>d, <1>f, Zenon
      <4>3. CliDrop(CliNew(cli[c])).zcli <=> CliNew(cli[c]).zcli
        BY <4>2, <1>d, Zenon
      <4> QED BY <3>1, <4>2, <4>3, Zenon
    <3>3. cli'[c].zcli <=> irq'[exec'[c]]
      BY <3>5, <3>6, <3>2, Zenon
    <3>4. cli'[c].ncli = 2 /\ ~cli'[c].intr
      BY <3>1, <3>2, <1>d, <1>f
    <3> QED BY <3>1, <3>3, <3>4, <1>b, Zenon DEF CliOf, HasHand
  <2>2. ASSUME NEW d \in Cpu, d # c PROVE CliOf(d)'
    BY <1>5, <2>2, <1>a, <1>b, <1>e, Zenon DEF SchedulingOp, Goto, localVars
  <2> QED BY <2>1, <2>2, Zenon DEF CliInv
<1>6. ASSUME Cancel(c) PROVE CliInv'
  <2>1. CliOf(c)'
    <3>1. /\ pc[c] = "dequeue" /\ pc'[c] = "leave" /\ exec'[c] = exec[c]
          /\ cli'[c] = CliDrop(cli[c])
          /\ irq' = irq /\ op'[c] = Yield
      BY <1>6, <1>a, <1>b, Zenon DEF Cancel, Install, Goto, localVars
    <3>2. cli[c].ncli = 2 /\ (cli[c].zcli <=> irq[exec[c]])
      BY <3>1, <1>b, Zenon DEF CliOf
    <3>5. irq'[exec'[c]] = irq[exec[c]] /\ cli'[c].zcli = cli[c].zcli
      BY <3>1 DEF CliDrop
    <3>6. op'[c].kind = "yield" /\ ~op'[c].guarded
      BY <3>1 DEF Yield
    <3>3. cli'[c].zcli <=> irq'[exec'[c]]
      BY <3>5, <3>2, Zenon
    <3>4. cli'[c].ncli = 1 /\ ~cli'[c].intr
      BY <3>1, <3>2, <1>d, <1>f
    <3> QED BY <3>1, <3>6, <3>3, <3>4, Zenon DEF CliOf
  <2>2. ASSUME NEW d \in Cpu, d # c PROVE CliOf(d)'
    BY <1>6, <2>2, <1>a, <1>b, <1>e, Zenon DEF Cancel, Install, Goto, localVars
  <2> QED BY <2>1, <2>2, Zenon DEF CliInv
<1>7. ASSUME DequeueNone(c) PROVE CliInv'
  <2>1. CliOf(c)'
    <3>1. /\ pc[c] = "dequeue" /\ pc'[c] = "leave" /\ exec'[c] = exec[c]
          /\ cli'[c] = CliDrop(cli[c])
          /\ irq' = irq /\ op'[c] = Yield
      BY <1>7, <1>a, <1>b, Zenon DEF DequeueNone, Install, Goto, localVars
    <3>2. cli[c].ncli = 2 /\ (cli[c].zcli <=> irq[exec[c]])
      BY <3>1, <1>b, Zenon DEF CliOf
    <3>5. irq'[exec'[c]] = irq[exec[c]] /\ cli'[c].zcli = cli[c].zcli
      BY <3>1 DEF CliDrop
    <3>6. op'[c].kind = "yield" /\ ~op'[c].guarded
      BY <3>1 DEF Yield
    <3>3. cli'[c].zcli <=> irq'[exec'[c]]
      BY <3>5, <3>2, Zenon
    <3>4. cli'[c].ncli = 1 /\ ~cli'[c].intr
      BY <3>1, <3>2, <1>d, <1>f
    <3> QED BY <3>1, <3>6, <3>3, <3>4, Zenon DEF CliOf
  <2>2. ASSUME NEW d \in Cpu, d # c PROVE CliOf(d)'
    BY <1>7, <2>2, <1>a, <1>b, <1>e, Zenon DEF DequeueNone, Install, Goto, localVars
  <2> QED BY <2>1, <2>2, Zenon DEF CliInv
<1>8. ASSUME WaitSaved(c) PROVE CliInv'
  <2>1. CliOf(c)'
    <3>1. /\ pc[c] = "wait" /\ pc'[c] = "save" /\ exec'[c] = exec[c]
          /\ cli'[c] = CliDrop(cli[c])
          /\ irq' = irq /\ op'[c] = Yield
      BY <1>8, <1>a, <1>b, Zenon DEF WaitSaved, Install, Goto, localVars
    <3>2. cli[c].ncli = 2 /\ (cli[c].zcli <=> irq[exec[c]])
      BY <3>1, <1>b, ZenonT(40) DEF CliOf
    <3>5. irq'[exec'[c]] = irq[exec[c]] /\ cli'[c].zcli = cli[c].zcli
      BY <3>1, SMTT(20) DEF CliDrop
    <3>6. op'[c].kind = "yield" /\ ~op'[c].guarded
      BY <3>1, SMTT(20) DEF Yield
    <3>3. cli'[c].zcli <=> irq'[exec'[c]]
      BY <3>5, <3>2, Zenon
    <3>4. cli'[c].ncli = 1 /\ ~cli'[c].intr
      BY <3>1, <3>2, <1>d, <1>f
    <3> QED BY <3>1, <3>6, <3>3, <3>4, Zenon DEF CliOf
  <2>2. ASSUME NEW d \in Cpu, d # c PROVE CliOf(d)'
    BY <1>8, <2>2, <1>a, <1>b, <1>e, Zenon DEF WaitSaved, Install, Goto, localVars
  <2> QED BY <2>1, <2>2, Zenon DEF CliInv
<1>9. ASSUME Dequeue(c) PROVE CliInv'
  <2>1. /\ ctx' = [ctx EXCEPT ![hand[c]] = [@ EXCEPT !.saved = FALSE]] /\ irq' = irq
        /\ exec' = exec /\ running' = running /\ cli' = cli /\ op' = op
        /\ pc[c] = "dequeue" /\ pc' = [pc EXCEPT ![c] = "wait"]
    BY <1>9, Zenon DEF Dequeue, Goto
  <2>2. \A t \in Thread : ctx'[t].rip = ctx[t].rip
    BY <2>1, <1>a DEF Context
  <2>3. CliOf(c)'
    BY <2>1, <1>a, <1>b, Zenon DEF CliOf
  <2>4. ASSUME NEW d \in Cpu, d # c PROVE CliOf(d)'
    BY <2>1, <2>2, <2>4, <1>a, <1>e, Zenon
  <2> QED BY <2>3, <2>4, Zenon DEF CliInv
<1>10. ASSUME Save(c) PROVE CliInv'
  <2>1. /\ pc[c] = "save" /\ pc' = [pc EXCEPT ![c] = "restore"] /\ irq' = irq
        /\ exec' = exec /\ running' = running /\ op' = op
        /\ \A d \in Cpu : d # c => cli'[d] = cli[d]
        /\ \A t \in Thread : t # exec[c] => ctx'[t] = ctx[t]
        /\ cli'[c] = [ncli |-> ctx[running[c]].ncli, zcli |-> ctx[running[c]].zcli,
                      intr |-> cli[c].intr]
    BY <1>10, <1>a, ZenonT(40) DEF Save, Goto, localVars
  <2>2. /\ running[c] \in Thread /\ ctx[running[c]].saved /\ running[c] # exec[c]
        /\ \A d \in Cpu : pc[d] # "restore" => exec[d] # running[c]
    BY <2>1, <1>a DEF ControlInv, ControlOf, ExecInv
  <2>3. ResumesAt(running[c], ctx[running[c]])
    BY <2>2, Zenon DEF ContextInv
  <2>4. /\ cli'[c].ncli = ctx[running[c]].ncli /\ (cli'[c].zcli <=> ctx[running[c]].zcli)
        /\ ~cli'[c].intr /\ ctx'[running[c]].rip = ctx[running[c]].rip
    <3>1. ~cli[c].intr /\ ctx'[running[c]] = ctx[running[c]]
      BY <2>1, <2>2, <1>b, Zenon
    <3> QED BY <2>1, <3>1
  <2>5. ResumesAt(running[c], cli[c])'
    BY <2>1, <2>3, <2>4, Zenon DEF ResumesAt
  <2>6. CliOf(c)'
    BY <2>1, <2>4, <2>5, <1>a, <1>c, Zenon DEF CliOf, HasHand
  <2>7. ASSUME NEW d \in Cpu, d # c PROVE CliOf(d)'
    BY <2>1, <2>7, <1>a, <1>e, Zenon
  <2> QED BY <2>6, <2>7, Zenon DEF CliInv
<1>11. ASSUME Restore(c) PROVE CliInv'
  <2>1. /\ pc[c] = "restore" /\ irq' = irq /\ ctx' = ctx /\ running' = running /\ op' = op
        /\ exec' = [exec EXCEPT ![c] = running[c]]
        /\ pc' = [pc EXCEPT ![c] = IF ctx[running[c]].rip = "entry" THEN "run" ELSE "leave"]
        /\ cli' = [cli EXCEPT ![c] = [@ EXCEPT !.intr = ctx[running[c]].intr]]
    BY <1>11, Zenon DEF Restore, Goto, localVars
  <2>2. /\ running[c] \in Thread /\ ctx[running[c]].saved
        /\ \A d \in Cpu : pc[d] # "restore" => exec[d] # running[c]
    BY <2>1, <1>a DEF ControlInv, ControlOf, ExecInv
  <2>3. ctx[running[c]].intr <=> ctx[running[c]].rip = "entry"
    BY <2>2, Zenon DEF ContextInv
  <2>4. ResumesAt(running[c], cli[c])
    BY <2>1, <1>b, Zenon DEF CliOf
  <2>5. /\ cli'[c].ncli = cli[c].ncli /\ (cli'[c].zcli <=> cli[c].zcli)
        /\ cli'[c].intr <=> ctx[running[c]].intr
    BY <2>1, <1>a DEF CliState
  <2>6. CliOf(c)'
    BY <2>1, <2>2, <2>3, <2>4, <2>5, <1>a, <1>c, Zenon DEF CliOf, HasHand, ResumesAt
  <2>7. ASSUME NEW d \in Cpu, d # c PROVE CliOf(d)'
    BY <2>1, <2>7, <1>a, SMTT(20) DEF CliInv, CliOf, ResumesAt
  <2> QED BY <2>6, <2>7, Zenon DEF CliInv
<1>12. ASSUME Leave(c) PROVE CliInv'
  <2>1. CliOf(c)'
    <3>1. /\ pc[c] = "leave" /\ pc'[c] = "run" /\ exec'[c] = exec[c]
          /\ cli'[c] = IF irq[exec[c]] THEN Iret(CliDrop(cli[c])) ELSE CliDrop(cli[c])
          /\ ~irq'[exec[c]] /\ op'[c] = op[c]
      BY <1>12, <1>a, <1>b, Zenon DEF Leave, Goto, localVars
    <3>2. cli[c].ncli = 1 /\ (cli[c].zcli <=> irq[exec[c]])
      BY <3>1, <1>b, Zenon DEF CliOf
    <3>3. cli'[c].ncli = 0 /\ cli'[c].intr
      BY <3>1, <3>2, <1>d, <1>f
    <3> QED BY <3>1, <3>2, <3>3, <1>c, Zenon DEF CliOf, HasHand
  <2>2. ASSUME NEW d \in Cpu, d # c PROVE CliOf(d)'
    BY <1>12, <2>2, <1>a, <1>b, <1>e, Zenon DEF Leave, Goto, localVars
  <2> QED BY <2>1, <2>2, Zenon DEF CliInv
<1>13. ASSUME NEW ch \in Chan, Release(c, ch) PROVE CliInv'
  <2>1. CliOf(c)'
    <3>1. /\ pc[c] = "run" /\ pc'[c] = "release" /\ exec'[c] = exec[c]
          /\ cli'[c] = CliNew(cli[c])
          /\ irq' = irq /\ op'[c] = op[c]
      BY <1>13, <1>a, <1>b, Zenon DEF Release, StartRelease, Goto, localVars
    <3>2. cli[c].ncli = 0 /\ cli[c].intr /\ ~irq[exec[c]]
      BY <3>1, <1>b, Zenon DEF CliOf
    <3>3. cli'[c].ncli = 1 /\ ~cli'[c].intr /\ ~cli'[c].zcli
      BY <3>1, <3>2, <1>d, <1>f
    <3> QED BY <3>1, <3>2, <3>3, <1>c, Zenon DEF CliOf, HasHand
  <2>2. ASSUME NEW d \in Cpu, d # c PROVE CliOf(d)'
    BY <1>13, <2>2, <1>a, <1>b, <1>e, Zenon DEF Release, StartRelease, Goto, localVars
  <2> QED BY <2>1, <2>2, Zenon DEF CliInv
<1>14. ASSUME NEW ch \in Chan, DeviceInterrupt(c, ch) PROVE CliInv'
  <2>1. CliOf(c)'
    <3>1. /\ pc[c] = "run" /\ pc' = [pc EXCEPT ![c] = "release"] /\ op' = op /\ exec' = exec
          /\ cli' = [cli EXCEPT ![c] = CliNew(Masked(@))] /\ irq' = [irq EXCEPT ![exec[c]] = TRUE]
      BY <1>14, <1>b, Zenon DEF DeviceInterrupt, StartRelease, Goto
    <3>2. irq'[exec'[c]] /\ cli'[c] = CliNew(Masked(cli[c]))
      BY <3>1, <1>a, Zenon
    <3>3. /\ Masked(cli[c]) \in CliState /\ Masked(cli[c]).ncli = 0 /\ ~Masked(cli[c]).intr
      BY <3>1, <1>b, <1>d, Zenon DEF CliOf
    <3>4. cli'[c].ncli = 1 /\ ~cli'[c].intr /\ cli'[c].zcli
      BY <3>2, <3>3, <1>d
    <3> QED BY <3>1, <3>2, <3>4, <1>a, <1>c, Zenon DEF CliOf, HasHand
  <2>2. ASSUME NEW d \in Cpu, d # c PROVE CliOf(d)'
    BY <1>14, <2>2, <1>a, <1>b, <1>e, Zenon
       DEF DeviceInterrupt, StartRelease, Goto, localVars
  <2> QED BY <2>1, <2>2, Zenon DEF CliInv
<1>15. ASSUME ReleaseStep(c) PROVE CliInv'
  <2>1. CliOf(c)'
    BY <1>15, <1>a, <1>b, <1>c, <1>d, Zenon DEF CliOf, ReleaseStep, Goto, localVars
  <2>2. ASSUME NEW d \in Cpu, d # c PROVE CliOf(d)'
    BY <1>15, <2>2, <1>a, <1>b, <1>e, Zenon DEF ReleaseStep, Goto, localVars
  <2> QED BY <2>1, <2>2, Zenon DEF CliInv
<1>16. ASSUME ReleaseEnd(c) PROVE CliInv'
  <2>1. CliOf(c)'
    <3>1. /\ pc[c] = "release" /\ pc'[c] = "run" /\ exec'[c] = exec[c]
          /\ cli'[c] = IF irq[exec[c]] THEN Iret(CliDrop(cli[c])) ELSE CliDrop(cli[c])
          /\ ~irq'[exec[c]] /\ op'[c] = op[c]
      BY <1>16, <1>a, <1>b, Zenon DEF ReleaseEnd, Goto, localVars
    <3>2. cli[c].ncli = 1 /\ (cli[c].zcli <=> irq[exec[c]])
      BY <3>1, <1>b, Zenon DEF CliOf
    <3>3. cli'[c].ncli = 0 /\ cli'[c].intr
      BY <3>1, <3>2, <1>d, <1>f
    <3> QED BY <3>1, <3>2, <3>3, <1>c, Zenon DEF CliOf, HasHand
  <2>2. ASSUME NEW d \in Cpu, d # c PROVE CliOf(d)'
    BY <1>16, <2>2, <1>a, <1>b, <1>e, Zenon DEF ReleaseEnd, Goto, localVars
  <2> QED BY <2>1, <2>2, Zenon DEF CliInv
<1>17. ASSUME Timer(c) PROVE CliInv'
  <2>1. CliOf(c)'
    <3>1. /\ pc[c] = "run" /\ pc'[c] = "timer" /\ exec'[c] = exec[c]
          /\ cli'[c] = Masked(cli[c])
          /\ irq'[exec[c]] /\ op'[c] = op[c]
      BY <1>17, <1>a, <1>b, Zenon DEF Timer, Goto, localVars
    <3>2. cli[c].ncli = 0
      BY <3>1, <1>b, Zenon DEF CliOf
    <3>3. cli'[c].ncli = 0 /\ ~cli'[c].intr
      BY <3>1, <3>2, <1>d, <1>f
    <3> QED BY <3>1, <3>2, <3>3, <1>c, Zenon DEF CliOf, HasHand
  <2>2. ASSUME NEW d \in Cpu, d # c PROVE CliOf(d)'
    BY <1>17, <2>2, <1>a, <1>b, <1>e, Zenon DEF Timer, Goto, localVars
  <2> QED BY <2>1, <2>2, Zenon DEF CliInv
<1>18. ASSUME Elapse(c) PROVE CliInv'
  <2>1. CliOf(c)'
    <3>1. /\ pc[c] = "timer" /\ pc'[c] = "elapse" /\ exec'[c] = exec[c]
          /\ cli'[c] = CliNew(cli[c])
          /\ irq' = irq /\ op'[c] = op[c]
      BY <1>18, <1>a, <1>b, Zenon DEF Elapse, Goto, localVars
    <3>2. cli[c].ncli = 0 /\ ~cli[c].intr /\ irq[exec[c]]
      BY <3>1, <1>b, Zenon DEF CliOf
    <3>3. cli'[c].ncli = 1 /\ ~cli'[c].intr /\ cli'[c].zcli
      BY <3>1, <3>2, <1>d, <1>f
    <3> QED BY <3>1, <3>2, <3>3, <1>c, Zenon DEF CliOf, HasHand
  <2>2. ASSUME NEW d \in Cpu, d # c PROVE CliOf(d)'
    BY <1>18, <2>2, <1>a, <1>b, <1>e, Zenon DEF Elapse, Goto, localVars
  <2> QED BY <2>1, <2>2, Zenon DEF CliInv
<1>19. ASSUME ElapseStep(c) PROVE CliInv'
  <2>1. CliOf(c)'
    BY <1>19, <1>a, <1>b, <1>c, <1>d, Zenon DEF CliOf, ElapseStep, Goto, localVars
  <2>2. ASSUME NEW d \in Cpu, d # c PROVE CliOf(d)'
    BY <1>19, <2>2, <1>a, <1>b, <1>e, Zenon DEF ElapseStep, Goto, localVars
  <2> QED BY <2>1, <2>2, Zenon DEF CliInv
<1>20. ASSUME ElapseEnd(c) PROVE CliInv'
  <2>1. /\ op' = [op EXCEPT ![c] = Yield] /\ pc' = [pc EXCEPT ![c] = "lock"]
        /\ cli' = [cli EXCEPT ![c] = CliNew(CliDrop(@))] /\ exec' = exec /\ irq' = irq
        /\ pc[c] = "elapse"
    BY <1>20, ZenonT(40) DEF ElapseEnd, Enter, Goto
  <2>2. /\ cli'[c].ncli = 1 /\ ~cli'[c].intr /\ cli'[c].zcli /\ irq[exec[c]]
    <3>1. cli[c].ncli = 1 /\ cli[c].zcli /\ irq[exec[c]]
      BY <2>1, <1>b, Zenon DEF CliOf
    <3>2. CliDrop(cli[c]) \in CliState /\ CliDrop(cli[c]).zcli /\ ~CliDrop(cli[c]).intr
      BY <3>1, <1>b, <1>d, Zenon
    <3>3. CliDrop(cli[c]).ncli = 0
      <4>1. CliDrop(cli[c]).ncli = cli[c].ncli - 1
        BY <1>b, <1>d, Zenon
      <4> QED BY <3>1, <4>1
    <3>4. /\ CliNew(CliDrop(cli[c])).ncli = CliDrop(cli[c]).ncli + 1
          /\ ~CliNew(CliDrop(cli[c])).intr
          /\ CliDrop(cli[c]).ncli = 0
                => (CliNew(CliDrop(cli[c])).zcli <=> ~CliDrop(cli[c]).intr)
      BY <3>2, <1>d, Zenon
    <3>5. cli'[c] = CliNew(CliDrop(cli[c]))
      BY <2>1, <1>a, Zenon
    <3> QED BY <3>1, <3>2, <3>3, <3>4, <3>5
  <2>3. CliOf(c)'
    BY <2>1, <2>2, <1>a, Zenon DEF CliOf, Yield
  <2>4. ASSUME NEW d \in Cpu, d # c PROVE CliOf(d)'
    BY <1>20, <2>4, <1>a, <1>b, <1>e, Zenon DEF ElapseEnd, Enter, Goto
  <2> QED BY <2>3, <2>4, Zenon DEF CliInv
<1> QED
  BY <1>1, <1>2, <1>3, <1>4, <1>5, <1>6, <1>7, <1>8, <1>9, <1>10, <1>11, <1>12,
     <1>13, <1>14, <1>15, <1>16, <1>17, <1>18, <1>19, <1>20, Zenon
     DEF Step

(* Time does not run backwards. *)
LEMMA NowStep == TypeOK /\ NowInv /\ [Next]_vars => NowInv'
<1> SUFFICES ASSUME TypeOK, NowInv, [Next]_vars PROVE NowInv'
  OBVIOUS
<1> USE SchedulerAssumption
<1>0. CASE UNCHANGED vars
  BY <1>0, Zenon DEF NowInv, vars, queueVars, localVars
<1> SUFFICES ASSUME NEW c \in Cpu, Step(c) PROVE NowInv'
  BY <1>0, Zenon DEF Next
<1>a. now \in [Cpu -> Nat] /\ ticks \in Nat
  BY Zenon DEF TypeOK
<1>1. ASSUME NEW w \in Worker, Add(c, w) PROVE NowInv'
  BY <1>1, <1>a, Zenon DEF NowInv, Add, Goto, queueVars, localVars
<1>2. ASSUME NEW ch \in Chan, LockGuard(c, ch) PROVE NowInv'
  BY <1>2, <1>a, Zenon DEF NowInv, LockGuard, Goto, queueVars, localVars
<1>3. ASSUME NEW ch \in Chan, UnlockGuard(c, ch) PROVE NowInv'
  BY <1>3, <1>a, Zenon DEF NowInv, UnlockGuard, Goto, queueVars, localVars
<1>4. ASSUME Call(c) PROVE NowInv'
  BY <1>4, <1>a, Zenon DEF NowInv, Call, Enter, Goto, queueVars, localVars
<1>5. ASSUME SchedulingOp(c) PROVE NowInv'
  BY <1>5, <1>a, Zenon DEF NowInv, SchedulingOp, Goto, queueVars, localVars
<1>6. ASSUME Cancel(c) PROVE NowInv'
  BY <1>6, <1>a, Zenon DEF NowInv, Cancel, Install, Goto, queueVars, localVars
<1>7. ASSUME DequeueNone(c) PROVE NowInv'
  BY <1>7, <1>a, Zenon DEF NowInv, DequeueNone, Install, Goto, queueVars, localVars
<1>8. ASSUME WaitSaved(c) PROVE NowInv'
  BY <1>8, <1>a, Zenon DEF NowInv, WaitSaved, Install, Goto, queueVars, localVars
<1>9. ASSUME Dequeue(c) PROVE NowInv'
  BY <1>9, <1>a, Zenon DEF NowInv, Dequeue, Goto, queueVars, localVars
<1>10. ASSUME Save(c) PROVE NowInv'
  BY <1>10, <1>a, Zenon DEF NowInv, Save, Goto, queueVars, localVars
<1>11. ASSUME Restore(c) PROVE NowInv'
  BY <1>11, <1>a, Zenon DEF NowInv, Restore, Goto, queueVars, localVars
<1>12. ASSUME Leave(c) PROVE NowInv'
  BY <1>12, <1>a, Zenon DEF NowInv, Leave, Goto, queueVars, localVars
<1>13. ASSUME NEW ch \in Chan, Release(c, ch) PROVE NowInv'
  BY <1>13, <1>a, Zenon DEF NowInv, Release, StartRelease, Goto, queueVars, localVars
<1>14. ASSUME NEW ch \in Chan, DeviceInterrupt(c, ch) PROVE NowInv'
  BY <1>14, <1>a, Zenon
     DEF NowInv, DeviceInterrupt, StartRelease, Goto, queueVars, localVars
<1>15. ASSUME ReleaseStep(c) PROVE NowInv'
  BY <1>15, <1>a, Zenon DEF NowInv, ReleaseStep, Goto, queueVars, localVars
<1>16. ASSUME ReleaseEnd(c) PROVE NowInv'
  BY <1>16, <1>a, Zenon DEF NowInv, ReleaseEnd, Goto, queueVars, localVars
<1>17. ASSUME Timer(c) PROVE NowInv'
  BY <1>17, <1>a DEF NowInv, Timer, Deadline, Goto, queueVars, localVars
<1>18. ASSUME Elapse(c) PROVE NowInv'
  BY <1>18, <1>a DEF NowInv, Elapse, Goto, queueVars, localVars
<1>19. ASSUME ElapseStep(c) PROVE NowInv'
  BY <1>19, <1>a, Zenon DEF NowInv, ElapseStep, Goto, queueVars, localVars
<1>20. ASSUME ElapseEnd(c) PROVE NowInv'
  BY <1>20, <1>a DEF NowInv, ElapseEnd, Enter, Goto, queueVars, localVars
<1> QED
  BY <1>1, <1>2, <1>3, <1>4, <1>5, <1>6, <1>7, <1>8, <1>9, <1>10, <1>11, <1>12,
     <1>13, <1>14, <1>15, <1>16, <1>17, <1>18, <1>19, <1>20, Zenon
     DEF Step
-----------------------------------------------------------------------------
(* Pending ids *)

(* Only a switch that suspends, a release and elapse change the tables of    *)
(* pending ids.                                                              *)
LEMMA TablesKept ==
    ASSUME NEW c \in Cpu, Step(c)
    PROVE  \/ Dequeue(c) \/ ReleaseStep(c) \/ ElapseStep(c)
           \/ \E ch \in Chan : StartRelease(c, ch) /\ (pc[c] = "run" \/ cli[c].intr)
           \/ pending' = pending /\ blocks' = blocks /\ timeouts' = timeouts /\ todo' = todo
<1> DEFINE Kept == pending' = pending /\ blocks' = blocks /\ timeouts' = timeouts /\ todo' = todo
<1>1. \A w \in Worker : Add(c, w) => Kept
  BY Zenon DEF Add, localVars
<1>2. \A ch \in Chan : LockGuard(c, ch) \/ UnlockGuard(c, ch) => Kept
  BY Zenon DEF LockGuard, UnlockGuard, queueVars, localVars
<1>3. Call(c) \/ SchedulingOp(c) \/ Cancel(c) \/ DequeueNone(c) => Kept
  BY Zenon DEF Call, SchedulingOp, Cancel, DequeueNone, queueVars, localVars
<1>4. WaitSaved(c) \/ Save(c) \/ Restore(c) \/ Leave(c) => Kept
  BY Zenon DEF WaitSaved, Save, Restore, Leave, queueVars, localVars
<1>5. ReleaseEnd(c) \/ Timer(c) \/ Elapse(c) \/ ElapseEnd(c) => Kept
  BY Zenon DEF ReleaseEnd, Timer, Elapse, ElapseEnd, queueVars, localVars
<1>6. \A ch \in Chan : Release(c, ch) \/ DeviceInterrupt(c, ch)
          => StartRelease(c, ch) /\ (pc[c] = "run" \/ cli[c].intr)
  BY Zenon DEF Release, DeviceInterrupt
<1> QED BY <1>1, <1>2, <1>3, <1>4, <1>5, <1>6, Zenon DEF Step

(* issue_pending_id never returns an id that is in use. *)
LEMMA FreshStep == TypeOK /\ FreshInv /\ [Next]_vars => FreshInv'
<1> SUFFICES ASSUME TypeOK, FreshInv, [Next]_vars PROVE FreshInv'
  OBVIOUS
<1> USE SchedulerAssumption
<1>0. CASE UNCHANGED vars
  BY <1>0, Zenon DEF FreshInv, vars, queueVars, localVars
<1> SUFFICES ASSUME NEW c \in Cpu, Step(c) PROVE FreshInv'
  BY <1>0, Zenon DEF Next
<1>a. /\ pending \in [PendingId -> Thread \cup {None}] /\ blocks \in [Chan -> SUBSET PendingId]
      /\ todo \in [Cpu -> SUBSET PendingId] /\ pendingIdGen \in Nat
      /\ \A i \in PendingId : i \in Nat
      /\ \A e \in timeouts : e.id \in PendingId
  BY DEF TypeOK, PendingId, Timeout
<1>1. ASSUME NEW w \in Worker, Add(c, w) PROVE FreshInv'
  BY <1>1, <1>a, Zenon DEF FreshInv, Add, Goto, queueVars, localVars
<1>2. ASSUME NEW ch \in Chan, LockGuard(c, ch) PROVE FreshInv'
  BY <1>2, <1>a, Zenon DEF FreshInv, LockGuard, Goto, queueVars, localVars
<1>3. ASSUME NEW ch \in Chan, UnlockGuard(c, ch) PROVE FreshInv'
  BY <1>3, <1>a, Zenon DEF FreshInv, UnlockGuard, Goto, queueVars, localVars
<1>4. ASSUME Call(c) PROVE FreshInv'
  BY <1>4, <1>a, Zenon DEF FreshInv, Call, Enter, Goto, queueVars, localVars
<1>5. ASSUME SchedulingOp(c) PROVE FreshInv'
  BY <1>5, <1>a, Zenon DEF FreshInv, SchedulingOp, Goto, queueVars, localVars
<1>6. ASSUME Cancel(c) PROVE FreshInv'
  BY <1>6, <1>a, Zenon DEF FreshInv, Cancel, Install, Goto, queueVars, localVars
<1>7. ASSUME DequeueNone(c) PROVE FreshInv'
  BY <1>7, <1>a, Zenon DEF FreshInv, DequeueNone, Install, Goto, queueVars, localVars
<1>8. ASSUME WaitSaved(c) PROVE FreshInv'
  BY <1>8, <1>a, Zenon DEF FreshInv, WaitSaved, Install, Goto, queueVars, localVars
<1>9. ASSUME Dequeue(c) PROVE FreshInv'
  <2>1. PICK l \in Level : Register(c, [runnable EXCEPT ![l] = Tail(@)])
    BY <1>9, Zenon DEF Dequeue
  <2>2. CASE op[c].kind = "yield"
    BY <2>1, <2>2, <1>9, <1>a DEF Register, FreshInv, Dequeue
  <2>3. CASE op[c].kind # "yield"
    <3>1. /\ pendingIdGen' = pendingIdGen + 1
          /\ pending' = [pending EXCEPT ![pendingIdGen] = hand[c]]
          /\ \A ch \in Chan : blocks'[ch] \subseteq blocks[ch] \cup {pendingIdGen}
      BY <2>1, <2>3, Zenon DEF Register
    <3>2. \A e \in timeouts' : e \in timeouts \/ e.id = pendingIdGen
      BY <2>1, <2>3, SMTT(20) DEF Register
    <3>3. \A i \in PendingId : i < pendingIdGen \/ i = pendingIdGen => i < pendingIdGen'
      BY <3>1, <1>a
    <3>4. pendingIdGen \in PendingId /\ todo' = todo
      BY <2>1, <2>3, <1>9, Zenon DEF Register, Dequeue
    <3>5. \A i \in PendingId : pending'[i] # None => i < pendingIdGen'
      BY <3>1, <3>3, <1>a, Zenon DEF FreshInv
    <3>6. \A ch \in Chan : \A i \in blocks'[ch] : i < pendingIdGen'
      BY <3>1, <3>3, <3>4, <1>a, Zenon DEF FreshInv
    <3>7. \A e \in timeouts' : e.id < pendingIdGen'
      BY <3>2, <3>3, <3>4, <1>a, Zenon DEF FreshInv
    <3>8. \A d \in Cpu : \A i \in todo'[d] : i < pendingIdGen'
      BY <3>3, <3>4, <1>a, Zenon DEF FreshInv
    <3> QED BY <3>5, <3>6, <3>7, <3>8, Zenon DEF FreshInv
  <2> QED BY <2>2, <2>3, Zenon
<1>10. ASSUME Save(c) PROVE FreshInv'
  BY <1>10, <1>a, Zenon DEF FreshInv, Save, Goto, queueVars, localVars
<1>11. ASSUME Restore(c) PROVE FreshInv'
  BY <1>11, <1>a, Zenon DEF FreshInv, Restore, Goto, queueVars, localVars
<1>12. ASSUME Leave(c) PROVE FreshInv'
  BY <1>12, <1>a, Zenon DEF FreshInv, Leave, Goto, queueVars, localVars
<1>13. ASSUME NEW ch \in Chan, Release(c, ch) PROVE FreshInv'
  BY <1>13, <1>a, Zenon
     DEF FreshInv, Release, StartRelease, Waiters, Goto, queueVars, localVars
<1>14. ASSUME NEW ch \in Chan, DeviceInterrupt(c, ch) PROVE FreshInv'
  BY <1>14, <1>a, ZenonT(40)
     DEF FreshInv, DeviceInterrupt, StartRelease, Waiters, Goto, queueVars, localVars
<1>15. ASSUME ReleaseStep(c) PROVE FreshInv'
  BY <1>15, <1>a DEF FreshInv, ReleaseStep, Wake
<1>16. ASSUME ReleaseEnd(c) PROVE FreshInv'
  BY <1>16, <1>a, Zenon DEF FreshInv, ReleaseEnd, Goto, queueVars, localVars
<1>17. ASSUME Timer(c) PROVE FreshInv'
  BY <1>17, <1>a, Zenon DEF FreshInv, Timer, Goto, queueVars, localVars
<1>18. ASSUME Elapse(c) PROVE FreshInv'
  BY <1>18, <1>a, Zenon DEF FreshInv, Elapse, Goto, queueVars, localVars
<1>19. ASSUME ElapseStep(c) PROVE FreshInv'
  BY <1>19, <1>a DEF FreshInv, ElapseStep, Wake, Due, Unregistered, localVars
<1>20. ASSUME ElapseEnd(c) PROVE FreshInv'
  BY <1>20, <1>a, Zenon DEF FreshInv, ElapseEnd, Enter, Goto, queueVars, localVars
<1> QED
  BY <1>1, <1>2, <1>3, <1>4, <1>5, <1>6, <1>7, <1>8, <1>9, <1>10, <1>11, <1>12,
     <1>13, <1>14, <1>15, <1>16, <1>17, <1>18, <1>19, <1>20, Zenon
     DEF Step

(* switch pushes an id that is new into one vector. *)
LEMMA ChannelStep == TypeOK /\ FreshInv /\ ChannelInv /\ [Next]_vars => ChannelInv'
<1> SUFFICES ASSUME TypeOK, FreshInv, ChannelInv, [Next]_vars PROVE ChannelInv'
  OBVIOUS
<1>0. CASE UNCHANGED vars
  BY <1>0, Zenon DEF ChannelInv, vars, queueVars
<1> SUFFICES ASSUME NEW c \in Cpu, Step(c) PROVE ChannelInv'
  BY <1>0, Zenon DEF Next
<1>a. blocks \in [Chan -> SUBSET PendingId]
  BY Zenon DEF TypeOK
<1>1. CASE \A ch \in Chan : blocks'[ch] \subseteq blocks[ch]
  BY <1>1, Zenon DEF ChannelInv
<1>2. CASE Dequeue(c)
  <2>1. CASE blocks' = blocks
    BY <2>1, <1>1, Zenon
  <2>2. CASE blocks' = [ch \in Chan |-> IF ch = op[c].chan THEN blocks[ch] \cup {pendingIdGen}
                                       ELSE blocks[ch]]
    <3>1. \A ch \in Chan : pendingIdGen \notin blocks[ch]
      <4>1. \A ch \in Chan : \A i \in blocks[ch] : i < pendingIdGen
        BY Zenon DEF FreshInv
      <4>2. pendingIdGen \in Nat
        BY SchedulerAssumption DEF TypeOK
      <4> QED BY <4>1, <4>2
    <3> QED BY <2>2, <3>1, Zenon DEF ChannelInv
  <2> QED BY <1>2, <2>1, <2>2, Zenon DEF Dequeue, Register
<1>3. CASE ReleaseStep(c)
  BY <1>3, <1>1, Zenon DEF ReleaseStep
<1>4. CASE ElapseStep(c)
  <2>1. PICK e \in Due(c) : blocks' = Unregistered(e)
    BY <1>4, Zenon DEF ElapseStep
  <2>2. \A ch \in Chan : blocks'[ch] \subseteq blocks[ch]
    BY <2>1, Zenon DEF Unregistered
  <2> QED BY <2>2, <1>1, Zenon
<1>5. ASSUME NEW ch \in Chan, StartRelease(c, ch) PROVE ChannelInv'
  <2>1. blocks' = [blocks EXCEPT ![ch] = @ \ Waiters(ch)]
    BY <1>5, Zenon DEF StartRelease
  <2>2. \A dh \in Chan : blocks'[dh] \subseteq blocks[dh]
    BY <2>1, <1>a, Zenon
  <2> QED BY <2>2, <1>1, Zenon
<1>6. CASE blocks' = blocks
  BY <1>6, <1>1, Zenon
<1> QED BY <1>2, <1>3, <1>4, <1>5, <1>6, TablesKept, Zenon

(* A suspended task never loses its last way to be woken. *)
LEMMA OrphanStep == TypeOK /\ ControlInv /\ OpInv /\ CliInv /\ NoOrphan /\ [Next]_vars => NoOrphan'
<1> SUFFICES ASSUME TypeOK, ControlInv, OpInv, CliInv, NoOrphan, [Next]_vars PROVE NoOrphan'
  OBVIOUS
<1> USE SchedulerAssumption
<1>0. CASE UNCHANGED vars
  BY <1>0, Zenon DEF NoOrphan, vars, queueVars, localVars
<1> SUFFICES ASSUME NEW c \in Cpu, Step(c) PROVE NoOrphan'
  BY <1>0, Zenon DEF Next
<1>a. /\ pending \in [PendingId -> Thread \cup {None}] /\ blocks \in [Chan -> SUBSET PendingId]
      /\ todo \in [Cpu -> SUBSET PendingId]
  BY Zenon DEF TypeOK
<1>b. /\ cli[c].intr => pc[c] = "run"
      /\ pc[c] # "release" => todo[c] = {}
  BY Zenon DEF ControlInv, ControlOf, CliInv, CliOf
<1>1. ASSUME NEW w \in Worker, Add(c, w) PROVE NoOrphan'
  BY <1>1, <1>a, Zenon DEF NoOrphan, Add, Goto, queueVars, localVars
<1>2. ASSUME NEW ch \in Chan, LockGuard(c, ch) PROVE NoOrphan'
  BY <1>2, <1>a, Zenon DEF NoOrphan, LockGuard, Goto, queueVars, localVars
<1>3. ASSUME NEW ch \in Chan, UnlockGuard(c, ch) PROVE NoOrphan'
  BY <1>3, <1>a, Zenon DEF NoOrphan, UnlockGuard, Goto, queueVars, localVars
<1>4. ASSUME Call(c) PROVE NoOrphan'
  BY <1>4, <1>a, Zenon DEF NoOrphan, Call, Enter, Goto, queueVars, localVars
<1>5. ASSUME SchedulingOp(c) PROVE NoOrphan'
  BY <1>5, <1>a, Zenon DEF NoOrphan, SchedulingOp, Goto, queueVars, localVars
<1>6. ASSUME Cancel(c) PROVE NoOrphan'
  BY <1>6, <1>a, Zenon DEF NoOrphan, Cancel, Install, Goto, queueVars, localVars
<1>7. ASSUME DequeueNone(c) PROVE NoOrphan'
  BY <1>7, <1>a, Zenon DEF NoOrphan, DequeueNone, Install, Goto, queueVars, localVars
<1>8. ASSUME WaitSaved(c) PROVE NoOrphan'
  BY <1>8, <1>a, Zenon DEF NoOrphan, WaitSaved, Install, Goto, queueVars, localVars
<1>9. ASSUME Dequeue(c) PROVE NoOrphan'
  <2>1. PICK l \in Level : Register(c, [runnable EXCEPT ![l] = Tail(@)])
    BY <1>9, Zenon DEF Dequeue
  <2>2. todo' = todo
    BY <1>9, Zenon DEF Dequeue
  <2>3. CASE op[c].kind = "yield"
    BY <2>1, <2>2, <2>3, Zenon DEF Register, NoOrphan
  <2>4. CASE op[c].kind # "yield"
    <3>1. /\ pending' = [pending EXCEPT ![pendingIdGen] = hand[c]]
          /\ \A ch \in Chan : blocks[ch] \subseteq blocks'[ch]
          /\ timeouts \subseteq timeouts'
      BY <2>1, <2>4, Zenon DEF Register
    <3>2. ASSUME NEW i \in PendingId, i # pendingIdGen, pending'[i] # None
          PROVE  \/ \E ch \in Chan : i \in blocks'[ch]
                 \/ \E e \in timeouts' : e.id = i
                 \/ \E d \in Cpu : i \in todo'[d]
      BY <3>1, <3>2, <2>2, <1>a, Zenon DEF NoOrphan
    <3>3. CASE op[c].chan \in Chan
      <4>1. pendingIdGen \in blocks'[op[c].chan]
        BY <3>3, <2>1, <2>4, Zenon DEF Register
      <4> QED BY <3>2, <3>3, <4>1, Zenon DEF NoOrphan
    <3>4. CASE op[c].chan \notin Chan
      <4>1. op[c].timeout # None
        BY <3>4, <2>4 DEF OpInv, TypeOK, Op
      <4> DEFINE e0 == [at |-> Deadline(op[c].timeout), id |-> pendingIdGen, chan |-> op[c].chan]
      <4>2. e0 \in timeouts' /\ e0.id = pendingIdGen
        BY <4>1, <2>1, <2>4, Zenon DEF Register
      <4> QED BY <3>2, <4>2, Zenon DEF NoOrphan
    <3> QED BY <3>3, <3>4, Zenon
  <2> QED BY <2>3, <2>4, Zenon
<1>10. ASSUME Save(c) PROVE NoOrphan'
  BY <1>10, <1>a, Zenon DEF NoOrphan, Save, Goto, queueVars, localVars
<1>11. ASSUME Restore(c) PROVE NoOrphan'
  BY <1>11, <1>a, Zenon DEF NoOrphan, Restore, Goto, queueVars, localVars
<1>12. ASSUME Leave(c) PROVE NoOrphan'
  BY <1>12, <1>a, Zenon DEF NoOrphan, Leave, Goto, queueVars, localVars
<1>13. ASSUME NEW ch \in Chan, Release(c, ch) PROVE NoOrphan'
  <2>1. todo'[c] = blocks[ch] /\ \A d \in Cpu : d # c => todo'[d] = todo[d]
    BY <1>13, <1>a, Zenon DEF Release, DeviceInterrupt, StartRelease, Waiters
  <2>2. /\ pending' = pending /\ timeouts' = timeouts /\ todo[c] = {}
        /\ \A dh \in Chan : dh # ch => blocks'[dh] = blocks[dh]
    BY <1>13, <1>a, <1>b, Zenon DEF Release, DeviceInterrupt, StartRelease, Waiters
  <2> QED BY <2>1, <2>2, Zenon DEF NoOrphan
<1>14. ASSUME NEW ch \in Chan, DeviceInterrupt(c, ch) PROVE NoOrphan'
  <2>1. todo'[c] = blocks[ch] /\ \A d \in Cpu : d # c => todo'[d] = todo[d]
    BY <1>14, <1>a, Zenon DEF Release, DeviceInterrupt, StartRelease, Waiters
  <2>2. /\ pending' = pending /\ timeouts' = timeouts /\ todo[c] = {}
        /\ \A dh \in Chan : dh # ch => blocks'[dh] = blocks[dh]
    BY <1>14, <1>a, <1>b, ZenonT(40) DEF Release, DeviceInterrupt, StartRelease, Waiters
  <2> QED BY <2>1, <2>2, Zenon DEF NoOrphan
<1>15. ASSUME ReleaseStep(c) PROVE NoOrphan'
  BY <1>15, <1>a DEF NoOrphan, ReleaseStep, Wake
<1>16. ASSUME ReleaseEnd(c) PROVE NoOrphan'
  BY <1>16, <1>a, Zenon DEF NoOrphan, ReleaseEnd, Goto, queueVars, localVars
<1>17. ASSUME Timer(c) PROVE NoOrphan'
  BY <1>17, <1>a, Zenon DEF NoOrphan, Timer, Goto, queueVars, localVars
<1>18. ASSUME Elapse(c) PROVE NoOrphan'
  BY <1>18, <1>a, Zenon DEF NoOrphan, Elapse, Goto, queueVars, localVars
<1>19. ASSUME ElapseStep(c) PROVE NoOrphan'
  <2>1. PICK e \in Due(c) :
          /\ Wake(e.id)
          /\ blocks' = Unregistered(e)
          /\ timeouts' = timeouts \ {e}
    BY <1>19, Zenon DEF ElapseStep
  <2>2. /\ \A i \in PendingId : pending'[i] # None => i # e.id /\ pending[i] # None
        /\ todo' = todo
        /\ \A ch \in Chan : \A i \in blocks[ch] : i # e.id => i \in blocks'[ch]
        /\ \A f \in timeouts : f.id # e.id => f \in timeouts'
    BY <1>19, <2>1, <1>a, Zenon DEF Wake, ElapseStep, Unregistered, localVars
  <2> QED BY <2>2, Zenon DEF NoOrphan
<1>20. ASSUME ElapseEnd(c) PROVE NoOrphan'
  BY <1>20, <1>a, ZenonT(40) DEF NoOrphan, ElapseEnd, Enter, Goto, queueVars, localVars
<1> QED
  BY <1>1, <1>2, <1>3, <1>4, <1>5, <1>6, <1>7, <1>8, <1>9, <1>10, <1>11, <1>12,
     <1>13, <1>14, <1>15, <1>16, <1>17, <1>18, <1>19, <1>20, Zenon
     DEF Step

-----------------------------------------------------------------------------
(* The places of the tasks *)

(* A step that moves no task. *)
LEMMA PlaceFrame ==
    ASSUME PlaceInv, UNCHANGED <<created, runnable, pending, running, hand>>
    PROVE  PlaceInv'
BY DEF PlaceInv, ThreadInOnePlace, InQueue, InPending, Held, InQ, QueueOK

(* A task moves between running_task and the local of switch. *)
LEMMA PlaceHand ==
    ASSUME TypeOK, PlaceInv, UNCHANGED <<created, runnable, pending>>, NEW c \in Cpu,
           running' \in [Cpu -> Thread \cup {None}], hand' \in [Cpu -> Thread \cup {None}],
           running'[c] = hand[c], hand'[c] = running[c],
           \A d \in Cpu : d # c => running'[d] = running[d] /\ hand'[d] = hand[d]
    PROVE  PlaceInv'
<1>1. \A d \in Cpu, t \in Thread : Held(d, t)' <=> Held(d, t)
  BY Zenon DEF Held
<1>2. \A d \in Cpu : /\ running'[d] = None \/ hand'[d] = None
                     /\ running'[d] # None \/ hand'[d] # None => d \in created
  BY Zenon DEF PlaceInv, ThreadInOnePlace
<1>3. \A t \in Thread : (InQueue(t)' <=> InQueue(t)) /\ (InPending(t)' <=> InPending(t))
  BY Zenon DEF InQueue, InPending
<1>4. QueueOK(runnable)'
  BY Zenon DEF PlaceInv, ThreadInOnePlace, QueueOK
<1> QED BY <1>1, <1>2, <1>3, <1>4, Zenon DEF PlaceInv, ThreadInOnePlace

(* release and elapse move a task from pending_tasks to its queue. *)
LEMMA PlaceWake ==
    ASSUME TypeOK, PlaceInv, NEW id \in PendingId, Wake(id),
           UNCHANGED <<created, running, hand>>
    PROVE  PlaceInv'
<1>0. pending \in [PendingId -> Thread \cup {None}] /\ runnable \in [Level -> Seq(Thread)]
      /\ None \notin Thread
  BY SchedulerAssumption, Zenon DEF TypeOK
<1>1. CASE pending[id] = None
  <2>1. pending' = pending /\ runnable' = runnable
    BY <1>1, <1>0, ZenonT(40) DEF Wake
  <2> QED BY <2>1, PlaceFrame, Zenon
<1>2. CASE pending[id] # None
  <2>0. PICK t \in Thread : t = pending[id]
    BY <1>0, <1>2, Zenon
  <2>1. t \in Thread /\ InPending(t) /\ ~InQueue(t) /\ t \in created
    BY <2>0, <1>2, Zenon DEF PlaceInv, ThreadInOnePlace, InPending
  <2>2. /\ \A u \in Thread : InQueue(u)' <=> InQueue(u) \/ u = t
        /\ QueueOK(runnable)'
    BY <1>0, <1>2, <2>0, <2>1, EnqueuedFacts, Zenon
       DEF Wake, InQueue, PlaceInv, ThreadInOnePlace
  <2>3. pending'[id] = None /\ \A i \in PendingId : i # id => pending'[i] = pending[i]
    BY <1>0, Zenon DEF Wake
  <2>4. \A i \in PendingId : i # id => pending[i] # t
    BY <1>2, <2>0, Zenon DEF PlaceInv, ThreadInOnePlace
  <2>5. \A u \in Thread : InPending(u)' <=> InPending(u) /\ u # t
    BY <2>0, <2>3, <2>4, <2>1, <1>0, Zenon DEF InPending
  <2>6. \A d \in Cpu, u \in Thread : Held(d, u)' <=> Held(d, u)
    BY Zenon DEF Held
  <2>7. ~InPending(t)' /\ \A d \in Cpu : ~Held(d, t)
    BY <2>1, <2>5, Zenon DEF PlaceInv, ThreadInOnePlace
  <2>8. \A i \in PendingId : pending'[i] \notin Cpu
    BY <2>3, <1>0, Zenon DEF PlaceInv, Thread
  <2>9. \A i, j \in PendingId : pending'[i] = pending'[j] /\ pending'[i] # None => i = j
    BY <2>3, Zenon DEF PlaceInv, ThreadInOnePlace
  <2> QED BY <2>1, <2>2, <2>5, <2>6, <2>7, <2>8, <2>9, SMTT(20) DEF PlaceInv, ThreadInOnePlace
<1> QED BY <1>1, <1>2, Zenon

(* add puts a new task in its queue. *)
LEMMA PlaceAdd ==
    ASSUME TypeOK, PlaceInv, NEW w \in Worker, w \notin created,
           created' = created \cup {w}, runnable' = Enqueued(runnable, w),
           UNCHANGED <<pending, running, hand>>
    PROVE  PlaceInv'
<1>0. runnable \in [Level -> Seq(Thread)] /\ w \in Thread
  BY Zenon DEF TypeOK, Thread
<1>1. ~InQueue(w) /\ ~InPending(w) /\ \A d \in Cpu : ~Held(d, w)
  BY <1>0, Zenon DEF PlaceInv
<1>2. /\ \A u \in Thread : InQueue(u)' <=> InQueue(u) \/ u = w
      /\ QueueOK(runnable)'
  BY <1>0, <1>1, EnqueuedFacts, Zenon DEF InQueue, PlaceInv, ThreadInOnePlace
<1>3. \A u \in Thread : InPending(u)' <=> InPending(u)
  BY Zenon DEF InPending
<1>4. \A d \in Cpu, u \in Thread : Held(d, u)' <=> Held(d, u)
  BY Zenon DEF Held
<1> QED BY <1>0, <1>1, <1>2, <1>3, <1>4, Zenon DEF PlaceInv, ThreadInOnePlace

(* switch takes running_task, or turns the boot thread into a task. *)
LEMMA PlaceEnter ==
    ASSUME TypeOK, ControlInv, PlaceInv, NEW c \in Cpu, NEW o, pc[c] \in Ordinary, Enter(c, o),
           UNCHANGED <<runnable, pending>>
    PROVE  PlaceInv'
<1>0. /\ running \in [Cpu -> Thread \cup {None}] /\ hand \in [Cpu -> Thread \cup {None}]
      /\ exec \in [Cpu -> Thread] /\ None \notin Thread /\ c \in Thread
  BY SchedulerAssumption, Zenon DEF TypeOK, Thread
<1>1. hand[c] = None
  BY Zenon DEF ControlInv, ControlOf, HasHand, Ordinary
<1>2. CASE running[c] # None
  <2>1. hand'[c] = running[c] /\ running'[c] = None /\ running[c] \in created
    BY <1>0, <1>2, Zenon DEF Enter, PlaceInv, Held
  <2>2. created' = created
    BY <2>1, Zenon DEF Enter
  <2>3. /\ running' \in [Cpu -> Thread \cup {None}] /\ hand' \in [Cpu -> Thread \cup {None}]
        /\ \A d \in Cpu : d # c => running'[d] = running[d] /\ hand'[d] = hand[d]
    BY <1>0, <1>2, ZenonT(40) DEF Enter
  <2> QED BY <1>1, <2>1, <2>2, <2>3, PlaceHand, Zenon
<1>3. CASE running[c] = None
  <2>1. exec[c] = c /\ c \notin created
    BY <1>3, <1>0 DEF ControlInv, ControlOf
  <2>2. /\ hand'[c] = c /\ running'[c] = None /\ created' = created \cup {c}
        /\ \A d \in Cpu : d # c => running'[d] = running[d] /\ hand'[d] = hand[d]
    BY <2>1, <1>0, <1>3, Zenon DEF Enter
  <2>3. \A d \in Cpu, u \in Thread : Held(d, u)' <=> Held(d, u) \/ (d = c /\ u = c)
    BY <2>2, <1>0, <1>1, <1>3, Zenon DEF Held
  <2>4. ~InQueue(c) /\ ~InPending(c) /\ \A d \in Cpu : ~Held(d, c)
    BY <1>0, <2>1, Zenon DEF PlaceInv
  <2>5. \A u \in Thread : (InQueue(u)' <=> InQueue(u)) /\ (InPending(u)' <=> InPending(u))
    BY Zenon DEF InQueue, InPending
  <2>6. QueueOK(runnable)'
    BY Zenon DEF PlaceInv, ThreadInOnePlace, QueueOK
  <2>7. \A d \in Cpu : /\ running'[d] = None \/ hand'[d] = None
                       /\ running'[d] # None \/ hand'[d] # None => d \in created'
    BY <2>2, Zenon DEF PlaceInv, ThreadInOnePlace
  <2>8. \A u \in Thread :
            u \in created' <=> InQueue(u)' \/ InPending(u)' \/ \E d \in Cpu : Held(d, u)'
    BY <2>2, <2>3, <2>5, Zenon DEF PlaceInv
  <2>9. /\ \A i, j \in PendingId : pending'[i] = pending'[j] /\ pending'[i] # None => i = j
        /\ \A i \in PendingId : pending'[i] \notin Cpu
    BY Zenon DEF PlaceInv, ThreadInOnePlace
  <2>10. \A u \in Thread : ~(InQueue(u)' /\ InPending(u)')
    BY <2>5, Zenon DEF PlaceInv, ThreadInOnePlace
  <2>11. \A d \in Cpu, u \in Thread : Held(d, u)' => ~InQueue(u)' /\ ~InPending(u)'
    BY <2>3, <2>4, <2>5, Zenon DEF PlaceInv, ThreadInOnePlace
  <2>12. \A d, e \in Cpu, u \in Thread : Held(d, u)' /\ Held(e, u)' => d = e
    <3> SUFFICES ASSUME NEW d \in Cpu, NEW e \in Cpu, NEW u \in Thread, Held(d, u)', Held(e, u)'
                 PROVE  d = e
      OBVIOUS
    <3>1. (Held(d, u) \/ (d = c /\ u = c)) /\ (Held(e, u) \/ (e = c /\ u = c))
      BY <2>3, Zenon
    <3>2. CASE u = c
      BY <2>4, <3>1, <3>2, Zenon
    <3>3. CASE u # c
      BY <3>1, <3>3, Zenon DEF PlaceInv, ThreadInOnePlace
    <3> QED BY <3>2, <3>3, Zenon
  <2> QED BY <2>6, <2>7, <2>8, <2>9, <2>10, <2>11, <2>12, ZenonT(40) DEF PlaceInv, ThreadInOnePlace
<1> QED BY <1>2, <1>3, Zenon

(* dequeue exchanges the current task for the front of a run queue. *)
LEMMA PlaceDequeue ==
    ASSUME TypeOK, ControlInv, OpInv, FreshInv, PlaceInv, NEW c \in Cpu, Dequeue(c)
    PROVE  PlaceInv'
<1>0. /\ running \in [Cpu -> Thread \cup {None}] /\ hand \in [Cpu -> Thread \cup {None}]
      /\ runnable \in [Level -> Seq(Thread)] /\ None \notin Thread
      /\ pending \in [PendingId -> Thread \cup {None}] /\ pendingIdGen \in Nat
  BY SchedulerAssumption DEF TypeOK
<1>1. PICK l \in Level :
        /\ runnable[l] # <<>>
        /\ Register(c, [runnable EXCEPT ![l] = Tail(@)])
        /\ hand' = [hand EXCEPT ![c] = Head(runnable[l])]
  BY Zenon DEF Dequeue, IsNextLevel
<1>2. PICK h \in Thread : h = Head(runnable[l])
  BY <1>0, <1>1, PoppedFacts, Zenon
<1>3. PICK q \in [Level -> Seq(Thread)] : q = [runnable EXCEPT ![l] = Tail(@)]
  BY <1>0, <1>1, PoppedFacts, Zenon
<1>4. InQueue(h) /\ QueueOK(q) /\ \A u \in Thread : InQ(q, u) <=> InQueue(u) /\ u # h
  BY <1>0, <1>1, <1>2, <1>3, PoppedFacts, Zenon DEF InQueue, PlaceInv, ThreadInOnePlace
<1>5. hand[c] \in Thread /\ hand[c] = exec[c] /\ running[c] = None
  BY <1>0 DEF Dequeue, ControlInv, ControlOf, HasHand
<1>6. PICK t \in Thread : t = hand[c]
  BY <1>5, Zenon
<1>7. Held(c, t) /\ ~InQueue(t) /\ ~InPending(t) /\ t # h /\ t \in created /\ h \in created
  BY <1>4, <1>6, Zenon DEF Held, PlaceInv, ThreadInOnePlace
<1>8. ~InPending(h) /\ \A d \in Cpu : ~Held(d, h)
  BY <1>4, Zenon DEF PlaceInv, ThreadInOnePlace
<1>9. \A d \in Cpu, u \in Thread : Held(d, u)' <=> IF d = c THEN u = h ELSE Held(d, u)
  BY <1>0, <1>1, <1>2, <1>5, Zenon DEF Held, Dequeue
<1>10. \A d \in Cpu : /\ running'[d] = None \/ hand'[d] = None
                      /\ running'[d] # None \/ hand'[d] # None => d \in created'
  BY <1>0, <1>1, <1>5, Zenon DEF PlaceInv, ThreadInOnePlace, Dequeue
<1>11. \A d \in Cpu : d # c => ~Held(d, t)
  BY <1>7, Zenon DEF PlaceInv, ThreadInOnePlace
<1>12. created' = created /\ \A u \in Thread : Held(c, u) <=> u = t
  BY <1>0, <1>5, <1>6, Zenon DEF Dequeue, Held
<1>13. CASE op[c].kind = "yield"
  <2>1. runnable' = Enqueued(q, t) /\ pending' = pending
    BY <1>1, <1>3, <1>6, <1>13, Zenon DEF Register
  <2>2. QueueOK(runnable)' /\ \A u \in Thread : InQueue(u)' <=> (InQueue(u) /\ u # h) \/ u = t
    BY <2>1, <1>4, <1>7, EnqueuedFacts, Zenon DEF InQueue
  <2>3. \A u \in Thread : InPending(u)' <=> InPending(u)
    BY <2>1, Zenon DEF InPending
  <2>4. \A u \in Thread :
            u \in created' <=> InQueue(u)' \/ InPending(u)' \/ \E d \in Cpu : Held(d, u)'
    BY <2>2, <2>3, <1>7, <1>9, <1>12, ZenonT(40) DEF PlaceInv
  <2>5. \A d, e \in Cpu, u \in Thread : Held(d, u)' /\ Held(e, u)' => d = e
    BY <1>8, <1>9, ZenonT(40) DEF PlaceInv, ThreadInOnePlace
  <2>6. \A u \in Thread : ~(InQueue(u)' /\ InPending(u)')
    BY <2>2, <2>3, <1>7, Zenon DEF PlaceInv, ThreadInOnePlace
  <2>7. \A d \in Cpu, u \in Thread : Held(d, u)' => ~InQueue(u)' /\ ~InPending(u)'
    <3> SUFFICES ASSUME NEW d \in Cpu, NEW u \in Thread, Held(d, u)'
                 PROVE  ~InQueue(u)' /\ ~InPending(u)'
      OBVIOUS
    <3>1. CASE d = c
      <4>1. u = h
        BY <3>1, <1>9, Zenon
      <4> QED BY <4>1, <2>2, <2>3, <1>7, <1>8, Zenon
    <3>2. CASE d # c
      <4>1. Held(d, u) /\ u # t
        BY <3>2, <1>9, <1>11, Zenon
      <4>2. ~InQueue(u) /\ ~InPending(u)
        BY <4>1, Zenon DEF PlaceInv, ThreadInOnePlace
      <4> QED BY <4>1, <4>2, <2>2, <2>3, Zenon
    <3> QED BY <3>1, <3>2, Zenon
  <2> QED BY <2>1, <2>2, <2>4, <2>5, <2>6, <2>7, <1>10, Zenon
             DEF PlaceInv, ThreadInOnePlace
<1>14. CASE op[c].kind # "yield"
  <2>1. /\ runnable' = q /\ pendingIdGen \in PendingId
        /\ pending' = [pending EXCEPT ![pendingIdGen] = t]
    BY <1>1, <1>3, <1>6, <1>14, ZenonT(40) DEF Register
  <2>2. pending[pendingIdGen] = None
    BY <2>1, <1>0 DEF FreshInv
  <2>3. QueueOK(runnable)' /\ \A u \in Thread : InQueue(u)' <=> InQueue(u) /\ u # h
    BY <2>1, <1>4, Zenon DEF InQueue
  <2>4. \A u \in Thread : InPending(u)' <=> InPending(u) \/ u = t
    BY <2>1, <2>2, <1>0, Zenon DEF InPending
  <2>5. \A u \in Thread :
            u \in created' <=> InQueue(u)' \/ InPending(u)' \/ \E d \in Cpu : Held(d, u)'
    BY <2>3, <2>4, <1>7, <1>9, <1>12, Zenon DEF PlaceInv
  <2>6. \A d, e \in Cpu, u \in Thread : Held(d, u)' /\ Held(e, u)' => d = e
    <3>1. \A d, e \in Cpu, u \in Thread : Held(d, u) /\ Held(e, u) => d = e
      BY Zenon DEF PlaceInv, ThreadInOnePlace
    <3>2. \A d \in Cpu, u \in Thread : d # c => (Held(d, u)' <=> Held(d, u))
      BY <1>9, Zenon
    <3>3. \A u \in Thread : Held(c, u)' <=> u = h
      BY <1>9, Zenon
    <3>4. \A d \in Cpu, u \in Thread : d # c /\ Held(d, u)' => ~Held(c, u)'
      BY <1>8, <3>2, <3>3, Zenon
    <3> SUFFICES ASSUME NEW d \in Cpu, NEW e \in Cpu, NEW u \in Thread, Held(d, u)', Held(e, u)'
                 PROVE  d = e
      BY Zenon
    <3>5. CASE d = c \/ e = c
      BY <3>4, <3>5, Zenon
    <3>6. CASE d # c /\ e # c
      BY <3>1, <3>2, <3>6, Zenon
    <3> QED BY <3>5, <3>6, Zenon
  <2>7. \A u \in Thread : ~(InQueue(u)' /\ InPending(u)')
    BY <2>3, <2>4, <1>7, ZenonT(40) DEF PlaceInv, ThreadInOnePlace
  <2>8. \A d \in Cpu, u \in Thread : Held(d, u)' => ~InQueue(u)' /\ ~InPending(u)'
    <3> SUFFICES ASSUME NEW d \in Cpu, NEW u \in Thread, Held(d, u)'
                 PROVE  ~InQueue(u)' /\ ~InPending(u)'
      OBVIOUS
    <3>1. CASE d = c
      <4>1. u = h
        BY <3>1, <1>9, Zenon
      <4> QED BY <4>1, <2>3, <2>4, <1>7, <1>8, Zenon
    <3>2. CASE d # c
      <4>1. Held(d, u) /\ u # t
        BY <3>2, <1>9, <1>11, Zenon
      <4>2. ~InQueue(u) /\ ~InPending(u)
        BY <4>1, Zenon DEF PlaceInv, ThreadInOnePlace
      <4> QED BY <4>1, <4>2, <2>3, <2>4, Zenon
    <3> QED BY <3>1, <3>2, Zenon
  <2>9. t \notin Cpu
    BY <1>5, <1>6, <1>14, SchedulerAssumption, Zenon DEF OpInv
  <2>10. \A i \in PendingId : pending'[i] \notin Cpu
    BY <2>1, <2>9, <1>0, Zenon DEF PlaceInv
  <2>11. \A i \in PendingId : pending[i] # t
    BY <1>7, Zenon DEF InPending
  <2>12. \A i, j \in PendingId : pending'[i] = pending'[j] /\ pending'[i] # None => i = j
    BY <2>1, <2>11, <1>0, Zenon DEF PlaceInv, ThreadInOnePlace
  <2> QED BY <2>3, <2>5, <2>6, <2>7, <2>8, <2>10, <2>12, <1>10, Zenon
             DEF PlaceInv, ThreadInOnePlace
<1> QED BY <1>13, <1>14, ZenonT(40)

(* No step duplicates a task or loses one. *)
LEMMA PlaceStep == TypeOK /\ ControlInv /\ OpInv /\ FreshInv /\ PlaceInv /\ [Next]_vars => PlaceInv'
<1> SUFFICES ASSUME TypeOK, ControlInv, OpInv, FreshInv, PlaceInv, [Next]_vars PROVE PlaceInv'
  OBVIOUS
<1> USE SchedulerAssumption
<1>0. CASE UNCHANGED vars
  BY <1>0, PlaceFrame, Zenon DEF vars, queueVars, localVars
<1> SUFFICES ASSUME NEW c \in Cpu, Step(c) PROVE PlaceInv'
  BY <1>0, Zenon DEF Next
<1>a. /\ running \in [Cpu -> Thread \cup {None}] /\ hand \in [Cpu -> Thread \cup {None}]
      /\ todo \in [Cpu -> SUBSET PendingId] /\ pc \in [Cpu -> Labels]
  BY Zenon DEF TypeOK
<1>b. ASSUME NEW l, pc[c] \in HasHand, Install(c, l), UNCHANGED <<created, runnable, pending>>
      PROVE  PlaceInv'
  <2>1. running[c] = None
    BY <1>b, Zenon DEF ControlInv, ControlOf
  <2>2. /\ running' \in [Cpu -> Thread \cup {None}] /\ hand' \in [Cpu -> Thread \cup {None}]
        /\ running'[c] = hand[c] /\ hand'[c] = running[c]
        /\ \A d \in Cpu : d # c => running'[d] = running[d] /\ hand'[d] = hand[d]
    BY <1>a, <1>b, <2>1, Zenon DEF Install
  <2> QED BY <1>b, <2>2, PlaceHand, Zenon
<1>1. ASSUME NEW w \in Worker, Add(c, w) PROVE PlaceInv'
  BY <1>1, PlaceAdd, Zenon DEF Add, localVars
<1>2. ASSUME NEW ch \in Chan, LockGuard(c, ch) PROVE PlaceInv'
  BY <1>2, PlaceFrame, Zenon DEF LockGuard, queueVars, localVars
<1>3. ASSUME NEW ch \in Chan, UnlockGuard(c, ch) PROVE PlaceInv'
  BY <1>3, PlaceFrame, Zenon DEF UnlockGuard, queueVars, localVars
<1>4. ASSUME Call(c) PROVE PlaceInv'
  <2>1. /\ pc[c] \in Ordinary /\ UNCHANGED <<runnable, pending>>
        /\ \E o \in Op : Enter(c, o)
    BY <1>4, Zenon DEF Call, Ordinary, queueVars
  <2> QED BY <2>1, PlaceEnter, Zenon
<1>5. ASSUME SchedulingOp(c) PROVE PlaceInv'
  BY <1>5, PlaceFrame, Zenon DEF SchedulingOp, queueVars, localVars
<1>6. ASSUME Cancel(c) PROVE PlaceInv'
  <2>1. pc[c] \in HasHand /\ Install(c, pc'[c]) /\ UNCHANGED <<created, runnable, pending>>
    BY <1>6, <1>a, Zenon DEF Cancel, Install, HasHand, Goto, queueVars
  <2> QED BY <2>1, <1>b, Zenon
<1>7. ASSUME DequeueNone(c) PROVE PlaceInv'
  <2>1. pc[c] \in HasHand /\ Install(c, pc'[c]) /\ UNCHANGED <<created, runnable, pending>>
    BY <1>7, <1>a, Zenon DEF DequeueNone, Install, HasHand, Goto, queueVars
  <2> QED BY <2>1, <1>b, Zenon
<1>8. ASSUME WaitSaved(c) PROVE PlaceInv'
  <2>1. pc[c] \in HasHand /\ Install(c, pc'[c]) /\ UNCHANGED <<created, runnable, pending>>
    BY <1>8, <1>a, Zenon DEF WaitSaved, Install, HasHand, Goto, queueVars
  <2> QED BY <2>1, <1>b, Zenon
<1>9. ASSUME Dequeue(c) PROVE PlaceInv'
  BY <1>9, PlaceDequeue, Zenon
<1>10. ASSUME Save(c) PROVE PlaceInv'
  BY <1>10, PlaceFrame, Zenon DEF Save, queueVars, localVars
<1>11. ASSUME Restore(c) PROVE PlaceInv'
  BY <1>11, PlaceFrame, Zenon DEF Restore, queueVars, localVars
<1>12. ASSUME Leave(c) PROVE PlaceInv'
  BY <1>12, PlaceFrame, Zenon DEF Leave, queueVars, localVars
<1>13. ASSUME NEW ch \in Chan, Release(c, ch) PROVE PlaceInv'
  BY <1>13, PlaceFrame, Zenon DEF Release, StartRelease, queueVars, localVars
<1>14. ASSUME NEW ch \in Chan, DeviceInterrupt(c, ch) PROVE PlaceInv'
  BY <1>14, PlaceFrame, Zenon DEF DeviceInterrupt, StartRelease, queueVars, localVars
<1>15. ASSUME ReleaseStep(c) PROVE PlaceInv'
  <2>1. PICK id \in PendingId : Wake(id)
    BY <1>15, <1>a, Zenon DEF ReleaseStep
  <2> QED BY <1>15, <2>1, PlaceWake, Zenon DEF ReleaseStep
<1>16. ASSUME ReleaseEnd(c) PROVE PlaceInv'
  BY <1>16, PlaceFrame, Zenon DEF ReleaseEnd, queueVars, localVars
<1>17. ASSUME Timer(c) PROVE PlaceInv'
  BY <1>17, PlaceFrame, Zenon DEF Timer, queueVars, localVars
<1>18. ASSUME Elapse(c) PROVE PlaceInv'
  BY <1>18, PlaceFrame, Zenon DEF Elapse, queueVars, localVars
<1>19. ASSUME ElapseStep(c) PROVE PlaceInv'
  <2>1. PICK id \in PendingId : Wake(id)
    BY <1>19, Zenon DEF ElapseStep, Due, TypeOK, Timeout
  <2> QED BY <1>19, <2>1, PlaceWake, Zenon DEF ElapseStep, localVars
<1>20. ASSUME ElapseEnd(c) PROVE PlaceInv'
  <2>1. pc[c] \in Ordinary /\ UNCHANGED <<runnable, pending>> /\ Enter(c, Yield)
    BY <1>20, Zenon DEF ElapseEnd, Ordinary, queueVars
  <2> QED BY <2>1, PlaceEnter, Zenon
<1> QED
  BY <1>1, <1>2, <1>3, <1>4, <1>5, <1>6, <1>7, <1>8, <1>9, <1>10, <1>11, <1>12,
     <1>13, <1>14, <1>15, <1>16, <1>17, <1>18, <1>19, <1>20, Zenon
     DEF Step

-----------------------------------------------------------------------------
(* The inductive invariant *)

LEMMA IndInit == Init => IndInv
<1> SUFFICES ASSUME Init PROVE IndInv
  OBVIOUS
<1> USE SchedulerAssumption
<1>1. TypeOK
  BY TypeInit, Zenon
<1>2. ControlInv
  BY Zenon DEF Init, ControlInv, ControlOf, HasHand, HasLock, Thread
<1>3. OpInv
  BY Zenon DEF Init, OpInv, Yield
<1>4. PlaceInv
  <2>1. /\ \A t \in Thread : ~InQueue(t) /\ ~InPending(t) /\ \A c \in Cpu : ~Held(c, t)
        /\ QueueOK(runnable)
    BY DEF Init, InQueue, InQ, InPending, Held, QueueOK
  <2> QED BY <2>1, Zenon DEF Init, PlaceInv, ThreadInOnePlace, Thread
<1>5. FreshInv /\ ChannelInv /\ NoOrphan /\ NowInv
  BY DEF Init, FreshInv, ChannelInv, NoOrphan, NowInv
<1>6. ExecInv
  BY Zenon DEF Init, ExecInv
<1>7. ContextInv
  BY Zenon DEF Init, ContextInv, NewContext, ResumesAt, Thread
<1>8. CliInv
  BY Zenon DEF Init, CliInv, CliOf, Yield, Thread
<1>9. GuardInv
  BY Zenon DEF Init, GuardInv, Thread
<1> QED BY <1>1, <1>2, <1>3, <1>4, <1>5, <1>6, <1>7, <1>8, <1>9, Zenon DEF IndInv

LEMMA IndStep == IndInv /\ [Next]_vars => IndInv'
BY TypeStep, ControlStep, OpStep, PlaceStep, FreshStep, ChannelStep, OrphanStep, ExecStep,
   ContextStep, CliStep, GuardStep, NowStep, Zenon DEF IndInv

(* The conjunction of control, places, ids, contexts and interrupt locks     *)
(* that makes switch, release and elapse correct holds in every reachable    *)
(* state.                                                                    *)
THEOREM Invariance == Spec => []IndInv
BY IndInit, IndStep, PTL DEF Spec

-----------------------------------------------------------------------------
(* What follows from it *)

(* The variables keep the types of their Rust declarations. *)
THEOREM TypeCorrect == Spec => []TypeOK
BY Invariance, PTL DEF IndInv

(* No Box<Task> is ever in two of running_task, the local of switch, the run *)
(* queues and pending_tasks, nor twice in one.                               *)
THEOREM OnePlace == Spec => []ThreadInOnePlace
<1>1. IndInv => ThreadInOnePlace
  BY Zenon DEF IndInv, PlaceInv
<1> QED BY <1>1, Invariance, PTL

(* switch, release and elapse never drop a task. *)
THEOREM NoLoss == Spec => []NoThreadLost
<1>1. IndInv => NoThreadLost
  BY Zenon DEF IndInv, PlaceInv, TypeOK, NoThreadLost
<1> QED BY <1>1, Invariance, PTL

(* A task in pending_tasks is always still reachable from a wait channel, the *)
(* timeout heap or a release under way.                                       *)
THEOREM Wakeable == Spec => []NoOrphan
BY Invariance, PTL DEF IndInv

(* wait_saved does its job on any number of CPUs: what is restored has been  *)
(* saved, and two CPUs never execute one thread.                             *)
THEOREM SavedBeforeResumed == Spec => []OnlySavedResumed
<1>1. IndInv => OnlySavedResumed
  BY ZenonT(40) DEF IndInv, ExecInv, OnlySavedResumed
<1> QED BY <1>1, Invariance, PTL

(* Locks are held with interrupts disabled, the assertions of switch and     *)
(* Cli::drop hold, and task code gets its interrupt flag back.               *)
THEOREM Interrupts == Spec => []InterruptDiscipline
<1>1. ASSUME IndInv PROVE InterruptDiscipline
  <2> SUFFICES ASSUME NEW c \in Cpu
               PROVE  /\ qlock = c \/ (\E ch \in Chan : guards[ch] = c)
                            => ~cli[c].intr /\ cli[c].ncli > 0
                      /\ pc[c] = "run" => cli[c].intr /\ cli[c].ncli = 0 /\ ~irq[exec[c]]
                      /\ pc[c] = "lock" => cli[c].ncli = IF op[c].guarded THEN 2 ELSE 1
                      /\ pc[c] \in {"wait", "dequeue"} => running[c] = None
                      /\ pc[c] = "leave" => cli[c].ncli = 1 /\ ~cli[c].intr
    BY Zenon DEF InterruptDiscipline
  <2>1. CliOf(c) /\ ControlOf(c)
    BY <1>1, Zenon DEF IndInv, CliInv, ControlInv
  <2>2. \A ch \in Chan : guards[ch] = c => pc[c] \in {"guard", "lock"}
    BY <1>1, Zenon DEF IndInv, GuardInv
  <2>3. qlock = c => pc[c] \in HasLock
    BY <2>1, Zenon DEF ControlOf
  <2> QED BY <2>1, <2>2, <2>3 DEF CliOf, ControlOf, HasLock, HasHand
<1>2. IndInv => InterruptDiscipline
  BY <1>1, Zenon
<1> QED BY <1>2, Invariance, PTL

(* block and sleep always find another task: every CPU that owns a task has  *)
(* a boot task of its own, boot tasks are never pending, and a CPU owns one  *)
(* task at a time, so one of the boot tasks is in a run queue.               *)
THEOREM NoFallThrough == Spec => []BlockNeverFallsThrough
<1>1. ASSUME IndInv, NEW c \in Cpu, pc[c] = "dequeue", op[c].kind # "yield",
             \A l \in Level : runnable[l] = <<>>
      PROVE  FALSE
  <2>0. /\ running \in [Cpu -> Thread \cup {None}] /\ hand \in [Cpu -> Thread \cup {None}]
        /\ None \notin Thread /\ IsFiniteSet(Cpu) /\ Cpu \subseteq Thread
    BY <1>1, SchedulerAssumption, ZenonT(40) DEF IndInv, TypeOK, Thread
  <2> DEFINE B == created \cap Cpu
             f == [b \in B |-> CHOOSE d \in Cpu : Held(d, b)]
  <2>1. \A t \in Thread : ~InQueue(t)
    BY <1>1 DEF InQueue, InQ
  <2>2. \A b \in B : \E d \in Cpu : Held(d, b)
    BY <1>1, <2>0, <2>1, Zenon DEF IndInv, PlaceInv, InPending
  <2>3. \A b \in B : f[b] \in Cpu /\ Held(f[b], b)
    BY <2>2, Zenon
  <2>4. \A d \in Cpu, t \in Thread : Held(d, t) => d \in created
    BY <1>1, <2>0, Zenon DEF IndInv, PlaceInv, Held
  <2>5. /\ hand[c] \in Worker /\ running[c] = None /\ c \in created
    BY <1>1, <2>0, Zenon DEF IndInv, ControlInv, ControlOf, OpInv, PlaceInv, HasHand
  <2>6. \A b \in B : ~Held(c, b)
    BY <2>5, <2>0, SchedulerAssumption, Zenon DEF Held
  <2>7. f \in [B -> B \ {c}]
    BY <2>0, <2>3, <2>4, <2>6
  <2>8. IsFiniteSet(B) /\ c \in B
    BY <2>0, <2>5, FS_Subset, Zenon
  <2>9. IsFiniteSet(B \ {c}) /\ Cardinality(B \ {c}) < Cardinality(B)
    <3> HIDE DEF B
    <3>1. Cardinality(B) \in Nat
      BY <2>8, FS_CardinalityType, Zenon
    <3>2. IsFiniteSet(B \ {c}) /\ Cardinality(B \ {c}) = Cardinality(B) - 1
      BY <2>8, FS_RemoveElement, Zenon
    <3> QED BY <3>1, <3>2
  <2>10. PICK a, b \in B : a # b /\ f[a] = f[b]
    <3> HIDE DEF B, f
    <3> QED BY <2>7, <2>8, <2>9, FS_PigeonHole, Zenon
  <2>11. PICK d \in Cpu : Held(d, a) /\ Held(d, b)
    BY <2>3, <2>10, Zenon
  <2>12. running[d] = None \/ hand[d] = None
    BY <1>1, Zenon DEF IndInv, PlaceInv, ThreadInOnePlace
  <2> QED BY <2>0, <2>10, <2>11, <2>12, SMTT(20) DEF Held
<1>2. IndInv => BlockNeverFallsThrough
  BY <1>1, Zenon DEF BlockNeverFallsThrough
<1> QED BY <1>2, Invariance, PTL

(* elapse takes a task out of pending_tasks only at or after its deadline, and *)
(* nothing but a release or elapse takes one out.                              *)
THEOREM Punctual == Spec => NeverEarly
<1> DEFINE Early ==
      \A i \in PendingId :
          pending[i] # None /\ pending'[i] = None /\ (\A c \in Cpu : i \notin todo[c])
              => \E e \in timeouts : e.id = i /\ e.at <= ticks
<1>1. ASSUME IndInv, Next PROVE Early
  <2> SUFFICES ASSUME NEW i \in PendingId, pending[i] # None, pending'[i] = None,
                      \A c \in Cpu : i \notin todo[c]
               PROVE  \E e \in timeouts : e.id = i /\ e.at <= ticks
    OBVIOUS
  <2>0. /\ pending \in [PendingId -> Thread \cup {None}] /\ None \notin Thread
        /\ \A c \in Cpu : now[c] \in Nat /\ now[c] <= ticks /\ ticks \in Nat
        /\ \A e \in timeouts : e.at \in Nat
    BY <1>1, SchedulerAssumption, Zenon DEF IndInv, TypeOK, NowInv, Timeout
  <2>1. PICK c \in Cpu : Step(c)
    BY <1>1, Zenon DEF Next
  <2>2. ~Dequeue(c)
    <3>1. ASSUME Dequeue(c) PROVE FALSE
      <4>1. hand[c] # None
        BY <1>1, <3>1, Zenon DEF IndInv, ControlInv, ControlOf, HasHand, Dequeue
      <4>2. pending' = pending \/ pending' = [pending EXCEPT ![pendingIdGen] = hand[c]]
        BY <3>1, Zenon DEF Dequeue, Register
      <4> QED BY <4>1, <4>2, <2>0, Zenon
    <3> QED BY <3>1, Zenon
  <2>3. ~ReleaseStep(c)
    <3>1. ASSUME ReleaseStep(c) PROVE FALSE
      <4>1. PICK id \in todo[c] : pending' = [pending EXCEPT ![id] = None]
        BY <3>1, Zenon DEF ReleaseStep, Wake
      <4> QED BY <4>1, <2>0, Zenon
    <3> QED BY <3>1, Zenon
  <2>4. CASE ElapseStep(c)
    <3>1. PICK e \in Due(c) : pending' = [pending EXCEPT ![e.id] = None]
      BY <2>4, Zenon DEF ElapseStep, Wake
    <3>2. e.id = i
      BY <3>1, <2>0, Zenon
    <3>3. e \in timeouts /\ e.at <= now[c]
      BY Zenon DEF Due
    <3>4. e.at <= ticks
      BY <3>3, <2>0
    <3> QED BY <3>2, <3>3, <3>4, Zenon
  <2>5. CASE pending' = pending
    BY <2>5, Zenon
  <2>6. ElapseStep(c) \/ pending' = pending
    <3>1. \A ch \in Chan : StartRelease(c, ch) => pending' = pending
      BY Zenon DEF StartRelease
    <3> QED BY <2>1, <2>2, <2>3, <3>1, TablesKept, Zenon
  <2> QED BY <2>4, <2>5, <2>6, Zenon
<1>2. IndInv /\ [Next]_vars => [Early]_vars
  BY <1>1, Zenon
<1> QED BY <1>2, Invariance, PTL DEF Spec, NeverEarly

-----------------------------------------------------------------------------
(* Refinement of WaitChannels *)

(* The ids under which t is pending and not yet picked up by a release, the  *)
(* channels these are registered with, and whether one has a timeout.        *)
Ids(t) == {i \in PendingId : pending[i] = t /\ \A c \in Cpu : i \notin todo[c]}
Chans(t) == {ch \in Chan : \E i \in Ids(t) : i \in blocks[ch]}
Timed(t) == \E e \in timeouts : e.id \in Ids(t)

LEMMA WaitIs ==
    ASSUME NEW t
    PROVE  /\ WaitOf(t) = [chan |-> IF Chans(t) = {} THEN None ELSE CHOOSE ch \in Chans(t) : TRUE,
                           timed |-> Timed(t)]
           /\ WaitOf(t)' = [chan |-> IF Chans(t)' = {} THEN None
                                     ELSE CHOOSE ch \in Chans(t)' : TRUE,
                            timed |-> Timed(t)']
BY Zenon DEF WaitOf, Chans, Timed, Ids

(* A step that leaves the ids of a thread, and where these are registered,   *)
(* alone is invisible to it.                                                 *)
LEMMA WaitKept ==
    ASSUME NEW t, Ids(t)' = Ids(t),
           \A i \in Ids(t), ch \in Chan : i \in blocks'[ch] <=> i \in blocks[ch],
           \A i \in Ids(t) : (\E e \in timeouts' : e.id = i) <=> (\E e \in timeouts : e.id = i)
    PROVE  WaitOf(t)' = WaitOf(t)
<1>1. Chans(t)' = Chans(t)
  <2>1. Chans(t)' = {ch \in Chan : \E i \in Ids(t)' : i \in blocks'[ch]}
    BY Zenon DEF Chans
  <2> QED BY <2>1 DEF Chans
<1>2. Timed(t)' <=> Timed(t)
  BY Zenon DEF Timed
<1>3. Timed(t)' \in BOOLEAN /\ Timed(t) \in BOOLEAN
  BY Zenon DEF Timed
<1>4. Timed(t)' = Timed(t)
  BY <1>2, <1>3
<1> QED BY <1>1, <1>4, WaitIs, Zenon

(* A thread without such an id is awake. *)
LEMMA NoIdsAwake ==
    ASSUME NEW t
    PROVE  /\ Ids(t) = {} => WaitOf(t) = WC!Awake
           /\ Ids(t)' = {} => WaitOf(t)' = WC!Awake
<1>1. ASSUME Ids(t) = {} PROVE WaitOf(t) = WC!Awake
  <2>1. Chans(t) = {} /\ Timed(t) = FALSE
    BY <1>1 DEF Chans, Timed
  <2> QED BY <2>1, WaitIs, Zenon DEF WC!Awake
<1>2. ASSUME Ids(t)' = {} PROVE WaitOf(t)' = WC!Awake
  <2>1. Chans(t)' = {ch \in Chan : \E i \in Ids(t)' : i \in blocks'[ch]}
    BY Zenon DEF Chans
  <2>2. Timed(t)' = \E e \in timeouts' : e.id \in Ids(t)'
    BY Zenon DEF Timed
  <2>3. Chans(t)' = {} /\ Timed(t)' = FALSE
    BY <1>2, <2>1, <2>2
  <2> QED BY <2>3, WaitIs, Zenon DEF WC!Awake
<1> QED BY <1>1, <1>2, Zenon

(* A thread is pending under one id, so it waits on one channel. *)
LEMMA WaitsOnOne ==
    ASSUME IndInv, NEW t \in Thread
    PROVE  /\ \A i, j \in Ids(t) : i = j
           /\ \A ch \in Chan : WaitOf(t).chan = ch <=> \E i \in Ids(t) : i \in blocks[ch]
           /\ \A e \in timeouts : e.id \in Ids(t) => WaitOf(t).timed
<1>0. None \notin Thread /\ None \notin Chan
  BY SchedulerAssumption, Zenon
<1>1. \A i, j \in Ids(t) : i = j
  BY <1>0, Zenon DEF IndInv, PlaceInv, ThreadInOnePlace, Ids
<1>2. \A ch, dh \in Chans(t) : ch = dh
  BY <1>1, Zenon DEF IndInv, ChannelInv, Chans
<1>3. WaitOf(t).chan = (IF Chans(t) = {} THEN None ELSE CHOOSE ch \in Chans(t) : TRUE)
      /\ WaitOf(t).timed = Timed(t)
  <2> DEFINE x == IF Chans(t) = {} THEN None ELSE CHOOSE ch \in Chans(t) : TRUE
  <2>1. WaitOf(t) = [chan |-> x, timed |-> Timed(t)]
    BY WaitIs, Zenon
  <2> HIDE DEF x
  <2>2. WaitOf(t).chan = x /\ WaitOf(t).timed = Timed(t)
    BY <2>1
  <2> QED BY <2>2, Zenon DEF x
<1>4. \A ch \in Chan : WaitOf(t).chan = ch <=> ch \in Chans(t)
  <2> SUFFICES ASSUME NEW ch \in Chan PROVE WaitOf(t).chan = ch <=> ch \in Chans(t)
    OBVIOUS
  <2>1. CASE Chans(t) = {}
    BY <1>0, <1>3, <2>1, Zenon
  <2>2. CASE Chans(t) # {}
    <3>1. WaitOf(t).chan \in Chans(t)
      BY <1>3, <2>2, Zenon
    <3> QED BY <1>2, <3>1, Zenon
  <2> QED BY <2>1, <2>2, Zenon
<1>5. \A ch \in Chan : ch \in Chans(t) <=> \E i \in Ids(t) : i \in blocks[ch]
  BY Zenon DEF Chans
<1>6. \A e \in timeouts : e.id \in Ids(t) => Timed(t)
  BY Zenon DEF Timed
<1> QED BY <1>1, <1>3, <1>4, <1>5, <1>6, Zenon

(* One iteration of release wakes a thread that its waiters saw awake already. *)
LEMMA ReleaseStepInvisible ==
    ASSUME IndInv, NEW c \in Cpu, ReleaseStep(c), NEW t \in Thread
    PROVE  WaitOf(t)' = WaitOf(t)
<1>0. /\ pending \in [PendingId -> Thread \cup {None}] /\ todo \in [Cpu -> SUBSET PendingId]
      /\ None \notin Thread
  BY SchedulerAssumption, Zenon DEF IndInv, TypeOK
<1>1. PICK id \in todo[c] : /\ pending' = [pending EXCEPT ![id] = None]
                            /\ todo' = [todo EXCEPT ![c] = @ \ {id}]
  BY Zenon DEF ReleaseStep, Wake
<1>2. blocks' = blocks /\ timeouts' = timeouts
  BY Zenon DEF ReleaseStep
<1>3. \A i \in PendingId : i # id =>
          pending'[i] = pending[i] /\ \A d \in Cpu : i \in todo'[d] <=> i \in todo[d]
  BY <1>0, <1>1, Zenon
<1>4. id \in PendingId /\ pending'[id] = None
  BY <1>0, <1>1, Zenon
<1>5. id \notin Ids(t) /\ id \notin Ids(t)'
  BY <1>0, <1>4, Zenon DEF Ids
<1>6. \A i : i \in Ids(t)' <=> i \in Ids(t)
  BY <1>3, <1>5, Zenon DEF Ids
<1>7. Ids(t)' = Ids(t)
  BY <1>6, Zenon
<1> QED BY <1>2, <1>7, WaitKept, Zenon

(* An iteration of elapse takes its id from the one thread it may belong to. *)
LEMMA ElapseIs ==
    ASSUME IndInv, NEW c \in Cpu, ElapseStep(c)
    PROVE  \E e \in timeouts :
              /\ e.id \in PendingId
              /\ \A t \in Thread : Ids(t)' = Ids(t) \ {e.id}
              /\ \A ch \in Chan : \A i \in PendingId \ {e.id} : i \in blocks'[ch] <=> i \in blocks[ch]
              /\ timeouts' = timeouts \ {e}
<1>0. /\ pending \in [PendingId -> Thread \cup {None}] /\ timeouts \subseteq Timeout
      /\ None \notin Thread
  BY SchedulerAssumption, Zenon DEF IndInv, TypeOK
<1>1. PICK e \in Due(c) : /\ pending' = [pending EXCEPT ![e.id] = None]
                          /\ blocks' = Unregistered(e) /\ timeouts' = timeouts \ {e}
  BY Zenon DEF ElapseStep, Wake
<1>2. todo' = todo
  BY Zenon DEF ElapseStep, localVars
<1>3. e \in timeouts /\ e.id \in PendingId
  BY <1>0, Zenon DEF Due, Timeout
<1>4. ASSUME NEW t \in Thread PROVE Ids(t)' = Ids(t) \ {e.id}
  <2>1. \A i : i \in Ids(t)' <=> i \in Ids(t) /\ i # e.id
    BY <1>0, <1>1, <1>2, <1>3, Zenon DEF Ids
  <2> QED BY <2>1, Zenon
<1>5. \A ch \in Chan : \A i \in PendingId \ {e.id} : i \in blocks'[ch] <=> i \in blocks[ch]
  BY <1>1, Zenon DEF Unregistered
<1> QED BY <1>1, <1>3, <1>4, <1>5, Zenon

(* elapse wakes a thread by its own timeout, or it meets a stale entry. *)
LEMMA ElapseExpires ==
    ASSUME IndInv, NEW c \in Cpu, ElapseStep(c)
    PROVE  \/ \A t \in Thread : WaitOf(t)' = WaitOf(t)
           \/ \E t \in Thread : /\ WaitOf(t).timed /\ WaitOf(t)' = WC!Awake
                                /\ \A u \in Thread \ {t} : WaitOf(u)' = WaitOf(u)
<1>1. PICK e \in timeouts :
              /\ e.id \in PendingId
              /\ \A t \in Thread : Ids(t)' = Ids(t) \ {e.id}
              /\ \A ch \in Chan : \A i \in PendingId \ {e.id} : i \in blocks'[ch] <=> i \in blocks[ch]
              /\ timeouts' = timeouts \ {e}
  BY ElapseIs, Zenon
<1>2. ASSUME NEW t \in Thread, e.id \notin Ids(t) PROVE WaitOf(t)' = WaitOf(t)
  <2>1. Ids(t)' = Ids(t)
    <3>1. Ids(t)' = Ids(t) \ {e.id}
      BY <1>1, Zenon
    <3> QED BY <1>2, <3>1, Zenon
  <2>2. \A i \in Ids(t) : i \in PendingId \ {e.id}
    BY <1>2, Zenon DEF Ids
  <2>3. \A i \in Ids(t), ch \in Chan : i \in blocks'[ch] <=> i \in blocks[ch]
    BY <1>1, <2>2, Zenon
  <2>4. \A i \in Ids(t) : (\E f \in timeouts' : f.id = i) <=> (\E f \in timeouts : f.id = i)
    BY <1>1, <2>2, Zenon
  <2> QED BY <2>1, <2>3, <2>4, WaitKept, Zenon
<1>3. ASSUME NEW t \in Thread, e.id \in Ids(t)
      PROVE  /\ WaitOf(t).timed /\ WaitOf(t)' = WC!Awake
             /\ \A u \in Thread \ {t} : WaitOf(u)' = WaitOf(u)
  <2>1. WaitOf(t).timed /\ \A i \in Ids(t) : i = e.id
    BY <1>3, WaitsOnOne, Zenon
  <2>2. Ids(t)' = {}
    <3>1. Ids(t)' = Ids(t) \ {e.id}
      BY <1>1, Zenon
    <3> QED BY <2>1, <3>1, Zenon
  <2>3. \A u \in Thread \ {t} : e.id \notin Ids(u)
    BY <1>3, Zenon DEF Ids
  <2> QED BY <1>2, <2>1, <2>2, <2>3, NoIdsAwake, Zenon
<1> QED BY <1>2, <1>3, Zenon

(* release wakes all waiters of its channel, and only those, when it takes   *)
(* the vector out of blocks.                                                 *)
LEMMA ReleaseWakes ==
    ASSUME IndInv, NEW c \in Cpu, NEW ch \in Chan, StartRelease(c, ch),
           pc[c] = "run" \/ cli[c].intr, NEW t \in Thread
    PROVE  WaitOf(t)' = IF WaitOf(t).chan = ch THEN WC!Awake ELSE WaitOf(t)
<1>0. /\ todo \in [Cpu -> SUBSET PendingId] /\ blocks \in [Chan -> SUBSET PendingId]
      /\ pc[c] = "run" /\ todo[c] = {}
  BY Zenon DEF IndInv, TypeOK, CliInv, CliOf, ControlInv, ControlOf
<1>1. /\ todo' = [todo EXCEPT ![c] = blocks[ch]]
      /\ blocks' = [blocks EXCEPT ![ch] = @ \ blocks[ch]]
      /\ pending' = pending /\ timeouts' = timeouts
  BY Zenon DEF StartRelease, Waiters
<1>2. \A i : (\A d \in Cpu : i \notin todo'[d]) <=> i \notin blocks[ch] /\ \A d \in Cpu : i \notin todo[d]
  BY <1>0, <1>1, Zenon
<1>3. \A i : i \in Ids(t)' <=> i \in Ids(t) /\ i \notin blocks[ch]
  BY <1>1, <1>2, Zenon DEF Ids
<1>4. CASE \E i \in Ids(t) : i \in blocks[ch]
  <2>1. \A i, j \in Ids(t) : i = j
    BY WaitsOnOne, Zenon
  <2>2. Ids(t)' = {}
    BY <1>3, <1>4, <2>1, Zenon
  <2>3. WaitOf(t).chan = ch
    BY <1>4, WaitsOnOne, Zenon
  <2> QED BY <2>2, <2>3, NoIdsAwake, Zenon
<1>5. CASE ~ \E i \in Ids(t) : i \in blocks[ch]
  <2>1. Ids(t)' = Ids(t)
    BY <1>3, <1>5, Zenon
  <2>2. \A i \in Ids(t), dh \in Chan : i \in blocks'[dh] <=> i \in blocks[dh]
    BY <1>0, <1>1, <1>5, Zenon
  <2>3. WaitOf(t)' = WaitOf(t)
    BY <1>1, <2>1, <2>2, WaitKept, Zenon
  <2>4. WaitOf(t).chan # ch
    BY <1>5, WaitsOnOne, Zenon
  <2> QED BY <2>3, <2>4, Zenon
<1> QED BY <1>4, <1>5, Zenon

(* A switch that suspends its task registers it under an id that nobody has  *)
(* used, with the channel and the timeout it asks for; others are not        *)
(* concerned.                                                                *)
LEMMA SuspendBlocks ==
    ASSUME IndInv, NEW c \in Cpu, Dequeue(c), op[c].kind # "yield", NEW t, t = hand[c]
    PROVE  /\ t \in Thread /\ WaitOf(t) = WC!Awake
           /\ WaitOf(t)' = [chan |-> op[c].chan, timed |-> op[c].timeout # None]
           /\ op[c].chan \in Chan \cup {None} /\ (op[c].chan = None => op[c].timeout # None)
           /\ \A u \in Thread \ {t} : WaitOf(u)' = WaitOf(u)
<1> DEFINE id == pendingIdGen
           o == op[c]
<1>0. /\ pending \in [PendingId -> Thread \cup {None}] /\ blocks \in [Chan -> SUBSET PendingId]
      /\ todo \in [Cpu -> SUBSET PendingId] /\ hand \in [Cpu -> Thread \cup {None}]
      /\ None \notin Thread /\ None \notin Chan /\ None \notin Durations
  BY SchedulerAssumption, Zenon DEF IndInv, TypeOK
<1>1. t \in Thread /\ ~InPending(t)
  <2>1. pc[c] \in HasHand
    BY Zenon DEF Dequeue, HasHand
  <2>2. hand[c] # None
    BY <2>1, Zenon DEF IndInv, ControlInv, ControlOf
  <2>3. t \in Thread /\ Held(c, t)
    BY <1>0, <2>2, Zenon DEF Held
  <2> QED BY <2>3, Zenon DEF IndInv, PlaceInv, ThreadInOnePlace
<1>2. /\ o.chan \in Chan \cup {None} /\ (o.chan = None => o.timeout # None)
  <2>1. o \in Op
    BY Zenon DEF IndInv, TypeOK
  <2>2. o.chan \in Chan \cup {None} /\ o.kind \in {"yield", "block", "try", "sleep"}
    BY <2>1, Zenon DEF Op
  <2> QED BY <1>0, <2>2, Zenon DEF IndInv, OpInv
<1>3. /\ id \in PendingId
      /\ pending' = [pending EXCEPT ![id] = t]
      /\ blocks' = [ch \in Chan |-> IF ch = o.chan THEN blocks[ch] \cup {id} ELSE blocks[ch]]
      /\ timeouts' = IF o.timeout = None THEN timeouts
                     ELSE timeouts \cup {[at |-> Deadline(o.timeout), id |-> id, chan |-> o.chan]}
      /\ todo' = todo
  BY Zenon DEF Dequeue, Register
<1>4. /\ pending[id] = None /\ \A ch \in Chan : id \notin blocks[ch]
      /\ \A e \in timeouts : e.id # id
      /\ \A d \in Cpu : id \notin todo[d]
  <2>1. id \in Nat
    BY DEF IndInv, TypeOK
  <2>2. FreshInv
    BY Zenon DEF IndInv
  <2> QED BY <1>3, <2>1, <2>2 DEF FreshInv
<1> HIDE DEF id, o
<1>5. ASSUME NEW u \in Thread, u # t PROVE WaitOf(u)' = WaitOf(u)
  <2>1. \A i : i \in Ids(u)' <=> i \in Ids(u)
    BY <1>0, <1>3, <1>4, <1>5, Zenon DEF Ids
  <2>2. Ids(u)' = Ids(u) /\ id \notin Ids(u)
    BY <1>0, <1>4, <2>1, Zenon DEF Ids
  <2>3. \A i \in Ids(u), ch \in Chan : i \in blocks'[ch] <=> i \in blocks[ch]
    BY <1>3, <2>2, Zenon
  <2>4. \A i \in Ids(u) : (\E e \in timeouts' : e.id = i) <=> (\E e \in timeouts : e.id = i)
    <3>1. CASE o.timeout = None
      BY <1>3, <3>1, ZenonT(40)
    <3>2. CASE o.timeout # None
      <4> DEFINE n == [at |-> Deadline(o.timeout), id |-> id, chan |-> o.chan]
      <4>1. timeouts' = timeouts \cup {n}
        BY <1>3, <3>2, Zenon
      <4>2. n.id = id
        OBVIOUS
      <4> HIDE DEF n
      <4> QED BY <2>2, <4>1, <4>2, Zenon
    <3> QED BY <3>1, <3>2, Zenon
  <2> QED BY <2>2, <2>3, <2>4, WaitKept, Zenon
<1>6. WaitOf(t) = WC!Awake
  <2>1. Ids(t) = {}
    BY <1>1, Zenon DEF Ids, InPending
  <2> QED BY <2>1, NoIdsAwake, Zenon
<1>7. WaitOf(t)' = [chan |-> o.chan, timed |-> o.timeout # None]
  <2> DEFINE I == {i \in PendingId : pending'[i] = t /\ \A d \in Cpu : i \notin todo'[d]}
  <2>1. I = {id}
    <3>1. \A i : i \in I <=> i = id
      BY <1>0, <1>1, <1>3, <1>4, ZenonT(40) DEF InPending
    <3> QED BY <3>1, Zenon
  <2> DEFINE X == {ch \in Chan : \E i \in I : i \in blocks'[ch]}
  <2>2. \A ch : ch \in X <=> ch \in Chan /\ ch = o.chan
    BY <1>3, <1>4, <2>1, Zenon
  <2> DEFINE T == \E e \in timeouts' : e.id \in I
  <2>3. T = (o.timeout # None)
    <3>1. CASE o.timeout = None
      BY <1>3, <1>4, <2>1, <3>1, Zenon
    <3>2. CASE o.timeout # None
      <4> DEFINE e == [at |-> Deadline(o.timeout), id |-> id, chan |-> o.chan]
      <4>1. e \in timeouts'
        BY <1>3, <3>2, Zenon
      <4>2. e.id = id
        BY Zenon
      <4> QED BY <2>1, <3>2, <4>1, <4>2, Zenon
    <3> QED BY <3>1, <3>2, Zenon
  <2> HIDE DEF I
  <2>4. (IF X = {} THEN None ELSE CHOOSE ch \in X : TRUE) = o.chan
    <3> HIDE DEF X
    <3>1. CASE o.chan = None
      <4>1. X = {}
        BY <1>0, <2>2, <3>1, Zenon
      <4> QED BY <3>1, <4>1, Zenon
    <3>2. CASE o.chan \in Chan
      <4>1. X # {} /\ \A ch \in X : ch = o.chan
        BY <2>2, <3>2, Zenon
      <4>2. (CHOOSE ch \in X : TRUE) \in X
        BY <4>1, Zenon
      <4> QED BY <4>1, <4>2, Zenon
    <3> QED BY <1>2, <3>1, <3>2, Zenon
  <2>5. WaitOf(t)' = [chan |-> IF X = {} THEN None ELSE CHOOSE ch \in X : TRUE, timed |-> T]
    BY Zenon DEF WaitOf, I
  <2> HIDE DEF X, T
  <2> QED BY <2>3, <2>4, <2>5, Zenon
<1> QED BY <1>1, <1>2, <1>5, <1>6, <1>7, Zenon DEF o

(* Clients may rely on WaitChannels: behind all queues, CPUs, contexts and   *)
(* stale heap entries, switch suspends a thread on what it asked for, and    *)
(* only a release of its channel or its own timeout wakes it.                *)
THEOREM IsWaitChannels == Spec => ImplementsWaitChannels
<1> DEFINE wait == [t \in Thread |-> WaitOf(t)]
<1>1. Init => WC!Init
  <2> SUFFICES ASSUME Init PROVE WC!Init
    BY Zenon
  <2>1. \A t \in Thread : Ids(t) = {}
    BY SchedulerAssumption, Zenon DEF Init, Ids
  <2> QED BY <2>1, NoIdsAwake, Zenon DEF WC!Init
<1>2. IndInv /\ [Next]_vars => [WC!Next]_wait
  <2> SUFFICES ASSUME IndInv, [Next]_vars PROVE WC!Next \/ wait' = wait
    BY Zenon
  <2>0. ASSUME \A t \in Thread : WaitOf(t)' = WaitOf(t) PROVE wait' = wait
    BY <2>0, Zenon
  <2>1. ASSUME pending' = pending, blocks' = blocks, timeouts' = timeouts, todo' = todo
        PROVE  wait' = wait
    BY <2>0, <2>1, Zenon DEF WaitOf
  <2>2. ASSUME NEW c \in Cpu, ReleaseStep(c) PROVE wait' = wait
    BY <2>0, <2>2, ReleaseStepInvisible, Zenon
  <2>3. ASSUME NEW c \in Cpu, ElapseStep(c) PROVE WC!Next \/ wait' = wait
    <3>1. ASSUME NEW t \in Thread, WaitOf(t).timed, WaitOf(t)' = WC!Awake,
                 \A u \in Thread \ {t} : WaitOf(u)' = WaitOf(u)
          PROVE  WC!Expire(t)
      BY <3>1, Zenon DEF WC!Expire
    <3> QED BY <2>0, <2>3, <3>1, ElapseExpires, Zenon DEF WC!Next
  <2>4. ASSUME NEW c \in Cpu, NEW ch \in Chan, StartRelease(c, ch), pc[c] = "run" \/ cli[c].intr
        PROVE  WC!Release(ch)
    <3>1. \A t \in Thread : WaitOf(t)' = IF WaitOf(t).chan = ch THEN WC!Awake ELSE WaitOf(t)
      BY <2>4, ReleaseWakes, Zenon
    <3> QED BY <3>1, Zenon DEF WC!Release
  <2>5. ASSUME NEW c \in Cpu, Dequeue(c), op[c].kind = "yield" PROVE wait' = wait
    BY <2>1, <2>5, Zenon DEF Dequeue, Register
  <2>6. ASSUME NEW c \in Cpu, Dequeue(c), op[c].kind # "yield" PROVE WC!Next
    <3>1. PICK t : t = hand[c]
      BY Zenon
    <3> DEFINE ch == op[c].chan
               timed == op[c].timeout # None
    <3>2. /\ t \in Thread /\ WaitOf(t) = WC!Awake
          /\ WaitOf(t)' = [chan |-> ch, timed |-> timed]
          /\ ch \in Chan \cup {None} /\ (ch = None => timed)
          /\ \A u \in Thread \ {t} : WaitOf(u)' = WaitOf(u)
      BY <2>6, <3>1, SuspendBlocks, Zenon
    <3>3. timed \in BOOLEAN
      BY Zenon
    <3> HIDE DEF ch, timed
    <3>4. wait' = [wait EXCEPT ![t] = [chan |-> ch, timed |-> timed]]
      BY <3>2, Zenon
    <3>5. WC!Block(t, ch, timed)
      BY <3>2, <3>4, Zenon DEF WC!Block
    <3> QED BY <3>2, <3>3, <3>5, Zenon DEF WC!Next
  <2>7. CASE UNCHANGED vars
    BY <2>1, <2>7, Zenon DEF vars, queueVars, localVars
  <2>8. ASSUME NEW ch \in Chan, WC!Release(ch) PROVE WC!Next
    BY <2>8, Zenon DEF WC!Next
  <2> QED BY <2>1, <2>2, <2>3, <2>4, <2>5, <2>6, <2>7, <2>8, TablesKept, Zenon DEF Next
<1> QED BY <1>1, <1>2, Invariance, PTL DEF Spec, ImplementsWaitChannels, WC!Spec
=============================================================================
