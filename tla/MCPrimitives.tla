---------------------------- MODULE MCPrimitives -----------------------------
(***************************************************************************)
(* The kernel's shared primitives for TLC: a behaviour is about one of     *)
(* them, the mutex, the queue, a lazy cell or the array of CPU states, and *)
(* the others are not used. They share no variable.                        *)
(***************************************************************************)
EXTENDS SleepMutex, NonContiguousArray

CONSTANTS t1, t2, t3, t4, p1, p2, r1, a

Tasks == {t1, t2, t3, t4}

VARIABLES cells, enq, deq, lock, blocked, place, mode, item, slot
OfQueue == <<cells, enq, deq, lock, blocked, place, mode, item, slot>>
Queue == INSTANCE SyncQueue WITH Producer <- {p1, p2}, Consumer <- {r1}, Item <- {a}, N <- 2,
             queue <- lock, wait <- blocked, pc <- place

CONSTANTS CPUs, MaxInterrupts
VARIABLES status, init, at, level, enabled, taken
OfCell == <<status, init, at, level, enabled, taken>>
Cell == INSTANCE OnceCell WITH pc <- at

-----------------------------------------------------------------------------
VARIABLE part
all == <<part, vars, OfQueue, OfCell, array>>

MutexNext == part = "mutex" /\ Next /\ UNCHANGED <<part, OfQueue, OfCell, array>>
QueueNext == part = "queue" /\ Queue!Next /\ UNCHANGED <<part, vars, OfCell, array>>
CellNext == part = "cell" /\ Cell!Next /\ UNCHANGED <<part, vars, OfQueue, array>>
ArrayStep == part = "array" /\ NextArray /\ UNCHANGED <<part, vars, OfQueue, OfCell>>
(* A cell that every caller has read and an array that is full may stay so; *)
(* the mutex and the queue may not.                                         *)
Ended == part \in {"cell", "array"} /\ UNCHANGED all

MCInit == part \in {"mutex", "queue", "cell", "array"} /\ Init /\ Queue!Init /\ Cell!Init /\ InitArray
MCNext == MutexNext \/ QueueNext \/ CellNext \/ ArrayStep \/ Ended

(* The fairness of each, in the behaviours that are about it. *)
MCSpec ==
    /\ MCInit /\ [][MCNext]_all
    /\ \A t \in Thread : WF_vars(Step(t))
    /\ \A t \in Queue!Client :
          /\ WF_OfQueue(Queue!Step(t))
          /\ SF_OfQueue(Queue!SchedulingOp(t))
          /\ SF_OfQueue(Queue!Release(t))
    /\ \A c \in CPUs :
          /\ WF_OfCell(part = "cell" /\ Cell!Return(c))
          /\ \A l \in {"task", "handler"} : WF_OfCell(part = "cell" /\ Cell!Step(c, l))

(* While a consumer is inside dequeue and there is something to take, some   *)
(* consumer gets it, and likewise for producers and room: no call of release *)
(* is missing or made on the wrong channel.                                  *)
Delivery == Queue!Delivery

(* Every call of call_once returns, though an interrupt handler that forces  *)
(* the cell may have the CPU of the task that runs its initializer.          *)
CallsReturn == Cell!CallsReturn
=============================================================================
