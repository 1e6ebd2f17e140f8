------------------------------ MODULE SyncQueue ------------------------------
(***************************************************************************)
(* The blocking queue of sync/queue.rs: heapless::mpmc::MpMcQueue with the *)
(* scheduler's wait channels.  The ring is external: a thread claims a     *)
(* position, then writes or reads its cell, then commits the cell by its   *)
(* sequence number.  Between claim and commit other threads find the ring  *)
(* empty or full although it is neither.  Positions are u8 and N is 128,   *)
(* so positions and sequence numbers count modulo 2 * N.                   *)
(*                                                                         *)
(* An operation tries the ring without a lock; a blocking one then tries   *)
(* again in the closure of switch, with the scheduler's queue lock held,   *)
(* and suspends if it fails; a timed one tries a third time and gives up.  *)
(***************************************************************************)
EXTENDS Integers, Sequences

CONSTANTS Producer, Consumer,   \* threads, by the direction they use
          Item, N,              \* what is queued, and the number of cells
          None

ASSUME SyncQueueAssumption ==
    /\ Producer \cap Consumer = {}
    /\ N \in Nat \ {0, 1}      \* sequence numbers tell full from empty
    /\ None \notin Item \cup Producer \cup Consumer

Client == Producer \cup Consumer
Pos == 0 .. 2 * N - 1

VARIABLES cells,   \* MpMcQueue.buffer: sequence number and item
          enq, deq,  \* MpMcQueue.enqueue_pos, dequeue_pos
          queue,   \* the thread that holds TaskScheduler.queue
          wait,    \* what the scheduler keeps of blocked threads
          pc, mode,  \* where a thread is, in which of the operations
          item,    \* the item a producer brings, or a consumer takes away
          slot     \* the position a thread has claimed

vars == <<cells, enq, deq, queue, wait, pc, mode, item, slot>>
ring == <<cells, enq, deq>>

WC == INSTANCE WaitChannels WITH Thread <- Client, Chan <- {"empty", "full"}, NoChan <- None

Init ==
    /\ cells = [i \in 0 .. N - 1 |-> [seq |-> i, val |-> None]]
    /\ enq = 0
    /\ deq = 0
    /\ queue = None
    /\ WC!Init
    /\ pc = [t \in Client |-> "idle"]
    /\ mode = [t \in Client |-> "try"]
    /\ item = [t \in Client |-> None]
    /\ slot = [t \in Client |-> 0]

Goto(t, l) == pc' = [pc EXCEPT ![t] = l]

(* empty_chan is what consumers wait on, full_chan what producers wait on. *)
OwnChan(t) == IF t \in Producer THEN "full" ELSE "empty"
OtherChan(t) == IF t \in Producer THEN "empty" ELSE "full"

-----------------------------------------------------------------------------
(* The ring *)

Plus(p, n) == (p + n) % (2 * N)

(* The cell is in the state in which an operation at its end may claim it. *)
Claimable(t) ==
    IF t \in Producer THEN cells[enq % N].seq = enq ELSE cells[deq % N].seq = Plus(deq, 1)

(* Mutant of Claim: a consumer hands the cell on before it has read it. *)
ClaimUnread(t) ==
    /\ Claimable(t)
    /\ slot' = [slot EXCEPT ![t] = IF t \in Producer THEN enq ELSE deq]
    /\ enq' = IF t \in Producer THEN Plus(enq, 1) ELSE enq
    /\ deq' = IF t \in Producer THEN deq ELSE Plus(deq, 1)
    /\ cells' = IF t \in Producer THEN cells ELSE [cells EXCEPT ![deq % N].seq = Plus(deq, N)]
    /\ UNCHANGED item

(* The compare-and-swap on a position. *)
Claim(t) ==
    /\ Claimable(t)
    /\ slot' = [slot EXCEPT ![t] = IF t \in Producer THEN enq ELSE deq]
    /\ enq' = IF t \in Producer THEN Plus(enq, 1) ELSE enq
    /\ deq' = IF t \in Producer THEN deq ELSE Plus(deq, 1)
    /\ UNCHANGED <<cells, item>>

(* The cell is written or read, and its sequence number stored. *)
Store(t) ==
    LET i == slot[t] % N
    IN  /\ IF t \in Producer
           THEN /\ cells' = [cells EXCEPT ![i] = [seq |-> Plus(slot[t], 1), val |-> item[t]]]
                /\ UNCHANGED item
           ELSE /\ cells' = [cells EXCEPT ![i].seq = Plus(slot[t], N)]
                /\ item' = [item EXCEPT ![t] = cells[i].val]
        /\ slot' = [slot EXCEPT ![t] = 0]      \* the local is dead
        /\ UNCHANGED <<enq, deq>>

-----------------------------------------------------------------------------
(* The operations: mode is "forever" for enqueue and dequeue, "timed" for    *)
(* the _timeout forms and "try" for the try_ forms.                          *)

Start(t, m, v) ==
    /\ pc[t] = "idle"
    /\ mode' = [mode EXCEPT ![t] = m]
    /\ item' = [item EXCEPT ![t] = IF t \in Producer THEN v ELSE None]
    /\ Goto(t, "first")
    /\ UNCHANGED <<ring, queue, wait, slot>>

Trying == {"first", "second", "third"}

(* An attempt on the ring succeeds. *)
Attempt(t) ==
    /\ pc[t] \in Trying /\ wait[t] = WC!Awake
    /\ Claim(t)
    /\ Goto(t, "commit")
    /\ UNCHANGED <<queue, wait, mode>>

(* ... the switch is cancelled if it was the second, and the queue unlocked. *)
Commit(t) ==
    /\ pc[t] = "commit"
    /\ Store(t)
    /\ queue' = IF queue = t THEN None ELSE queue
    /\ Goto(t, "release")
    /\ UNCHANGED <<wait, mode>>

(* The operation returns; its locals are dead. *)
Return(t) ==
    /\ Goto(t, "idle")
    /\ mode' = [mode EXCEPT ![t] = "try"]
    /\ item' = [item EXCEPT ![t] = None]

(* The first attempt fails: try_ forms give up, the others enter switch. *)
FirstFails(t) ==
    /\ pc[t] = "first" /\ wait[t] = WC!Awake /\ ~Claimable(t)
    /\ \/ mode[t] = "try" /\ Return(t)
       \/ mode[t] # "try" /\ Goto(t, "lock") /\ UNCHANGED <<mode, item>>
    /\ UNCHANGED <<ring, queue, wait, slot>>

SchedulingOp(t) ==
    /\ pc[t] = "lock" /\ queue = None
    /\ queue' = t
    /\ Goto(t, "second")
    /\ UNCHANGED <<ring, wait, mode, item, slot>>

(* Mutant of SecondFails: switch suspends without a second attempt. *)
SecondSkipped(t) ==
    /\ pc[t] = "second"
    /\ WC!Block(t, OwnChan(t), mode[t] = "timed")
    /\ queue' = None
    /\ Goto(t, IF mode[t] = "timed" THEN "third" ELSE "first")
    /\ UNCHANGED <<ring, mode, item, slot>>

(* Switch::Blocked: the thread is registered and suspended.  When it wakes,  *)
(* enqueue and dequeue start over; the timed forms have one attempt left.    *)
SecondFails(t) ==
    /\ pc[t] = "second" /\ ~Claimable(t)
    /\ WC!Block(t, OwnChan(t), mode[t] = "timed")
    /\ queue' = None
    /\ Goto(t, IF mode[t] = "timed" THEN "third" ELSE "first")
    /\ UNCHANGED <<ring, mode, item, slot>>

ThirdFails(t) ==
    /\ pc[t] = "third" /\ wait[t] = WC!Awake /\ ~Claimable(t)
    /\ Return(t)
    /\ UNCHANGED <<ring, queue, wait, slot>>

(* Mutant of Release: the operation wakes its own side. *)
ReleaseOwn(t) ==
    /\ pc[t] = "release" /\ queue = None
    /\ WC!Release(OwnChan(t))
    /\ Return(t)
    /\ UNCHANGED <<ring, queue, slot>>

(* release(empty_chan) or release(full_chan), and the operation returns. *)
Release(t) ==
    /\ pc[t] = "release" /\ queue = None
    /\ WC!Release(OtherChan(t))
    /\ Return(t)
    /\ UNCHANGED <<ring, queue, slot>>

(* The scheduler's elapse, under the queue lock. *)
Expire(t) ==
    /\ queue = None
    /\ WC!Expire(t)
    /\ UNCHANGED <<ring, queue, pc, mode, item, slot>>

Step(t) ==
    \/ Attempt(t) \/ Commit(t) \/ FirstFails(t) \/ SchedulingOp(t) \/ SecondFails(t)
    \/ ThirdFails(t) \/ Release(t)

Next ==
    \E t \in Client :
        \/ \E m \in {"forever", "timed", "try"}, v \in Item : Start(t, m, v)
        \/ Step(t) \/ Expire(t)

Spec == Init /\ [][Next]_vars

(* A thread inside an operation goes on whenever it can, and gets the queue  *)
(* lock if it is free again and again: it asks with interrupts disabled, and *)
(* on the one CPU that is started the lock is then never held by another.    *)
(* Nothing makes a thread start an operation, and no timeout need expire.    *)
FairSpec ==
    /\ Spec
    /\ \A t \in Client : WF_vars(Step(t)) /\ SF_vars(SchedulingOp(t)) /\ SF_vars(Release(t))
-----------------------------------------------------------------------------
(* Every variable keeps the type that its Rust declaration gives it. *)
TypeOK ==
    /\ cells \in [0 .. N - 1 -> [seq : Pos, val : Item \cup {None}]]
    /\ enq \in Pos
    /\ deq \in Pos
    /\ queue \in Client \cup {None}
    /\ wait \in [Client -> WC!Waiting]
    /\ pc \in [Client -> Trying \cup {"idle", "lock", "commit", "release"}]
    /\ mode \in [Client -> {"forever", "timed", "try"}]
    /\ item \in [Client -> Item \cup {None}]
    /\ slot \in [Client -> Pos]

(* A thread sleeps on the queue only as long as the ring gives it no reason  *)
(* to go on, or somebody who changed the ring has still to call release:     *)
(* not even a claimed and uncommitted cell loses a wakeup.                   *)
NoLostWakeup ==
    \A t \in Client :
        wait[t].chan # None /\ Claimable(t)
            => \E u \in Client : pc[u] = "release" /\ OtherChan(u) = OwnChan(t)

(* The distance from the position d to p, along the ring. *)
Dist(p, d) == (p - d) % (2 * N)

(* The number of positions in use. *)
Inside == Dist(enq, deq)

(* The item at the position p, on its way into the cell or in it. *)
Writes(t, p) == pc[t] = "commit" /\ slot[t] = p

Entry(p) ==
    IF \E t \in Producer : Writes(t, p) THEN item[CHOOSE t \in Producer : Writes(t, p)]
    ELSE cells[p % N].val

(* The items inside, from the oldest. *)
Contents == [i \in 1 .. Inside |-> Entry(Plus(deq, i - 1))]

Got(t) ==
    IF t \in Producer THEN None
    ELSE IF pc[t] = "commit" THEN cells[slot[t] % N].val ELSE item[t]

(* A producer in the middle of a claim has a cell between deq and enq, and a *)
(* consumer one of the last round, behind deq; no two have the same.         *)
Claims ==
    /\ \A t \in Producer : pc[t] = "commit" =>
            Dist(slot[t], deq) < Inside /\ cells[slot[t] % N].seq = slot[t]
    /\ \A t \in Consumer : pc[t] = "commit" =>
            /\ Dist(slot[t], deq) >= N + Inside
            /\ cells[slot[t] % N].seq = Plus(slot[t], 1) /\ cells[slot[t] % N].val \in Item
    /\ \A t, u \in Client : pc[t] = "commit" /\ pc[u] = "commit" /\ slot[t] = slot[u] => t = u

(* Cells from deq to enq hold an item, unless it has still to be written. *)
FullCells ==
    \A p \in Pos : Dist(p, deq) < Inside =>
        \/ cells[p % N].seq = Plus(p, 1) /\ cells[p % N].val \in Item
        \/ \E t \in Producer : pc[t] = "commit" /\ slot[t] = p

(* The others are free for the next round, unless they have still to be read. *)
FreeCells ==
    \A p \in Pos : Dist(p, deq) >= N + Inside =>
        \/ cells[p % N].seq = Plus(p, N)
        \/ \E t \in Consumer : pc[t] = "commit" /\ slot[t] = p

(* Who carries an item, and which channel a thread sleeps on. *)
Carries ==
    /\ \A t \in Producer : item[t] \in Item <=> pc[t] # "idle"
    /\ \A t \in Consumer : item[t] \in Item <=> pc[t] = "release"
    /\ \A t \in Client : wait[t].chan \in {OwnChan(t), None}

(* The safety properties with what they rest on. *)
IndInv ==
    /\ TypeOK /\ Inside <= N /\ Claims /\ FullCells /\ FreeCells
    /\ Carries /\ NoLostWakeup

C == INSTANCE Channel WITH Thread <- Client, q <- Contents, got <- [t \in Client |-> Got(t)]

(* The queue is a bounded FIFO channel: an item is in from the moment its    *)
(* producer claims a cell, it comes out once, in that order, and the cell is *)
(* not overwritten before its consumer has read it.                          *)
ImplementsChannel == C!Spec

(* While a consumer is inside dequeue and there is something to take, some   *)
(* consumer gets it; and likewise for producers and room.                    *)
Delivery ==
    /\ (\E t \in Consumer : mode[t] = "forever" /\ pc[t] = "first") /\ Inside > 0
        ~> \E t \in Consumer : pc[t] = "commit"
    /\ (\E t \in Producer : mode[t] = "forever" /\ pc[t] = "first") /\ Inside < N
        ~> \E t \in Producer : pc[t] = "commit"
=============================================================================
