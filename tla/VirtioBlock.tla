----------------------------- MODULE VirtioBlock -----------------------------
(***************************************************************************)
(* The block device driver of devices/virtio/block.rs: a virtqueue behind  *)
(* a spin lock, tasks that call read or write, and the interrupt handler   *)
(* that collects.  A request is three buffers, the header and the footer   *)
(* on the stack of the task that waits; a task waits on the queue's        *)
(* channel for descriptors, and on the address of its footer for the       *)
(* answer.  The handler holds the lock while it releases channels.         *)
(***************************************************************************)
EXTENDS Integers, Sequences, FiniteSets

CONSTANTS Task,
          Size,     \* queue_size
          Queue,    \* queue_wait_channel
          Irq,      \* the interrupt handler, as the holder of a lock
          None

ASSUME VirtioBlockAssumption ==
    /\ IsFiniteSet(Task) /\ Size \in Nat
    /\ Queue \notin Task /\ Irq \notin Task /\ None \notin Task \cup {Queue, Irq}

VARIABLES offered, held, done, back,   \* the virtqueue
          lock,     \* who holds requestq
          queue,    \* who holds TaskScheduler.queue
          wait,     \* what the scheduler keeps of blocked tasks
          pc,       \* where each task and the handler are
          footer,   \* RequestFooter.status
          notified, \* the device has been told to look at the available ring
          irq       \* the interrupt is pending

queueVars == <<offered, held, done, back>>
vars == <<queueVars, lock, queue, wait, pc, footer, notified, irq>>

Part == {"header", "body", "footer"}

WC == INSTANCE WaitChannels WITH Thread <- Task, Chan <- Task \cup {Queue}, NoChan <- None

Buffers(t) == <<<<t, "header">>, <<t, "body">>, <<t, "footer">>>>

VQ == INSTANCE Lending WITH Batch <- {Buffers(t) : t \in Task}

(* What the device answers, STATUS_OK or one of the errors.  RequestFooter's *)
(* first value is STATUS_OK too; as "new" it is kept apart here.             *)
Status == {"ok", "error"}

Init ==
    /\ VQ!Init
    /\ lock = None
    /\ queue = None
    /\ WC!Init
    /\ pc = [x \in Task \cup {Irq} |-> "idle"]
    /\ footer = [t \in Task |-> "new"]
    /\ notified = FALSE
    /\ irq = FALSE

Goto(x, l) == pc' = [pc EXCEPT ![x] = l]
-----------------------------------------------------------------------------
(* request *)

(* read or write, past check_capacity. *)
Request(t) ==
    /\ pc[t] = "idle"
    /\ footer' = [footer EXCEPT ![t] = "new"]
    /\ Goto(t, "lock")
    /\ UNCHANGED <<queueVars, lock, queue, wait, notified, irq>>

LockQueue(t) ==
    /\ pc[t] = "lock" /\ wait[t] = WC!Awake /\ lock = None
    /\ lock' = t
    /\ Goto(t, "transfer")
    /\ UNCHANGED <<queueVars, queue, wait, footer, notified, irq>>

Transfer(t) ==
    /\ pc[t] = "transfer"
    /\ VQ!Give(Buffers(t))
    /\ Goto(t, "notify")
    /\ UNCHANGED <<lock, queue, wait, footer, notified, irq>>

(* Mutant of Full: the lock is dropped before the scheduler's queue is taken. *)
FullUnlocked(t) ==
    /\ pc[t] = "transfer" /\ VQ!Free < Len(Buffers(t))
    /\ lock' = None
    /\ Goto(t, "sleep")
    /\ UNCHANGED <<queueVars, queue, wait, footer, notified, irq>>

(* Not enough descriptors: block(queue_wait_channel, None, requestq). *)
Full(t) ==
    /\ pc[t] = "transfer" /\ VQ!Free < Len(Buffers(t))
    /\ queue = None
    /\ queue' = t
    /\ lock' = None
    /\ Goto(t, "sleep")
    /\ UNCHANGED <<queueVars, wait, footer, notified, irq>>

Sleep(t) ==
    /\ pc[t] = "sleep"
    /\ WC!Block(t, Queue, FALSE)
    /\ queue' = None
    /\ Goto(t, "lock")
    /\ UNCHANGED <<queueVars, lock, footer, notified, irq>>

(* Mutant of Notify: the device is not told. *)
NotifyNot(t) ==
    /\ pc[t] = "notify"
    /\ Goto(t, "block")
    /\ UNCHANGED <<queueVars, lock, queue, wait, footer, notified, irq>>

Notify(t) ==
    /\ pc[t] = "notify"
    /\ notified' = TRUE
    /\ Goto(t, "block")
    /\ UNCHANGED <<queueVars, lock, queue, wait, footer, irq>>

(* block(complete_channel, None, requestq) *)
Block(t) ==
    /\ pc[t] = "block" /\ queue = None
    /\ queue' = t
    /\ lock' = None
    /\ Goto(t, "await")
    /\ UNCHANGED <<queueVars, wait, footer, notified, irq>>

(* Mutant of Await: the task waits on the channel of the queue. *)
AwaitQueue(t) ==
    /\ pc[t] = "await"
    /\ WC!Block(t, Queue, FALSE)
    /\ queue' = None
    /\ Goto(t, "return")
    /\ UNCHANGED <<queueVars, lock, footer, notified, irq>>

Await(t) ==
    /\ pc[t] = "await"
    /\ WC!Block(t, t, FALSE)
    /\ queue' = None
    /\ Goto(t, "return")
    /\ UNCHANGED <<queueVars, lock, footer, notified, irq>>

(* footer.into_result(), whatever woke the task; the footer is dead then. *)
Return(t) ==
    /\ pc[t] = "return" /\ wait[t] = WC!Awake
    /\ footer' = [footer EXCEPT ![t] = "new"]
    /\ Goto(t, "idle")
    /\ UNCHANGED <<queueVars, lock, queue, wait, notified, irq>>
-----------------------------------------------------------------------------
(* collect, from virtio_block_handler *)

Interrupt ==
    /\ pc[Irq] = "idle" /\ irq
    /\ irq' = FALSE
    /\ Goto(Irq, "lock")
    /\ UNCHANGED <<queueVars, lock, queue, wait, footer, notified>>

Collect ==
    /\ pc[Irq] = "lock" /\ lock = None
    /\ lock' = Irq
    /\ Goto(Irq, "collect")
    /\ UNCHANGED <<queueVars, queue, wait, footer, notified, irq>>

Dequeue ==
    /\ pc[Irq] = "collect"
    /\ VQ!Collect
    /\ UNCHANGED <<lock, queue, wait, pc, footer, notified, irq>>

(* Only the footer carries a channel, which is released. *)
Free ==
    /\ pc[Irq] = "collect" /\ back # <<>>
    /\ VQ!HandBack
    /\ IF Head(back)[2] = "footer" THEN queue = None /\ WC!Release(Head(back)[1]) ELSE UNCHANGED wait
    /\ UNCHANGED <<lock, queue, pc, footer, notified, irq>>

(* Mutant of Release: tasks that wait for descriptors are not woken. *)
ReleaseNobody ==
    /\ pc[Irq] = "collect" /\ back = <<>> /\ done = <<>> /\ queue = None
    /\ Goto(Irq, "unlock")
    /\ UNCHANGED <<queueVars, lock, queue, wait, footer, notified, irq>>

(* The loop ends and release(queue_wait_channel) follows. *)
Release ==
    /\ pc[Irq] = "collect" /\ back = <<>> /\ done = <<>> /\ queue = None
    /\ WC!Release(Queue)
    /\ Goto(Irq, "unlock")
    /\ UNCHANGED <<queueVars, lock, queue, footer, notified, irq>>

(* requestq is dropped, the interrupt acknowledged. *)
Unlock ==
    /\ pc[Irq] = "unlock"
    /\ lock' = None
    /\ Goto(Irq, "idle")
    /\ UNCHANGED <<queueVars, queue, wait, footer, notified, irq>>
-----------------------------------------------------------------------------
(* The device *)

(* It may look at the available ring unasked. *)
DeviceTake ==
    /\ VQ!Take
    /\ UNCHANGED <<lock, queue, wait, pc, footer, notified, irq>>

(* It has emptied the available ring since it was notified. *)
DeviceIdle ==
    /\ notified /\ offered = <<>>
    /\ notified' = FALSE
    /\ UNCHANGED <<queueVars, lock, queue, wait, pc, footer, irq>>

(* The footer is written, the chain put into the used ring, the interrupt sent. *)
DeviceUse(bs, s) ==
    /\ VQ!Finish(bs)
    /\ footer' = [footer EXCEPT ![bs[3][1]] = s]
    /\ irq' = TRUE
    /\ UNCHANGED <<lock, queue, wait, pc, notified>>

TaskStep(t) ==
    \/ LockQueue(t) \/ Transfer(t) \/ Full(t) \/ Sleep(t)
    \/ Notify(t) \/ Block(t) \/ Await(t) \/ Return(t)

Handler == Interrupt \/ Collect \/ Dequeue \/ Free \/ Release \/ Unlock

Next ==
    \/ \E t \in Task : Request(t) \/ TaskStep(t)
    \/ Handler
    \/ DeviceTake \/ DeviceIdle \/ \E bs \in held, s \in Status : DeviceUse(bs, s)

Spec == Init /\ [][Next]_vars

(* Tasks and the handler go on whenever they can, the handler even if it     *)
(* finds the lock free only again and again.  The device serves what it has  *)
(* taken, and takes what is available if it was notified.                    *)
FairSpec ==
    /\ Spec
    /\ \A t \in Task : WF_vars(TaskStep(t))
    /\ WF_vars(Handler) /\ SF_vars(Collect)
    /\ WF_vars(notified /\ DeviceTake)
    /\ \A t \in Task : WF_vars(Buffers(t) \in held /\ \E s \in Status : DeviceUse(Buffers(t), s))
-----------------------------------------------------------------------------
Elems(s) == {s[i] : i \in DOMAIN s}

(* Every variable keeps the type that its Rust declaration gives it. *)
TypeOK ==
    /\ offered \in Seq({Buffers(t) : t \in Task})
    /\ held \subseteq {Buffers(t) : t \in Task}
    /\ done \in Seq({Buffers(t) : t \in Task})
    /\ back \in Seq(Task \X Part)
    /\ lock \in Task \cup {Irq, None}
    /\ queue \in Task \cup {None}
    /\ wait \in [Task -> WC!Waiting]
    /\ pc \in [Task \cup {Irq} -> {"idle", "lock", "transfer", "sleep", "notify", "block",
                                   "await", "return", "collect", "unlock"}]
    /\ footer \in [Task -> Status \cup {"new"}]
    /\ notified \in BOOLEAN
    /\ irq \in BOOLEAN

(* Tasks whose buffers the device may still read or write. *)
Exposed == {bs[1][1] : bs \in Elems(offered) \cup held}

(* request returns only when the device is done with the header, the body    *)
(* and the footer, which live on the stack of the task that called it; no    *)
(* spurious wakeup ends the last block, which is not in a loop.              *)
BuffersOutliveRequest ==
    \A t \in Exposed :
        pc[t] \in {"notify", "block", "await"} \/ (pc[t] = "return" /\ wait[t] # WC!Awake)

(* When request returns, the status it reads was written by the device for   *)
(* this request, not the STATUS_OK that the footer starts with.              *)
AnsweredByDevice == \A t \in Task : pc[t] = "return" /\ wait[t] = WC!Awake => footer[t] # "new"

(* A task that waits for its answer is in the hands of the device or of the  *)
(* handler; one that waits for descriptors is owed a release, because the    *)
(* queue is short of them or the handler has still to get to its end.  What  *)
(* is in the used ring is owed an interrupt.                                 *)
NoLostWakeup ==
    /\ \A t \in Task : wait[t].chan = t => <<t, "footer">> \in VQ!Away
    /\ (\E t \in Task : wait[t].chan = Queue) => VQ!Free < 3 \/ pc[Irq] = "collect"
    /\ done # <<>> => irq \/ pc[Irq] \in {"lock", "collect"}

(* A request has been given to the queue and its task not been released. *)
Pending(t) == pc[t] \in {"notify", "block", "await"} \/ (pc[t] = "return" /\ wait[t] # WC!Awake)

(* What is left in back of the request of t. *)
Rest(t) == {Buffers(t), <<<<t, "body">>, <<t, "footer">>>>, <<<<t, "footer">>>>}

Given(t) == Buffers(t) \in Elems(offered) \cup held \cup Elems(done)
Once(s) == \A i, j \in DOMAIN s : s[i] = s[j] => i = j

(* A request is in one place of the queue from its transfer until its task   *)
(* is released, and in none otherwise; what the device is done with has its  *)
(* answer.                                                                   *)
InOnePlace ==
    /\ Once(offered) /\ Once(done)
    /\ Elems(offered) \cap held = {} /\ Elems(offered) \cap Elems(done) = {} /\ held \cap Elems(done) = {}
    /\ back # <<>> => pc[Irq] = "collect" /\ \E t \in Task : back \in Rest(t)
    /\ \A t \in Task : back \in Rest(t) => ~Given(t)
    /\ \A t \in Task : Pending(t) <=> Given(t) \/ back \in Rest(t)
    /\ \A t \in Task : Buffers(t) \in Elems(done) \/ back \in Rest(t) => footer[t] # "new"

(* Who holds which lock, and what suspended tasks wait for. *)
Discipline ==
    /\ \A t \in Task : lock = t <=> pc[t] \in {"transfer", "notify", "block"}
    /\ lock = Irq <=> pc[Irq] \in {"collect", "unlock"}
    /\ \A t \in Task : queue = t <=> pc[t] \in {"sleep", "await"}
    /\ \A t \in Task : wait[t] # WC!Awake =>
            \/ pc[t] = "lock" /\ wait[t] = [chan |-> Queue, timed |-> FALSE]
            \/ pc[t] = "return" /\ wait[t] = [chan |-> t, timed |-> FALSE]
    /\ \A t \in Task : pc[t] = "sleep" => VQ!Free < 3 \/ pc[Irq] = "collect"

(* The safety properties with what they rest on. *)
IndInv == TypeOK /\ Discipline /\ InOnePlace /\ AnsweredByDevice /\ NoLostWakeup

(* Every request that is given to the device returns. *)
EveryRequestReturns == \A t \in Task : pc[t] = "notify" ~> pc[t] = "idle"

(* While somebody asks, somebody's request gets through to the device. *)
SomebodyIsServed == (\E t \in Task : pc[t] = "lock") ~> (\E t \in Task : pc[t] = "notify")
=============================================================================
