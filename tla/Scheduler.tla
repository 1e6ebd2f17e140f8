------------------------------ MODULE Scheduler ------------------------------
(***************************************************************************)
(* The preemptive task scheduler: TaskScheduler and TaskQueue (task.rs),   *)
(* the context switch (context.rs, asm.s), the per-CPU state (cpu.rs) and  *)
(* the interrupt lock and timer handler (interrupts.rs).                   *)
(*                                                                         *)
(* Control is kept at the grain at which CPUs can interleave: a step is a  *)
(* stretch of code that runs with interrupts disabled and touches either   *)
(* the state of its own CPU, or the task queue under its lock, or one      *)
(* flag of a context.  A loop over the queue is one step per iteration.    *)
(* The kernel boots one CPU at present, and the code is written for        *)
(* several; Cpu is a parameter.                                            *)
(***************************************************************************)
EXTENDS Integers, FiniteSets, Sequences

CONSTANTS Cpu,         \* processors; c is also the name of the thread that booted c
          Worker,      \* threads created with TaskScheduler::add
          Prio,        \* priority level of each worker
          Chan,        \* wait channels
          Durations,   \* timeouts and sleeps, in ticks, that clients ask for
          MaxTick,     \* bound on TICKS
          MaxPending,  \* bound on pending_id_gen
          None         \* Option::None, a free lock, an absent map entry

Level == 0 .. 3              \* Priority::L0 .. Priority::L3
Thread == Worker \cup Cpu
PendingId == 0 .. MaxPending - 1

ASSUME SchedulerAssumption ==
    /\ Worker \cap Cpu = {}
    /\ Prio \in [Worker -> Level]
    /\ Durations \subseteq Nat
    /\ MaxTick \in Nat
    /\ MaxPending \in Nat
    /\ None \notin Thread
    /\ None \notin Chan
    /\ None \notin Durations
    /\ IsFiniteSet(Cpu)

(* Task::priority: a boot thread becomes a task through new_current(MIN). *)
Priority(t) == IF t \in Worker THEN Prio[t] ELSE 0

VARIABLES
    ticks,        \* interrupts::TICKS
    created,      \* threads that a Task object stands for
    runnable,     \* TaskQueue.runnable_tasks, one queue per level
    pending,      \* TaskQueue.pending_tasks
    blocks,       \* TaskQueue.blocks; ids are pushed in increasing order, so the
                  \*   set, walked upwards, is the vector
    timeouts,     \* TaskQueue.timeouts
    pendingIdGen, \* TaskQueue.pending_id_gen
    qlock,        \* the CPU that holds TaskScheduler.queue
    guards,       \* the CPU that holds the spin lock that goes with a channel
    running,      \* CpuState.running_task
    cli,          \* CpuState.thread_state and the interrupt flag
    exec,         \* the thread whose stack and registers the CPU uses
    hand,         \* local of switch: cpu_task
    op,           \* local of switch: what scheduling_op asks for
    todo,         \* local of release: ids still to wake
    now,          \* local of elapse: ticks
    pc,           \* where each CPU is
    ctx,          \* Task.ctx: saved flag, resume point, rflags.IF, cts
    irq           \* whether a thread's stack holds an interrupt frame

queueVars == <<runnable, pending, blocks, timeouts, pendingIdGen>>
localVars == <<hand, op, todo, now>>
vars == <<ticks, created, queueVars, qlock, guards, running, cli, exec, localVars,
          pc, ctx, irq>>

CliState == [ncli : Int, zcli : BOOLEAN, intr : BOOLEAN]

(* Mutant of CliNew: interrupts stay enabled under the outermost lock. *)
CliNewEnabled(k) ==
    [ncli |-> k.ncli + 1, intr |-> k.intr,
     zcli |-> (k.ncli = 0 /\ ~k.intr) \/ (k.ncli # 0 /\ k.zcli)]

(* Interrupt lock: Cli::new and Cli::drop on [ncli, zcli] and IF. *)
CliNew(k) ==
    [ncli |-> k.ncli + 1, intr |-> FALSE,
     zcli |-> (k.ncli = 0 /\ ~k.intr) \/ (k.ncli # 0 /\ k.zcli)]

CliDrop(k) ==
    [ncli |-> k.ncli - 1, zcli |-> k.zcli, intr |-> k.ncli = 1 /\ ~k.zcli]

Masked(k) == [k EXCEPT !.intr = FALSE]      \* through an interrupt gate
Iret(k) == [k EXCEPT !.intr = TRUE]         \* back to code that was interrupted

Op == [kind : {"yield", "block", "try", "sleep"}, chan : Chan \cup {None},
       timeout : Durations \cup {None}, guarded : BOOLEAN]

Yield == [kind |-> "yield", chan |-> None, timeout |-> None, guarded |-> FALSE]

Timeout == [at : Nat, id : PendingId, chan : Chan \cup {None}]

Context == [saved : BOOLEAN, rip : {"entry", "switch"}, intr : BOOLEAN, ncli : Int,
            zcli : BOOLEAN]

(* Context::new for a worker, Context::uninitialized for a boot thread. *)
NewContext(t) ==
    [saved |-> t \in Worker, rip |-> "entry", intr |-> t \in Worker, ncli |-> 0, zcli |-> FALSE]

(* What switch_context stores for a CPU whose interrupt lock is k. *)
SavedContext(k) ==
    [saved |-> TRUE, rip |-> "switch", intr |-> k.intr, ncli |-> k.ncli, zcli |-> k.zcli]

Init ==
    /\ ticks = 0
    /\ created = {}
    /\ runnable = [l \in Level |-> <<>>]
    /\ pending = [i \in PendingId |-> None]
    /\ blocks = [ch \in Chan |-> {}]
    /\ timeouts = {}
    /\ pendingIdGen = 0
    /\ qlock = None
    /\ guards = [ch \in Chan |-> None]
    /\ running = [c \in Cpu |-> None]
    /\ cli = [c \in Cpu |-> [ncli |-> 0, zcli |-> FALSE, intr |-> TRUE]]
    /\ exec = [c \in Cpu |-> c]
    /\ hand = [c \in Cpu |-> None]
    /\ op = [c \in Cpu |-> Yield]
    /\ todo = [c \in Cpu |-> {}]
    /\ now = [c \in Cpu |-> 0]
    /\ pc = [c \in Cpu |-> "run"]
    /\ ctx = [t \in Thread |-> NewContext(t)]
    /\ irq = [t \in Thread |-> FALSE]

Goto(c, l) == pc' = [pc EXCEPT ![c] = l]

(* Mutant of Enqueued: the idle level has no queue. *)
EnqueuedAboveIdle(q, t) ==
    IF Priority(t) = 0 THEN q ELSE [q EXCEPT ![Priority(t)] = Append(@, t)]

(* TaskQueue::enqueue *)
Enqueued(q, t) == [q EXCEPT ![Priority(t)] = Append(@, t)]

-----------------------------------------------------------------------------
(* TaskScheduler::add; kernel_main2 and console::initialize are its callers. *)
Add(c, w) ==
    /\ pc[c] = "run" /\ w \notin created /\ qlock = None
    /\ created' = created \cup {w}
    /\ runnable' = Enqueued(runnable, w)
    /\ UNCHANGED <<ticks, pending, blocks, timeouts, pendingIdGen, qlock, guards, running,
                   cli, exec, localVars, pc, ctx, irq>>

(* Spin::lock on the data that a channel stands for, and its guard's drop. *)
LockGuard(c, ch) ==
    /\ pc[c] = "run" /\ exec[c] \in Worker /\ guards[ch] = None
    /\ guards' = [guards EXCEPT ![ch] = c]
    /\ cli' = [cli EXCEPT ![c] = CliNew(@)]
    /\ Goto(c, "guard")
    /\ UNCHANGED <<ticks, created, queueVars, qlock, running, exec, localVars, ctx, irq>>

UnlockGuard(c, ch) ==
    /\ pc[c] = "guard" /\ guards[ch] = c
    /\ guards' = [guards EXCEPT ![ch] = None]
    /\ cli' = [cli EXCEPT ![c] = CliDrop(@)]
    /\ Goto(c, "run")
    /\ UNCHANGED <<ticks, created, queueVars, qlock, running, exec, localVars, ctx, irq>>

(***************************************************************************)
(* TaskScheduler::switch up to the queue lock: take running_task, or make  *)
(* a Task of the boot thread on its first switch.                          *)
(***************************************************************************)
Enter(c, o) ==
    /\ op' = [op EXCEPT ![c] = o]
    /\ hand' = [hand EXCEPT ![c] = IF running[c] = None THEN exec[c] ELSE running[c]]
    /\ created' = created \cup {hand'[c]}
    /\ running' = [running EXCEPT ![c] = None]
    /\ Goto(c, "lock")

(* Bound: ids are left for the calls already under way. *)
Suspending == {d \in Cpu : pc[d] \in {"lock", "dequeue"} /\ op[d].kind # "yield"}

WithinBounds == pendingIdGen + Cardinality(Suspending) < MaxPending

(* The calls a worker makes: yield, sleep, Queue's conditional block, and   *)
(* block with the guard of the channel.  Boot threads only halt.            *)
Call(c) ==
    /\ exec[c] \in Worker
    /\ \E o \in Op :
        /\ \/ pc[c] = "run" /\ o = Yield
           \/ /\ pc[c] = "run" /\ o.kind = "sleep" /\ o.chan = None /\ o.timeout # None
              /\ ~o.guarded /\ WithinBounds
           \/ /\ pc[c] = "run" /\ o.kind = "try" /\ o.chan # None /\ ~o.guarded
              /\ WithinBounds
           \/ /\ pc[c] = "guard" /\ o.kind = "block" /\ o.guarded /\ WithinBounds
              /\ o.chan # None /\ guards[o.chan] = c
        /\ Enter(c, o)
    /\ cli' = [cli EXCEPT ![c] = CliNew(@)]
    /\ UNCHANGED <<ticks, queueVars, qlock, guards, exec, todo, now, ctx, irq>>

(* The queue is locked and scheduling_op runs: block drops its guard. *)
SchedulingOp(c) ==
    /\ pc[c] = "lock" /\ qlock = None
    /\ qlock' = c
    /\ guards' = [ch \in Chan |-> IF op[c].guarded /\ ch = op[c].chan THEN None ELSE guards[ch]]
    /\ cli' = [cli EXCEPT ![c] = IF op[c].guarded THEN CliDrop(CliNew(@)) ELSE CliNew(@)]
    /\ Goto(c, "dequeue")
    /\ UNCHANGED <<ticks, created, queueVars, running, exec, localVars, ctx, irq>>

(* Mutant of Install: the task is not put back in running_task. *)
InstallForgets(c, l) ==
    /\ qlock' = None
    /\ cli' = [cli EXCEPT ![c] = CliDrop(@)]
    /\ hand' = [hand EXCEPT ![c] = None]
    /\ op' = [op EXCEPT ![c] = Yield]
    /\ Goto(c, l)
    /\ UNCHANGED running

(* The queue is unlocked and hand becomes the running task again. *)
Install(c, l) ==
    /\ qlock' = None
    /\ cli' = [cli EXCEPT ![c] = CliDrop(@)]
    /\ running' = [running EXCEPT ![c] = hand[c]]
    /\ hand' = [hand EXCEPT ![c] = None]
    /\ op' = [op EXCEPT ![c] = Yield]      \* the local is dead
    /\ Goto(c, l)

(* scheduling_op succeeded on its second try and returned None. *)
Cancel(c) ==
    /\ pc[c] = "dequeue" /\ op[c].kind = "try"
    /\ Install(c, "leave")
    /\ UNCHANGED <<ticks, created, queueVars, guards, exec, todo, now, ctx, irq>>

-----------------------------------------------------------------------------
(* TaskQueue::dequeue *)

MinimumLevel(c) == IF op[c].kind = "yield" THEN Priority(hand[c]) ELSE 0

(* Mutant of IsNextLevel: tasks of the same level do not take turns. *)
IsHigherLevel(c, l) ==
    /\ l > MinimumLevel(c)
    /\ runnable[l] # <<>>
    /\ \A m \in Level : m > l => runnable[m] = <<>>

IsNextLevel(c, l) ==
    /\ l >= MinimumLevel(c)
    /\ runnable[l] # <<>>
    /\ \A m \in Level : m > l => runnable[m] = <<>>

(* Bound: clock and deadlines saturate at MaxTick, which stands for the future. *)
Deadline(t) == IF ticks + t < MaxTick THEN ticks + t ELSE MaxTick

(* The current task goes back to its queue, or to pending_tasks. *)
Register(c, q) ==
    \/ /\ op[c].kind = "yield"
       /\ runnable' = Enqueued(q, hand[c])
       /\ UNCHANGED <<pending, blocks, timeouts, pendingIdGen>>
    \/ /\ op[c].kind # "yield" /\ pendingIdGen \in PendingId
       /\ runnable' = q
       /\ pendingIdGen' = pendingIdGen + 1
       /\ pending' = [pending EXCEPT ![pendingIdGen] = hand[c]]
       /\ blocks' = [ch \in Chan |->
                        IF ch = op[c].chan THEN blocks[ch] \cup {pendingIdGen} ELSE blocks[ch]]
       /\ timeouts' = IF op[c].timeout = None THEN timeouts
                      ELSE timeouts \cup {[at |-> Deadline(op[c].timeout), id |-> pendingIdGen,
                                           chan |-> op[c].chan]}

Dequeue(c) ==
    /\ pc[c] = "dequeue"
    /\ \E l \in Level :
        /\ IsNextLevel(c, l)
        /\ Register(c, [runnable EXCEPT ![l] = Tail(@)])
        /\ ctx' = [ctx EXCEPT ![hand[c]] = [@ EXCEPT !.saved = FALSE]]
        /\ hand' = [hand EXCEPT ![c] = Head(runnable[l])]
    /\ Goto(c, "wait")
    /\ UNCHANGED <<ticks, created, qlock, guards, running, cli, exec, op, todo, now, irq>>

(* There are no tasks to switch: the current task goes on. *)
DequeueNone(c) ==
    /\ pc[c] = "dequeue"
    /\ \A l \in Level : ~IsNextLevel(c, l)
    /\ Install(c, "leave")
    /\ UNCHANGED <<ticks, created, queueVars, guards, exec, todo, now, ctx, irq>>

-----------------------------------------------------------------------------
(* The context switch *)

(* Mutant of WaitSaved: the flag is not waited for. *)
WaitNothing(c) ==
    /\ pc[c] = "wait"
    /\ Install(c, "save")
    /\ UNCHANGED <<ticks, created, queueVars, guards, exec, todo, now, ctx, irq>>

(* Context::wait_saved returns; the lock was held while it spun. *)
WaitSaved(c) ==
    /\ pc[c] = "wait" /\ ctx[hand[c]].saved
    /\ Install(c, "save")
    /\ UNCHANGED <<ticks, created, queueVars, guards, exec, todo, now, ctx, irq>>

(* Context::switch and switch_context up to "Mark as saved". *)
Save(c) ==
    /\ pc[c] = "save"
    /\ ctx' = [ctx EXCEPT ![exec[c]] = SavedContext(cli[c])]
    /\ cli' = [cli EXCEPT ![c] = [ncli |-> ctx[running[c]].ncli, zcli |-> ctx[running[c]].zcli,
                                   intr |-> @.intr]]
    /\ Goto(c, "restore")
    /\ UNCHANGED <<ticks, created, queueVars, qlock, guards, running, exec, localVars, irq>>

(* The rest of switch_context; it still pushes the iret frame on the stack   *)
(* of the thread it has marked as saved.                                     *)
Restore(c) ==
    /\ pc[c] = "restore"
    /\ exec' = [exec EXCEPT ![c] = running[c]]
    /\ cli' = [cli EXCEPT ![c] = [@ EXCEPT !.intr = ctx[running[c]].intr]]
    /\ Goto(c, IF ctx[running[c]].rip = "entry" THEN "run" ELSE "leave")
    /\ UNCHANGED <<ticks, created, queueVars, qlock, guards, running, localVars, ctx, irq>>

(* drop(cli) at the end of switch, then the return to the caller: task code *)
(* or, through iret, the code that the timer interrupted.                   *)
Leave(c) ==
    /\ pc[c] = "leave"
    /\ cli' = [cli EXCEPT ![c] = IF irq[exec[c]] THEN Iret(CliDrop(@)) ELSE CliDrop(@)]
    /\ irq' = [irq EXCEPT ![exec[c]] = FALSE]
    /\ Goto(c, "run")
    /\ UNCHANGED <<ticks, created, queueVars, qlock, guards, running, exec, localVars, ctx>>

-----------------------------------------------------------------------------
(* TaskScheduler::release, called by a worker or by a device's handler *)

(* Mutant of Waiters: only the first is woken. *)
FirstWaiter(ch) == {i \in blocks[ch] : \A j \in blocks[ch] : i <= j}

(* The ids that a release takes out of blocks and wakes: all of the channel's. *)
Waiters(ch) == blocks[ch]

StartRelease(c, ch) ==
    /\ qlock = None
    /\ qlock' = c
    /\ todo' = [todo EXCEPT ![c] = Waiters(ch)]
    /\ blocks' = [blocks EXCEPT ![ch] = @ \ Waiters(ch)]
    /\ Goto(c, "release")
    /\ UNCHANGED <<ticks, created, runnable, pending, timeouts, pendingIdGen, guards, running,
                   exec, hand, op, now, ctx>>

Release(c, ch) ==
    /\ pc[c] = "run" /\ exec[c] \in Worker
    /\ StartRelease(c, ch)
    /\ cli' = [cli EXCEPT ![c] = CliNew(@)]
    /\ UNCHANGED irq

DeviceInterrupt(c, ch) ==
    /\ cli[c].intr
    /\ StartRelease(c, ch)
    /\ cli' = [cli EXCEPT ![c] = CliNew(Masked(@))]
    /\ irq' = [irq EXCEPT ![exec[c]] = TRUE]

(* Mutant of Wake: the map keeps the task. *)
WakeShared(id) ==
    /\ runnable' = IF pending[id] = None THEN runnable ELSE Enqueued(runnable, pending[id])
    /\ UNCHANGED pending

(* One iteration of a loop that wakes the task pending under an id. *)
Wake(id) ==
    /\ pending' = [pending EXCEPT ![id] = None]
    /\ runnable' = IF pending[id] = None THEN runnable ELSE Enqueued(runnable, pending[id])

ReleaseStep(c) ==
    /\ pc[c] = "release"
    /\ \E id \in todo[c] :
        /\ \A i \in todo[c] : id <= i
        /\ Wake(id)
        /\ todo' = [todo EXCEPT ![c] = @ \ {id}]
    /\ UNCHANGED <<ticks, created, blocks, timeouts, pendingIdGen, qlock, guards, running, cli,
                   exec, hand, op, now, pc, ctx, irq>>

(* The queue is unlocked; a handler returns through iret. *)
ReleaseEnd(c) ==
    /\ pc[c] = "release" /\ todo[c] = {}
    /\ qlock' = None
    /\ cli' = [cli EXCEPT ![c] = IF irq[exec[c]] THEN Iret(CliDrop(@)) ELSE CliDrop(@)]
    /\ irq' = [irq EXCEPT ![exec[c]] = FALSE]
    /\ Goto(c, "run")
    /\ UNCHANGED <<ticks, created, queueVars, guards, running, exec, localVars, ctx>>

-----------------------------------------------------------------------------
(* timer_handler: count the tick, elapse, yield *)

(* Mutant of Timer: the tick is not counted. *)
TimerUncounted(c) ==
    /\ cli[c].intr
    /\ cli' = [cli EXCEPT ![c] = Masked(@)]
    /\ irq' = [irq EXCEPT ![exec[c]] = TRUE]
    /\ Goto(c, "timer")
    /\ UNCHANGED <<ticks, created, queueVars, qlock, guards, running, exec, localVars, ctx>>

Timer(c) ==
    /\ cli[c].intr
    /\ ticks' = Deadline(1)
    /\ cli' = [cli EXCEPT ![c] = Masked(@)]
    /\ irq' = [irq EXCEPT ![exec[c]] = TRUE]
    /\ Goto(c, "timer")
    /\ UNCHANGED <<created, queueVars, qlock, guards, running, exec, localVars, ctx>>

Elapse(c) ==
    /\ pc[c] = "timer" /\ qlock = None
    /\ qlock' = c
    /\ cli' = [cli EXCEPT ![c] = CliNew(@)]
    /\ now' = [now EXCEPT ![c] = ticks]
    /\ Goto(c, "elapse")
    /\ UNCHANGED <<ticks, created, queueVars, guards, running, exec, hand, op, todo, ctx, irq>>

(* Mutant of Due: one tick too early. *)
DueEarly(c) == {e \in timeouts : e.at <= now[c] + 1}

Due(c) == {e \in timeouts : e.at <= now[c]}

(* Mutant of Unregistered: the whole vector of the channel is dropped. *)
UnregisteredAll(e) == [ch \in Chan |-> IF ch = e.chan THEN {} ELSE blocks[ch]]

(* The vectors of the channels without the id of a timeout that fires. *)
Unregistered(e) ==
    [ch \in Chan |-> IF ch = e.chan THEN blocks[ch] \ {e.id} ELSE blocks[ch]]

(* Mutant of ElapseStep: the entry is not popped. *)
ElapsePeeks(c) ==
    /\ pc[c] = "elapse"
    /\ \E e \in Due(c) :
        /\ \A f \in timeouts : e.at < f.at \/ (e.at = f.at /\ e.id <= f.id)
        /\ Wake(e.id)
        /\ blocks' = Unregistered(e)
    /\ UNCHANGED <<ticks, created, timeouts, pendingIdGen, qlock, guards, running, cli, exec,
                   localVars, pc, ctx, irq>>

(* The heap's minimum, ordered by tick and then by id. *)
ElapseStep(c) ==
    /\ pc[c] = "elapse"
    /\ \E e \in Due(c) :
        /\ \A f \in timeouts : e.at < f.at \/ (e.at = f.at /\ e.id <= f.id)
        /\ Wake(e.id)
        /\ blocks' = Unregistered(e)
        /\ timeouts' = timeouts \ {e}
    /\ UNCHANGED <<ticks, created, pendingIdGen, qlock, guards, running, cli, exec, localVars,
                   pc, ctx, irq>>

(* The queue is unlocked, and yield enters switch. *)
ElapseEnd(c) ==
    /\ pc[c] = "elapse" /\ Due(c) = {}
    /\ qlock' = None
    /\ Enter(c, Yield)
    /\ cli' = [cli EXCEPT ![c] = CliNew(CliDrop(@))]
    /\ now' = [now EXCEPT ![c] = 0]
    /\ UNCHANGED <<ticks, queueVars, guards, exec, todo, ctx, irq>>

-----------------------------------------------------------------------------
Step(c) ==
    \/ \E w \in Worker : Add(c, w)
    \/ \E ch \in Chan : LockGuard(c, ch) \/ UnlockGuard(c, ch)
    \/ Call(c) \/ SchedulingOp(c) \/ Cancel(c) \/ Dequeue(c) \/ DequeueNone(c)
    \/ WaitSaved(c) \/ Save(c) \/ Restore(c) \/ Leave(c)
    \/ \E ch \in Chan : Release(c, ch) \/ DeviceInterrupt(c, ch)
    \/ ReleaseStep(c) \/ ReleaseEnd(c)
    \/ Timer(c) \/ Elapse(c) \/ ElapseStep(c) \/ ElapseEnd(c)

Next == \E c \in Cpu : Step(c)

Spec == Init /\ [][Next]_vars
-----------------------------------------------------------------------------
(* Fairness: the instructions of a CPU are executed, a critical section of   *)
(* task code ends, and the local APIC keeps a timer interrupt pending until  *)
(* interrupts are enabled, which makes the timer strongly fair.              *)

Kernel(c) ==
    \/ SchedulingOp(c) \/ Cancel(c) \/ Dequeue(c) \/ DequeueNone(c)
    \/ WaitSaved(c) \/ Save(c) \/ Restore(c) \/ Leave(c)
    \/ ReleaseStep(c) \/ ReleaseEnd(c) \/ Elapse(c) \/ ElapseStep(c) \/ ElapseEnd(c)

GuardEnds(c) == pc[c] = "guard" /\ (Call(c) \/ \E ch \in Chan : UnlockGuard(c, ch))

FairSpec ==
    /\ Spec
    /\ \A c \in Cpu : WF_vars(Kernel(c)) /\ WF_vars(GuardEnds(c)) /\ SF_vars(Timer(c))

-----------------------------------------------------------------------------
(* Properties *)

InQ(q, t) == \E l \in Level : \E i \in DOMAIN q[l] : q[l][i] = t
InQueue(t) == InQ(runnable, t)
InPending(t) == \E i \in PendingId : pending[i] = t
Held(c, t) == running[c] = t \/ hand[c] = t

(* Every task waits in the queue of its priority, and only once. *)
QueueOK(q) ==
    \A l \in Level : \A i \in DOMAIN q[l] :
        /\ Priority(q[l][i]) = l
        /\ \A j \in DOMAIN q[l] : q[l][i] = q[l][j] => i = j

Labels == {"run", "guard", "lock", "dequeue", "wait", "save", "restore", "leave",
           "release", "timer", "elapse"}

(* Every variable keeps the type that its Rust declaration gives it. *)
TypeOK ==
    /\ ticks \in Nat
    /\ created \subseteq Thread
    /\ runnable \in [Level -> Seq(Thread)]
    /\ pending \in [PendingId -> Thread \cup {None}]
    /\ blocks \in [Chan -> SUBSET PendingId]
    /\ timeouts \subseteq Timeout
    /\ pendingIdGen \in 0 .. MaxPending
    /\ qlock \in Cpu \cup {None}
    /\ guards \in [Chan -> Cpu \cup {None}]
    /\ running \in [Cpu -> Thread \cup {None}]
    /\ cli \in [Cpu -> CliState]
    /\ exec \in [Cpu -> Thread]
    /\ hand \in [Cpu -> Thread \cup {None}]
    /\ op \in [Cpu -> Op]
    /\ todo \in [Cpu -> SUBSET PendingId]
    /\ now \in [Cpu -> Nat]
    /\ pc \in [Cpu -> Labels]
    /\ ctx \in [Thread -> Context]
    /\ irq \in [Thread -> BOOLEAN]

(* switch moves the Box<Task> between running_task, its local, the run       *)
(* queues and pending_tasks: no thread is ever in two of these places, nor   *)
(* twice in one, so no context can be resumed by two CPUs.                   *)
ThreadInOnePlace ==
    /\ QueueOK(runnable)
    /\ \A i, j \in PendingId : pending[i] = pending[j] /\ pending[i] # None => i = j
    /\ \A t \in Thread : ~(InQueue(t) /\ InPending(t))
    /\ \A c \in Cpu, t \in Thread : Held(c, t) => ~InQueue(t) /\ ~InPending(t)
    /\ \A c, d \in Cpu, t \in Thread : Held(c, t) /\ Held(d, t) => c = d
    /\ \A c \in Cpu : running[c] = None \/ hand[c] = None

(* The FIXME of switch relies on it: a task whose context is in use or saved *)
(* is always owned by some queue, map or CPU, so it is never dropped.        *)
NoThreadLost ==
    \A t \in created : InQueue(t) \/ InPending(t) \/ \E c \in Cpu : Held(c, t)

(* A suspended task can always still be woken: its id is in the vector of a  *)
(* channel, in the timeout heap, or in the list that release is working on.  *)
NoOrphan ==
    \A i \in PendingId : pending[i] # None =>
        \/ \E ch \in Chan : i \in blocks[ch]
        \/ \E e \in timeouts : e.id = i
        \/ \E c \in Cpu : i \in todo[c]

(* dequeue returns current_task "when there are no tasks to switch", which   *)
(* makes block return at once.  Callers that block without a loop            *)
(* (Block::request) need that this never happens: a boot thread never        *)
(* suspends, so one is in the queue whenever a CPU runs something else.      *)
BlockNeverFallsThrough ==
    \A c \in Cpu : pc[c] = "dequeue" /\ op[c].kind # "yield" => \E l \in Level : runnable[l] # <<>>

(* wait_saved: a CPU restores a context only after the registers have been   *)
(* stored, and two CPUs never execute the same thread.                       *)
OnlySavedResumed ==
    /\ \A c \in Cpu : pc[c] \in {"save", "restore"} => ctx[running[c]].saved
    /\ \A c, d \in Cpu : c # d /\ pc[c] # "restore" /\ pc[d] # "restore" => exec[c] # exec[d]

(* A CPU never takes an interrupt while it holds the queue lock or a spin    *)
(* guard, task code always runs with interrupts enabled and ncli = 0, and    *)
(* the assertions of switch (ncli = 1 + other_cli, running_task empty) and   *)
(* of Cli::drop (interrupts disabled) hold, whatever CPU a task resumes on.  *)
InterruptDiscipline ==
    \A c \in Cpu :
        /\ qlock = c \/ (\E ch \in Chan : guards[ch] = c) => ~cli[c].intr /\ cli[c].ncli > 0
        /\ pc[c] = "run" => cli[c].intr /\ cli[c].ncli = 0 /\ ~irq[exec[c]]
        /\ pc[c] = "lock" => cli[c].ncli = IF op[c].guarded THEN 2 ELSE 1
        /\ pc[c] \in {"wait", "dequeue"} => running[c] = None
        /\ pc[c] = "leave" => cli[c].ncli = 1 /\ ~cli[c].intr

(* A task that has no other reason to wake never wakes before its deadline:  *)
(* elapse takes an id out of pending_tasks only when its tick has come.      *)
NeverEarly ==
    [][\A i \in PendingId :
        pending[i] # None /\ pending'[i] = None /\ (\A c \in Cpu : i \notin todo[c])
            => \E e \in timeouts : e.id = i /\ e.at <= ticks]_vars

(* A task that is ready at the highest priority gets a CPU: the timer makes  *)
(* every running task yield, and a yield takes the front of the top queue.   *)
TopPriorityRuns ==
    \A w \in Worker : InQueue(w) /\ Priority(w) = 3 ~> \E c \in Cpu : running[c] = w

(* Every timeout in the heap is eventually handled: sleep and the timed      *)
(* blocks return.                                                            *)
TimeoutsFire == \A i \in PendingId : (\E e \in timeouts : e.id = i) ~> pending[i] = None

(* wait_saved spins while the queue lock is held, and the lock is still      *)
(* always released: the CPU it waits for needs no lock to finish saving.     *)
QueueLockReleased == qlock # None ~> qlock = None

(* What a thread waits for, as clients see it: release wakes all of its      *)
(* waiters at the moment it takes the vector out of blocks.                  *)
WaitOf(t) ==
    LET ids == {i \in PendingId : pending[i] = t /\ \A c \in Cpu : i \notin todo[c]}
        chans == {ch \in Chan : \E i \in ids : i \in blocks[ch]}
    IN  [chan  |-> IF chans = {} THEN None ELSE CHOOSE ch \in chans : TRUE,
         timed |-> \E e \in timeouts : e.id \in ids]

WC == INSTANCE WaitChannels WITH NoChan <- None, wait <- [t \in Thread |-> WaitOf(t)]

(* The scheduler implements wait channels: through all its queues, CPUs and  *)
(* stale heap entries, a thread wakes only through a release of the channel  *)
(* it waits on or through its own timeout.                                   *)
ImplementsWaitChannels == WC!Spec

(* "saved ... used to confirm the end of the context saving process"         *)
(* (context.rs): once a context is marked as saved, and so may be resumed    *)
(* elsewhere, the CPU that saved it no longer uses that thread's stack.      *)
StackExclusive == \A c, d \in Cpu : c # d => exec[c] # exec[d]
=============================================================================
