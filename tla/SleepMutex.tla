----------------------------- MODULE SleepMutex -----------------------------
(***************************************************************************)
(* The blocking mutex of sync/mutex.rs, on top of the wait channels of the *)
(* scheduler.  The flag is a Spin<bool>; a thread that finds it set blocks *)
(* on the mutex's channel, and block drops the spin guard only once it     *)
(* holds the scheduler's queue lock.  Dropping a MutexGuard is two steps   *)
(* that take the two locks one after the other.                            *)
(***************************************************************************)
EXTENDS Naturals

CONSTANTS Thread,   \* the tasks that use the mutex
          Chan,     \* Mutex::chan is one channel: its address
          None      \* a free lock, no channel

ASSUME SleepMutexAssumption == None \notin Thread /\ None # Chan

VARIABLES locked,   \* the data of Mutex.locked
          spin,     \* the thread whose SpinGuard is alive
          queue,    \* the thread that holds TaskScheduler.queue
          wait,     \* what the scheduler keeps of blocked threads
          pc        \* where each thread is

vars == <<locked, spin, queue, wait, pc>>

WC == INSTANCE WaitChannels WITH Chan <- {Chan}, NoChan <- None

Init ==
    /\ locked = FALSE
    /\ spin = None
    /\ queue = None
    /\ WC!Init
    /\ pc = [t \in Thread |-> "out"]

Goto(t, l) == pc' = [pc EXCEPT ![t] = l]

(* Mutex::lock is called. *)
Lock(t) ==
    /\ pc[t] = "out"
    /\ Goto(t, "try")
    /\ UNCHANGED <<locked, spin, queue, wait>>

(* mutex.locked.lock(), at the head of the loop of MutexGuard::new. *)
LockFlag(t) ==
    /\ pc[t] = "try" /\ wait[t] = WC!Awake /\ spin = None
    /\ spin' = t
    /\ Goto(t, "test")
    /\ UNCHANGED <<locked, queue, wait>>

(* Mutant of Acquire: the flag is not tested. *)
AcquireUntested(t) ==
    /\ pc[t] = "test"
    /\ locked' = TRUE
    /\ spin' = None
    /\ Goto(t, "in")
    /\ UNCHANGED <<queue, wait>>

Acquire(t) ==
    /\ pc[t] = "test" /\ ~locked
    /\ locked' = TRUE
    /\ spin' = None
    /\ Goto(t, "in")
    /\ UNCHANGED <<queue, wait>>

(* Mutant of Block: the guard is dropped before the queue is locked. *)
BlockUnlocked(t) ==
    /\ pc[t] = "test" /\ locked
    /\ spin' = None
    /\ Goto(t, "register")
    /\ UNCHANGED <<locked, queue, wait>>

(* scheduler().block(chan, None, locked): the queue is locked, and only then *)
(* the guard dropped.                                                        *)
Block(t) ==
    /\ pc[t] = "test" /\ locked /\ queue = None
    /\ queue' = t
    /\ spin' = None
    /\ Goto(t, "register")
    /\ UNCHANGED <<locked, wait>>

(* The thread is registered with its channel, and suspended. *)
Suspend(t) ==
    /\ pc[t] = "register"
    /\ WC!Block(t, Chan, FALSE)
    /\ queue' = None
    /\ Goto(t, "try")
    /\ UNCHANGED <<locked, spin>>

(* Mutant of Clear: drop releases first, and forgets the flag. *)
ClearLate(t) ==
    /\ pc[t] = "in" /\ spin = None
    /\ Goto(t, "wake")
    /\ UNCHANGED <<locked, spin, queue, wait>>

(* MutexGuard::drop: *locked.lock() = false, a temporary guard. *)
Clear(t) ==
    /\ pc[t] = "in" /\ spin = None
    /\ locked' = FALSE
    /\ Goto(t, "wake")
    /\ UNCHANGED <<spin, queue, wait>>

(* MutexGuard::drop: release(chan). *)
Release(t) ==
    /\ pc[t] = "wake" /\ queue = None
    /\ WC!Release(Chan)
    /\ Goto(t, "out")
    /\ UNCHANGED <<locked, spin, queue>>

Step(t) ==
    LockFlag(t) \/ Acquire(t) \/ Block(t) \/ Suspend(t) \/ Clear(t) \/ Release(t)

Next == \E t \in Thread : Lock(t) \/ Step(t)

Spec == Init /\ [][Next]_vars

(* A thread that the scheduler runs takes its next step; spin locks need     *)
(* only be free again and again, since their holders cannot be preempted.    *)
(* Nothing makes a thread ask for the mutex.                                 *)
FairSpec == Spec /\ \A t \in Thread : WF_vars(Step(t))
-----------------------------------------------------------------------------
(* Every variable keeps the type that its Rust declaration gives it. *)
TypeOK ==
    /\ locked \in BOOLEAN
    /\ spin \in Thread \cup {None}
    /\ queue \in Thread \cup {None}
    /\ wait \in [Thread -> WC!Waiting]
    /\ pc \in [Thread -> {"out", "try", "test", "register", "in", "wake"}]

(* Two MutexGuards are never alive at once. *)
MutualExclusion == \A t, u \in Thread : pc[t] = "in" /\ pc[u] = "in" => t = u

(* A thread that sleeps on the mutex, or is about to, will be woken: the     *)
(* mutex is held, or some thread has cleared the flag and still has to call  *)
(* release.  block must take the queue lock before it drops the guard.       *)
NoLostWakeup ==
    (\E t \in Thread : pc[t] = "register" \/ wait[t] # WC!Awake)
        => locked \/ \E u \in Thread : pc[u] = "wake"

L == INSTANCE Lock WITH
        state <- [t \in Thread |-> CASE pc[t] = "in" -> "in"
                                     [] pc[t] \in {"try", "test", "register"} -> "asking"
                                     [] OTHER -> "out"]

(* The mutex is a lock: through its spin lock, its flag and the two steps of *)
(* drop, clients see it asked for, acquired alone and given back.            *)
ImplementsLock == L!Spec

(* As long as somebody asks, somebody gets the mutex. *)
Progress == (\E t \in Thread : pc[t] = "try") ~> (\E t \in Thread : pc[t] = "in")

(* The inductive invariant: who holds which lock, that the flag is set       *)
(* exactly while a guard is alive, and that a sleeper is owed a wakeup.      *)
IndInv ==
    /\ TypeOK
    /\ MutualExclusion
    /\ NoLostWakeup
    /\ \A t \in Thread : (spin = t <=> pc[t] = "test") /\ (queue = t <=> pc[t] = "register")
    /\ \A t \in Thread : wait[t] # WC!Awake => pc[t] = "try" /\ wait[t].chan = Chan
    /\ locked <=> \E t \in Thread : pc[t] = "in"
=============================================================================
