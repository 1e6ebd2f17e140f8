---------------------------- MODULE WaitChannels ----------------------------
(***************************************************************************)
(* What the task scheduler of task.rs promises to the code that blocks on  *)
(* it, without queues, priorities, CPUs or clocks.  A thread is awake or   *)
(* it waits: on a channel, on a timeout, or on both at once.  Releasing a  *)
(* channel wakes everything that waits on it, in one step; nothing else    *)
(* wakes a thread that has no timeout.                                     *)
(*                                                                         *)
(* Scheduler.tla is shown to implement this specification, and the         *)
(* modules of the blocking primitives (SleepMutex, SyncQueue, VirtioBlock) *)
(* are written on top of it.                                               *)
(***************************************************************************)
CONSTANTS Thread,   \* everything that may be suspended
          Chan,     \* wait channels (task::WaitChannel)
          NoChan    \* the None of Option<WaitChannel>

VARIABLE wait       \* what each thread waits for

Awake == [chan |-> NoChan, timed |-> FALSE]

Waiting == [chan : Chan \cup {NoChan}, timed : BOOLEAN]

Init == wait = [t \in Thread |-> Awake]

(* Switch::Blocked(chan, timeout) and, with NoChan, Switch::Sleep: a thread *)
(* without a channel always has a timeout.                                  *)
Block(t, ch, timed) ==
    /\ wait[t] = Awake
    /\ ch = NoChan => timed
    /\ wait' = [wait EXCEPT ![t] = [chan |-> ch, timed |-> timed]]

(* TaskQueue::release *)
Release(ch) ==
    wait' = [t \in Thread |-> IF wait[t].chan = ch THEN Awake ELSE wait[t]]

(* One iteration of TaskQueue::elapse *)
Expire(t) ==
    /\ wait[t].timed
    /\ wait' = [wait EXCEPT ![t] = Awake]

Next ==
    \/ \E t \in Thread, ch \in Chan \cup {NoChan}, timed \in BOOLEAN : Block(t, ch, timed)
    \/ \E ch \in Chan : Release(ch)
    \/ \E t \in Thread : Expire(t)

Spec == Init /\ [][Next]_wait
=============================================================================
