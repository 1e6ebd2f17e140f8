-------------------------------- MODULE Lock --------------------------------
(***************************************************************************)
(* What a lock promises: a thread asks for it, has it alone, and gives it  *)
(* back.  sync::mutex::Mutex is shown to implement it (SleepMutex).        *)
(***************************************************************************)
CONSTANT Thread

VARIABLE state   \* where each thread stands with the lock

Init == state = [t \in Thread |-> "out"]

Ask(t) ==
    /\ state[t] = "out"
    /\ state' = [state EXCEPT ![t] = "asking"]

Acquire(t) ==
    /\ state[t] = "asking" /\ \A u \in Thread : state[u] # "in"
    /\ state' = [state EXCEPT ![t] = "in"]

Drop(t) ==
    /\ state[t] = "in"
    /\ state' = [state EXCEPT ![t] = "out"]

Next == \E t \in Thread : Ask(t) \/ Acquire(t) \/ Drop(t)

Spec == Init /\ [][Next]_state
=============================================================================
