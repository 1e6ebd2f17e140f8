------------------------------- MODULE OnceCell ------------------------------
(***************************************************************************)
(* sync/once.rs and sync/lazy.rs: a cell that the first caller fills. On   *)
(* every CPU a task calls it; while interrupts are enabled the CPU may be  *)
(* taken by an interrupt handler, or by another task through the timer,    *)
(* that calls it too and has the CPU until its call returns. spin::Once is *)
(* external: a status that one caller takes from Incomplete to Running,    *)
(* and that the others watch in a loop.                                    *)
(***************************************************************************)
EXTENDS Naturals

CONSTANTS CPUs,
          MaxInterrupts \* bound: interruptions of the task of a CPU

Levels == {"task", "handler"}

VARIABLES status, init,   \* of the spin::Once; whether Lazy's initializer is still there
          pc,             \* pc[c][l]: place in call_once
          level, enabled, \* who has the CPU, and whether interrupts are enabled
          taken           \* interruptions so far
vars == <<status, init, pc, level, enabled, taken>>

Init ==
    /\ status = "Incomplete" /\ init = "Some"
    /\ pc = [c \in CPUs |-> [l \in Levels |-> "idle"]]
    /\ level = [c \in CPUs |-> "task"] /\ enabled = [c \in CPUs |-> TRUE]
    /\ taken = [c \in CPUs |-> 0]

At(c, l, from, to) == level[c] = l /\ pc[c][l] = from /\ pc' = [pc EXCEPT ![c][l] = to]

\* Once::call_once: a cell that is filled already is read at once.
CallOnce(c, l) ==
    /\ At(c, l, "idle", IF status = "Complete" THEN "done" ELSE "cli")
    /\ UNCHANGED <<status, init, level, enabled, taken>>

\* Mutant: the interrupt lock is missing.
NoCli(c, l) ==
    /\ At(c, l, "cli", "call")
    /\ UNCHANGED <<status, init, level, enabled, taken>>

\* Cli::new
TakeCli(c, l) ==
    /\ At(c, l, "cli", "call")
    /\ enabled' = [enabled EXCEPT ![c] = FALSE]
    /\ UNCHANGED <<status, init, level, taken>>

\* spin::Once::call_once: the first caller runs the initializer, the others wait for it.
Enter(c, l) ==
    /\ status # "Running"
    /\ At(c, l, "call", IF status = "Incomplete" THEN "force" ELSE "drop")
    /\ status' = IF status = "Incomplete" THEN "Running" ELSE status
    /\ UNCHANGED <<init, level, enabled, taken>>

\* The closure of Lazy::force: an initializer that is gone panics.
Force(c, l) ==
    /\ At(c, l, "force", IF init = "Some" THEN "fill" ELSE "panicked")
    /\ init' = "None"
    /\ UNCHANGED <<status, level, enabled, taken>>
Fill(c, l) ==
    /\ At(c, l, "fill", "drop")
    /\ status' = "Complete"
    /\ UNCHANGED <<init, level, enabled, taken>>

\* Drop for Cli; a handler was entered with interrupts disabled and leaves them so.
DropCli(c, l) ==
    /\ At(c, l, "drop", "done")
    /\ enabled' = [enabled EXCEPT ![c] = l = "task"]
    /\ UNCHANGED <<status, init, level, taken>>

\* The CPU delivers an interrupt, and the end of its handler.
Interrupt(c) ==
    /\ level[c] = "task" /\ enabled[c] /\ taken[c] < MaxInterrupts
    /\ level' = [level EXCEPT ![c] = "handler"] /\ enabled' = [enabled EXCEPT ![c] = FALSE]
    /\ pc' = [pc EXCEPT ![c]["handler"] = "idle"] /\ taken' = [taken EXCEPT ![c] = @ + 1]
    /\ UNCHANGED <<status, init>>
Return(c) ==
    /\ level[c] = "handler" /\ pc[c]["handler"] = "done"
    /\ level' = [level EXCEPT ![c] = "task"] /\ enabled' = [enabled EXCEPT ![c] = TRUE]
    /\ UNCHANGED <<status, init, pc, taken>>

Step(c, l) == CallOnce(c, l) \/ TakeCli(c, l) \/ Enter(c, l) \/ Force(c, l) \/ Fill(c, l) \/ DropCli(c, l)
Next == \E c \in CPUs : Interrupt(c) \/ Return(c) \/ \E l \in Levels : Step(c, l)

\* A CPU never stops executing whoever has it; interrupts are not owed.
Fairness == \A c \in CPUs : WF_vars(Return(c)) /\ \A l \in Levels : WF_vars(Step(c, l))
Spec == Init /\ [][Next]_vars /\ Fairness
-----------------------------------------------------------------------------
\* Every call of call_once returns, whoever it interrupts and whoever runs the
\* initializer: no caller waits for a task that cannot go on because the caller has its
\* CPU, and no force finds the initializer taken.
CallsReturn == \A c \in CPUs, l \in Levels : pc[c][l] = "cli" ~> pc[c][l] = "done"
=============================================================================
