---------------------------- MODULE SchedulerInv ----------------------------
(***************************************************************************)
(* The inductive invariant of Scheduler: what is true of the program       *)
(* counters, the places of the threads, the pending ids, the contexts and  *)
(* the interrupt locks between any two steps.                              *)
(***************************************************************************)
EXTENDS Scheduler

HasHand == {"lock", "dequeue", "wait"}
HasLock == {"dequeue", "wait", "release", "elapse"}
Ordinary == {"run", "guard", "timer", "elapse", "release"}

(* Which local and which CPU field holds the task at each point of switch. *)
ControlOf(c) ==
    /\ pc[c] \in HasHand <=> hand[c] # None
    /\ pc[c] \in HasHand => running[c] = None
    /\ pc[c] \in {"lock", "dequeue"} => hand[c] = exec[c]
    /\ pc[c] \in {"save", "restore"} => running[c] # None
    /\ pc[c] = "leave" => running[c] = exec[c]
    /\ pc[c] \in Ordinary =>
          running[c] = exec[c] \/ (running[c] = None /\ exec[c] = c /\ c \notin created)
    /\ qlock = c <=> pc[c] \in HasLock
    /\ pc[c] # "release" => todo[c] = {}
    /\ pc[c] = "guard" => exec[c] \in Worker

ControlInv == \A c \in Cpu : ControlOf(c)

(* What scheduling_op may ask for, and for whom. *)
OpInv ==
    \A c \in Cpu :
        /\ op[c].kind \in {"block", "try"} => op[c].chan \in Chan
        /\ op[c].kind = "sleep" => op[c].timeout \in Durations /\ op[c].chan = None
        /\ op[c].kind # "yield" => exec[c] \in Worker
        /\ op[c].guarded <=> op[c].kind = "block"
        /\ op[c].kind # "yield" => pc[c] \in HasHand

(* The Task objects that exist are exactly the ones in some place; a boot    *)
(* thread is never suspended, and a CPU owns a task only after its own boot  *)
(* thread became one.                                                        *)
PlaceInv ==
    /\ ThreadInOnePlace
    /\ \A t \in Thread : t \in created <=> InQueue(t) \/ InPending(t) \/ \E c \in Cpu : Held(c, t)
    /\ \A i \in PendingId : pending[i] \notin Cpu
    /\ \A c \in Cpu : running[c] # None \/ hand[c] # None => c \in created

(* Pending ids are issued once. *)
FreshInv ==
    /\ \A i \in PendingId : pending[i] # None => i < pendingIdGen
    /\ \A ch \in Chan : \A i \in blocks[ch] : i < pendingIdGen
    /\ \A e \in timeouts : e.id < pendingIdGen
    /\ \A c \in Cpu : \A i \in todo[c] : i < pendingIdGen

(* An id is in the vector of one channel at most. *)
ChannelInv == \A ch, dh \in Chan : \A i \in blocks[ch] : i \in blocks[dh] => ch = dh

(* Who executes what: a thread that a CPU leaves is unsaved until Save, and  *)
(* nobody but a CPU that still restores executes what a CPU switches to.     *)
ExecInv ==
    /\ \A c \in Cpu : pc[c] \in {"wait", "save"} => ~ctx[exec[c]].saved
    /\ \A c, d \in Cpu : c # d /\ pc[c] # "restore" /\ pc[d] # "restore" => exec[c] # exec[d]
    /\ \A c, d \in Cpu : c # d /\ pc[c] \in {"save", "restore"} /\ pc[d] # "restore"
                            => exec[d] # running[c]
    /\ \A c \in Cpu : pc[c] \in {"save", "restore"} =>
                            ctx[running[c]].saved /\ exec[c] # running[c]

(* What a context resumes with: at its entry point with interrupts enabled,  *)
(* or inside switch, holding one interrupt lock that remembers whether an    *)
(* interrupt handler called it.                                              *)
ResumesAt(t, k) ==
    IF ctx[t].rip = "entry" THEN k.ncli = 0 /\ ~k.zcli /\ ~irq[t]
    ELSE k.ncli = 1 /\ (k.zcli <=> irq[t])

ContextInv ==
    \A t \in Thread :
        ctx[t].saved /\ (\A c \in Cpu : pc[c] # "restore" => exec[c] # t) =>
            ResumesAt(t, ctx[t]) /\ (ctx[t].intr <=> ctx[t].rip = "entry")

(* The interrupt lock at each program point. *)
CliOf(c) ==
    /\ pc[c] = "run" => cli[c].ncli = 0 /\ cli[c].intr /\ ~irq[exec[c]]
    /\ pc[c] # "run" => ~cli[c].intr
    /\ pc[c] = "timer" => cli[c].ncli = 0 /\ irq[exec[c]]
    /\ pc[c] \in {"guard", "save", "leave", "elapse", "release"} => cli[c].ncli = 1
    /\ pc[c] = "lock" => cli[c].ncli = IF op[c].guarded THEN 2 ELSE 1
    /\ pc[c] \in {"dequeue", "wait"} => cli[c].ncli = 2
    /\ pc[c] \in {"guard", "save", "leave", "elapse", "release", "lock", "dequeue", "wait"}
          => (cli[c].zcli <=> irq[exec[c]])
    /\ pc[c] = "guard" \/ op[c].guarded \/ op[c].kind # "yield" => ~irq[exec[c]]
    /\ pc[c] = "elapse" => irq[exec[c]]
    /\ pc[c] = "restore" => ResumesAt(running[c], cli[c])

CliInv == \A c \in Cpu : CliOf(c)

GuardInv ==
    /\ \A c \in Cpu, ch \in Chan : guards[ch] = c =>
          pc[c] = "guard" \/ (pc[c] = "lock" /\ op[c].guarded /\ op[c].chan = ch)
    /\ \A ch, dh \in Chan : guards[ch] = guards[dh] /\ guards[ch] # None => ch = dh

(* elapse works with a tick that has already come. *)
NowInv == ticks <= MaxTick /\ \A c \in Cpu : now[c] <= ticks

(* All of it; inductive, and strong enough for the properties of Scheduler. *)
IndInv ==
    /\ TypeOK /\ ControlInv /\ OpInv /\ PlaceInv /\ FreshInv /\ ChannelInv
    /\ NoOrphan /\ ExecInv /\ ContextInv /\ CliInv /\ GuardInv /\ NowInv
=============================================================================
