------------------------------- MODULE Lending -------------------------------
(***************************************************************************)
(* What a virtqueue promises to its driver: every list of buffers that is  *)
(* given away is taken by the device in turn and finished once, in an      *)
(* order the device chooses; finished lists are collected in that order,   *)
(* and their buffers come back, all of them, one by one and in the order   *)
(* in which they were given.  At most Size buffers are away at a time.     *)
(*                                                                         *)
(* VirtQueue.tla is shown to implement this specification, and VirtioBlock *)
(* is written on top of it.                                                *)
(***************************************************************************)
EXTENDS Integers, Sequences, FiniteSets

CONSTANTS Batch,    \* the lists of buffers that may be given at once
          Size      \* queue_size

VARIABLES offered,  \* lists that the device has not taken
          held,     \* lists that it works on
          done,     \* lists that it has finished
          back      \* what is left of the list that is being collected

vars == <<offered, held, done, back>>

Init == offered = <<>> /\ held = {} /\ done = <<>> /\ back = <<>>

Elems(s) == {s[i] : i \in DOMAIN s}

Away == UNION {Elems(bs) : bs \in Elems(offered) \cup held \cup Elems(done) \cup {back}}

Free == Size - Cardinality(Away)

Give(bs) ==
    /\ Free >= Len(bs) /\ Away \cap Elems(bs) = {}
    /\ offered' = Append(offered, bs)
    /\ UNCHANGED <<held, done, back>>

Take ==
    /\ offered # <<>>
    /\ held' = held \cup {Head(offered)}
    /\ offered' = Tail(offered)
    /\ UNCHANGED <<done, back>>

Finish(bs) ==
    /\ held' = held \ {bs}
    /\ done' = Append(done, bs)
    /\ UNCHANGED <<offered, back>>

Collect ==
    /\ done # <<>> /\ back = <<>>
    /\ back' = Head(done)
    /\ done' = Tail(done)
    /\ UNCHANGED <<offered, held>>

HandBack ==
    /\ back # <<>>
    /\ back' = Tail(back)
    /\ UNCHANGED <<offered, held, done>>

Next ==
    \/ \E bs \in Batch : Give(bs)
    \/ Take \/ (\E bs \in held : Finish(bs))
    \/ Collect \/ HandBack

Spec == Init /\ [][Next]_vars
=============================================================================
