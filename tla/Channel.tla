------------------------------- MODULE Channel -------------------------------
(***************************************************************************)
(* What a bounded queue promises: items come out in the order they went    *)
(* in, none is lost or seen twice, and at most N are inside.  Operations   *)
(* may fail; nothing is said of when.                                      *)
(***************************************************************************)
EXTENDS Naturals, Sequences

CONSTANTS Thread, Item, N, None

VARIABLES q,      \* the items inside
          got     \* what each thread took out and has not returned yet

Init == q = <<>> /\ got = [t \in Thread |-> None]

Put(v) ==
    /\ Len(q) < N
    /\ q' = Append(q, v)
    /\ UNCHANGED got

Take(t) ==
    /\ q # <<>> /\ got[t] = None
    /\ got' = [got EXCEPT ![t] = Head(q)]
    /\ q' = Tail(q)

Return(t) ==
    /\ got[t] # None
    /\ got' = [got EXCEPT ![t] = None]
    /\ UNCHANGED q

Next == (\E v \in Item : Put(v)) \/ (\E t \in Thread : Take(t) \/ Return(t))

Spec == Init /\ [][Next]_<<q, got>>
=============================================================================
