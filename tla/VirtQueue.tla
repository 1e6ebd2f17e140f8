------------------------------ MODULE VirtQueue ------------------------------
(***************************************************************************)
(* The virtqueue of devices/virtio/queue.rs and the device at its other    *)
(* end.  Descriptors are linked into chains through next; those not in use *)
(* form a free list.  The driver side is &mut self, so one transfer or one *)
(* collect is under way at a time; the device, which is external, works    *)
(* concurrently, takes chains in the order of the available ring and       *)
(* finishes them in any order.  Ring indices are u16: they count modulo    *)
(* Width and are reduced modulo queue_size where they are used.            *)
(*                                                                         *)
(* A buffer is an opaque value: the address, length and direction that its *)
(* descriptor refers to, and the data that is associated with it.          *)
(***************************************************************************)
EXTENDS Integers, Sequences, FiniteSets

CONSTANTS Buffer,   \* struct Buffer
          Size,     \* queue_size
          Width,    \* 2^16 in the code
          MaxBatch, \* bound: buffers in one transfer
          None

ASSUME VirtQueueAssumption ==
    /\ Size \in Nat \ {0}
    /\ Width \in Nat /\ Width % Size = 0 /\ Width > Size
    /\ MaxBatch \in Nat
    /\ None \notin Buffer \cup (0 .. Size - 1)

Desc == 0 .. Size - 1

VARIABLES next,   \* Descriptor.next, None without the NEXT flag
          buf,    \* what the descriptor refers to
          data,   \* buffer_associated_data
          first, free,   \* first_free_descriptor, num_free_descriptors
          avail, used,   \* the rings: idx and entries
          lastUsed,      \* last_used_idx
          op,     \* the driver's position in transfer or collect
          seen, held     \* the device: its index in the available ring, the heads it works on

vars == <<next, buf, data, first, free, avail, used, lastUsed, op, seen, held>>
device == <<used, seen, held>>

Idle == [at |-> "idle", i |-> 0]

Init ==
    /\ next = [d \in Desc |-> IF d < Size - 1 THEN d + 1 ELSE None]
    /\ buf = [d \in Desc |-> None]
    /\ data = [d \in Desc |-> None]
    /\ first = 0
    /\ free = Size
    /\ avail = [idx |-> 0, ring |-> [d \in Desc |-> 0]]
    /\ used = avail
    /\ lastUsed = 0
    /\ op = Idle
    /\ seen = 0
    /\ held = {}

(* The n descriptors that next leads to from d. *)
Path(d, n) ==
    LET f[i \in 1 .. n] ==
            IF i = 1 THEN d ELSE IF f[i - 1] = None THEN None ELSE next[f[i - 1]]
    IN  f

(* The chain that starts at d: Path up to the descriptor without next. *)
Chain(d) ==
    LET p == Path(d, Size)
    IN  [i \in {j \in 1 .. Size : p[j] # None} |-> p[i]]

Through(s, f) == [i \in DOMAIN s |-> f[s[i]]]

Incr(idx) == (idx + 1) % Width

(* The ring with d at its next entry, not published yet. *)
PushRing(r, d) == [r EXCEPT !.ring[r.idx % Size] = d]
-----------------------------------------------------------------------------
(* transfer *)

Take(bs, path, nextOfLast) ==
    LET n == Len(bs)
        at(d) == CHOOSE i \in 1 .. n : path[i] = d
        taken == {path[i] : i \in 1 .. n}
    IN  /\ buf' = [d \in Desc |-> IF d \in taken THEN bs[at(d)] ELSE buf[d]]
        /\ data' = [d \in Desc |-> IF d \in taken THEN bs[at(d)] ELSE data[d]]
        /\ next' = [next EXCEPT ![path[n]] = nextOfLast]
        /\ first' = IF free = n THEN path[n] ELSE next[path[n]]
        /\ free' = free - n
        /\ op' = [at |-> "enqueue", i |-> first]
        /\ UNCHANGED <<avail, lastUsed, device>>

(* Mutant of Transfer: the chain is not unlinked from the free list. *)
TransferLinked(bs) ==
    LET path == Path(first, Len(bs))
    IN  /\ op = Idle /\ bs # <<>> /\ free >= Len(bs)
        /\ Take(bs, path, next[path[Len(bs)]])

(* Descriptors are taken from the front of the free list, and unlinked. *)
Transfer(bs) ==
    /\ op = Idle /\ bs # <<>> /\ free >= Len(bs)
    /\ Take(bs, Path(first, Len(bs)), None)

(* The head goes into the available ring, and then the index is advanced. *)
Enqueue ==
    /\ op.at = "enqueue"
    /\ avail' = PushRing(avail, op.i)
    /\ op' = [op EXCEPT !.at = "publish"]
    /\ UNCHANGED <<next, buf, data, first, free, lastUsed, device>>

Publish ==
    /\ op.at = "publish"
    /\ avail' = [avail EXCEPT !.idx = Incr(@)]
    /\ op' = Idle
    /\ UNCHANGED <<next, buf, data, first, free, lastUsed, device>>
-----------------------------------------------------------------------------
(* collect *)

Dequeue ==
    /\ op.at \in {"idle", "collect"} /\ lastUsed # used.idx
    /\ op' = [at |-> "free", i |-> used.ring[lastUsed % Size]]
    /\ lastUsed' = Incr(lastUsed)
    /\ UNCHANGED <<next, buf, data, first, free, avail, device>>

FreeTo(prev) ==
    LET d == op.i
    IN  /\ op.at = "free"
        /\ first' = d
        /\ free' = free + 1
        /\ next' = [next EXCEPT ![d] = prev]
        /\ data' = [data EXCEPT ![d] = None]
        /\ op' = IF next[d] = None THEN [at |-> "collect", i |-> 0] ELSE [op EXCEPT !.i = next[d]]
        /\ UNCHANGED <<buf, avail, lastUsed, device>>

(* Mutant of Free: an empty free list is not told apart. *)
FreeStale == FreeTo(first)

(* One descriptor of the chain goes to the front of the free list, and its   *)
(* data to the callback.                                                     *)
Free == FreeTo(IF free = 0 THEN None ELSE first)

CollectEnds ==
    /\ op.at = "collect" /\ lastUsed = used.idx
    /\ op' = Idle
    /\ UNCHANGED <<next, buf, data, first, free, avail, lastUsed, device>>
-----------------------------------------------------------------------------
(* The device *)

DeviceTake ==
    /\ seen # avail.idx
    /\ held' = held \cup {avail.ring[seen % Size]}
    /\ seen' = Incr(seen)
    /\ UNCHANGED <<next, buf, data, first, free, avail, used, lastUsed, op>>

DeviceUse(h) ==
    /\ h \in held
    /\ held' = held \ {h}
    /\ used' = [PushRing(used, h) EXCEPT !.idx = Incr(@)]
    /\ UNCHANGED <<next, buf, data, first, free, avail, lastUsed, op, seen>>

(* Buffers that the driver has not given away. *)
Unused == Buffer \ {data[d] : d \in Desc}

Batch == UNION {{bs \in [1 .. n -> Buffer] : \A i, j \in 1 .. n : bs[i] = bs[j] => i = j} :
                    n \in 1 .. MaxBatch}

Next ==
    \/ \E bs \in Batch : (\A i \in DOMAIN bs : bs[i] \in Unused) /\ Transfer(bs)
    \/ Enqueue \/ Publish \/ Dequeue \/ Free \/ CollectEnds
    \/ DeviceTake \/ \E h \in held : DeviceUse(h)

Spec == Init /\ [][Next]_vars
-----------------------------------------------------------------------------
(* Every variable keeps the type that its Rust declaration gives it. *)
Ring == [idx : 0 .. Width - 1, ring : [Desc -> Desc]]

TypeOK ==
    /\ next \in [Desc -> Desc \cup {None}]
    /\ buf \in [Desc -> Buffer \cup {None}]
    /\ data \in [Desc -> Buffer \cup {None}]
    /\ first \in Desc
    /\ free \in 0 .. Size
    /\ avail \in Ring
    /\ used \in Ring
    /\ lastUsed \in 0 .. Width - 1
    /\ op \in [at : {"idle", "enqueue", "publish", "free", "collect"}, i : Desc]
    /\ seen \in 0 .. Width - 1
    /\ held \subseteq Desc

(* Heads in the ring r from the index i on. *)
Heads(r, i) == [k \in 1 .. (r.idx - i) % Width |-> r.ring[((i + k - 1) % Width) % Size]]

Elems(s) == {s[i] : i \in DOMAIN s}

Offered == Heads(avail, seen)
Finished == Heads(used, lastUsed)
InHand == IF op.at \in {"enqueue", "publish", "free"} THEN {op.i} ELSE {}

(* Heads of all chains that are not free. *)
InFlight == Elems(Offered) \cup held \cup Elems(Finished) \cup InHand

(* The free list is as long as num_free_descriptors says, ends there, and    *)
(* holds exactly the descriptors without data; the others form chains that   *)
(* share nothing.  After that none of the asserts and unwraps of transfer    *)
(* and collect can fail.                                                     *)
Partition ==
    /\ LET list == Path(first, free)
       IN  /\ Elems(list) = {d \in Desc : data[d] = None}
           /\ Cardinality(Elems(list)) = free
           /\ free > 0 => next[list[free]] = None
    /\ \A g, h \in InFlight : g # h => Elems(Chain(g)) \cap Elems(Chain(h)) = {}
    /\ UNION {Elems(Chain(h)) : h \in InFlight} = {d \in Desc : data[d] # None}

(* s is linked through next, to its end. *)
Linked(s) == \A i \in DOMAIN s : next[s[i]] = IF i + 1 \in DOMAIN s THEN s[i + 1] ELSE None

Once(s) == \A i, j \in DOMAIN s : s[i] = s[j] => i = j

IsChain(c, h) ==
    /\ \E n \in 1 .. Size : c \in [1 .. n -> Desc]
    /\ c[1] = h /\ Once(c) /\ Linked(c)

(* The descriptors are laid out as the free list and one chain per head in   *)
(* flight.                                                                   *)
Layout(list, chain) ==
    /\ list \in [1 .. free -> Desc] /\ Once(list) /\ Linked(list)
    /\ free > 0 => list[1] = first
    /\ \A d \in Desc : data[d] = None <=> d \in Elems(list)
    /\ \A h \in InFlight : IsChain(chain[h], h)
    /\ \A g, h \in InFlight : g # h => Elems(chain[g]) \cap Elems(chain[h]) = {}
    /\ \A d \in Desc : data[d] # None <=> \E h \in InFlight : d \in Elems(chain[h])

(* Each head is in one place, and one that is about to be published is in    *)
(* the ring.                                                                 *)
Places ==
    /\ Once(Offered) /\ Once(Finished)
    /\ Elems(Offered) \cap held = {} /\ Elems(Offered) \cap Elems(Finished) = {}
    /\ held \cap Elems(Finished) = {}
    /\ InHand \cap (Elems(Offered) \cup held \cup Elems(Finished)) = {}
    /\ op.at = "publish" => avail.ring[avail.idx % Size] = op.i

(* What the device reads behind the head h. *)
Behind(h) == Through(Chain(h), buf)

(* A descriptor in use refers to the buffer whose data is kept for it, no    *)
(* two to the same, and what is about to be published is one batch.          *)
Contents ==
    /\ \A d \in Desc : data[d] # None => data[d] = buf[d]
    /\ \A d, e \in Desc : data[d] = data[e] /\ data[d] # None => d = e
    /\ op.at \in {"enqueue", "publish"} => Behind(op.i) \in Batch

(* The safety property with what it rests on. *)
IndInv ==
    /\ TypeOK /\ Places /\ Contents
    /\ Layout(Path(first, free), [h \in InFlight |-> Chain(h)])

L == INSTANCE Lending WITH
        offered <- Through(Offered, [h \in Desc |-> Behind(h)]),
        held <- {Behind(h) : h \in held},
        done <- Through(Finished, [h \in Desc |-> Behind(h)]),
        back <- IF op.at = "free" THEN Through(Chain(op.i), data) ELSE <<>>

(* What the device finds behind the heads it takes is what the driver        *)
(* transferred, whole and in order, from the moment the index is published,  *)
(* across the wraparound of the indices and with stale entries in the rings; *)
(* and the callback of collect gets the data of each chain once, in order.   *)
ImplementsLending == L!Spec
=============================================================================
