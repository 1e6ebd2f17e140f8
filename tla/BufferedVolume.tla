--------------------------- MODULE BufferedVolume ---------------------------
(***************************************************************************)
(* fs/volume.rs: sectors of a volume buffered in memory.  A task obtains a *)
(* BufferedSectorRef for a sector, reads or writes its bytes under the     *)
(* buffer's Mutex, marks it dirty, and drops the ref.  The buffer tables   *)
(* are guarded by a Spin lock that is never held across I/O, so reading a  *)
(* sector in and writing a recycled buffer back are steps of their own.    *)
(*                                                                         *)
(* A holder is a place that can keep one ref alive (BufferedFat::last,     *)
(* BufferedCluster::last, a local), in the code of one task. A task        *)
(* executes one call at a time, so at most one of its holders is inside    *)
(* sector() or commit(). Who uses the volume, and which calls of the       *)
(* device under it may fail, is the setting of a behaviour.                *)
(***************************************************************************)
EXTENDS Naturals, FiniteSets, Sequences, Functions

CONSTANTS Tasks, Sectors,
          Settings,               \* how the volume is used: see VolumeAssumption
          Blank,                  \* the content of every sector at the start
          Garbage,                \* a buffer after a failed read
          None

\* owner: the task of each holder; values: the contents stored; cache: EXPECTED_CACHE_SIZE;
\* faults: the calls of the device that may fail.
ASSUME VolumeAssumption ==
    /\ None \notin Sectors /\ None \notin Nat /\ None # <<>>
    /\ \A x \in Settings :
       /\ x.owner \in [DOMAIN x.owner -> Tasks]
       /\ IsFiniteSet(DOMAIN x.owner)
       /\ Blank \in x.values
       /\ x.cache \in Nat \ {0}
       /\ x.faults \subseteq {"read", "write"}

VARIABLES setting, \* does not change
          disk,    \* the volume
          label,   \* BufferedSector::sector of each buffer
          home,    \* BufferedSectorData::sector: the sector the bytes belong to
          dirty,   \* is_dirty
          bytes,
          lent,    \* BufferedSectors::lent, as a set
          cached,  \* BufferedSectors::cached, most recently used first
          ref,     \* the buffer a holder refers to
          pc,      \* where each holder is in sector(), a use, or commit()
          todo,    \* what is left of the sector list of a running commit()
          latest   \* history: the last value stored in each sector

buf == <<label, home, dirty, bytes>>
vars == <<setting, disk, buf, lent, cached, ref, pc, todo, latest>>

Owner == setting.owner
Holders == DOMAIN Owner
CacheSize == setting.cache
Faults == setting.faults

\* New buffers are made only while fewer than CacheSize are cached.
Buffers == 1..(CacheSize + Cardinality(Holders) - 1)
Live == lent \union Range(cached)

\* The data Mutex of b is held across the read that follows a write-back.
Locked(b) == \E h \in Holders : ref[h] = b /\ pc[h] = "read"

Init ==
    /\ setting \in Settings
    /\ disk = [s \in Sectors |-> Blank]
    /\ label = [b \in Buffers |-> None]
    /\ home = [b \in Buffers |-> None]
    /\ dirty = [b \in Buffers |-> FALSE]
    /\ bytes = [b \in Buffers |-> Blank]
    /\ lent = {} /\ cached = <<>>
    /\ ref = [h \in Holders |-> None]
    /\ pc = [h \in Holders |-> "idle"]
    /\ todo = [t \in Tasks |-> None]
    /\ latest = [s \in Sectors |-> Blank]

InCall(t) == \E h \in Holders : Owner[h] = t /\ pc[h] \notin {"idle", "use"}

\* VecDeque::remove, of which pop_back is the last case, and push_front.
Without(s, i) == SubSeq(s, 1, i - 1) \o SubSeq(s, i + 1, Len(s))
PushFront(s, x) == <<x>> \o s

\* sector(), up to drop(sectors): find or make the buffer of s and lend it.
Obtain(h, s) ==
    LET Has(b) == label[b] = s
        oldest == cached[Len(cached)]
        fresh == CHOOSE b \in Buffers : b \notin Live
        Lend(b) == /\ ref' = [ref EXCEPT ![h] = b]
                   /\ lent' = lent \union {b}
                   /\ pc' = [pc EXCEPT ![h] = "init"]
                   /\ UNCHANGED <<disk, dirty, latest>>
    IN \/ \E b \in lent :
            /\ Has(b) /\ Lend(b)
            /\ UNCHANGED <<label, home, bytes, cached>>
       \/ /\ ~\E b \in lent : Has(b)
          /\ \E i \in 1..Len(cached) :
                /\ Has(cached[i]) /\ \A j \in 1..(i - 1) : ~Has(cached[j])
                /\ Lend(cached[i])
                /\ cached' = Without(cached, i)
                /\ UNCHANGED <<label, home, bytes>>
       \/ /\ ~\E b \in Live : Has(b)
          /\ CacheSize <= Len(cached)
          /\ Lend(oldest)
          /\ cached' = Without(cached, Len(cached))
          /\ label' = [label EXCEPT ![oldest] = s]
          /\ UNCHANGED <<home, bytes>>
       \/ /\ ~\E b \in Live : Has(b)
          /\ Len(cached) < CacheSize
          /\ Lend(fresh)
          /\ label' = [label EXCEPT ![fresh] = s]
          /\ home' = [home EXCEPT ![fresh] = None]
          /\ bytes' = [bytes EXCEPT ![fresh] = Blank]
          /\ UNCHANGED cached

Request(h, s) ==
    /\ pc[h] = "idle" /\ ~InCall(Owner[h]) /\ todo[Owner[h]] = None
    /\ Obtain(h, s)
    /\ UNCHANGED todo

\* BufferedSectorData::commit under the data Mutex, to sector s; then the holder is at ok.
WriteBackTo(h, ok, s) ==
    LET b == ref[h]
    IN \/ /\ dirty[b]
          /\ disk' = [disk EXCEPT ![s] = bytes[b]]
          /\ dirty' = [dirty EXCEPT ![b] = FALSE]
          /\ pc' = [pc EXCEPT ![h] = ok]
       \/ /\ dirty[b] /\ "write" \in Faults
          /\ pc' = [pc EXCEPT ![h] = "failed"]
          /\ UNCHANGED <<disk, dirty>>
       \/ /\ ~dirty[b]
          /\ pc' = [pc EXCEPT ![h] = ok]
          /\ UNCHANGED <<disk, dirty>>

\* Mutant: writes under the new label of a recycled buffer.
WriteBackToLabel(h, ok) == WriteBackTo(h, ok, label[ref[h]])

WriteBack(h, ok) == WriteBackTo(h, ok, home[ref[h]])

Ready(h) == IF todo[Owner[h]] = None THEN "use" ELSE "commit"

\* initialize(): write the old content back, then read unless the bytes are s's.
Initialize(h) ==
    LET b == ref[h]
    IN /\ pc[h] = "init" /\ ~Locked(b)
       /\ WriteBack(h, IF home[b] = label[b] THEN Ready(h) ELSE "read")
       /\ UNCHANGED <<label, home, bytes, lent, cached, ref, todo, latest>>

ReadIn(h) ==
    LET b == ref[h]
    IN /\ pc[h] = "read"
       /\ \/ /\ bytes' = [bytes EXCEPT ![b] = disk[label[b]]]
             /\ home' = [home EXCEPT ![b] = label[b]]
             /\ pc' = [pc EXCEPT ![h] = Ready(h)]
          \/ /\ "read" \in Faults
             /\ \E v \in {bytes[b], Garbage} : bytes' = [bytes EXCEPT ![b] = v]
             /\ pc' = [pc EXCEPT ![h] = "failed"]
             /\ UNCHANGED home
       /\ UNCHANGED <<disk, label, dirty, lent, cached, ref, todo, latest>>

\* bytes() and mark_as_dirty() lock the data Mutex one after the other.
WriteBytes(h, v) ==
    LET b == ref[h]
    IN /\ pc[h] = "use" /\ ~InCall(Owner[h]) /\ todo[Owner[h]] = None /\ ~Locked(b)
       /\ bytes' = [bytes EXCEPT ![b] = v]
       /\ latest' = [latest EXCEPT ![label[b]] = v]
       /\ pc' = [pc EXCEPT ![h] = "written"]
       /\ UNCHANGED <<disk, label, home, dirty, lent, cached, ref, todo>>

MarkAsDirty(h) ==
    /\ pc[h] = "written" /\ ~Locked(ref[h])
    /\ dirty' = [dirty EXCEPT ![ref[h]] = TRUE]
    /\ pc' = [pc EXCEPT ![h] = "use"]
    /\ UNCHANGED <<disk, label, home, bytes, lent, cached, ref, todo, latest>>

Clone(h, g) ==
    /\ pc[h] = "use" /\ pc[g] = "idle"
    /\ Owner[g] = Owner[h] /\ ~InCall(Owner[h]) /\ todo[Owner[h]] = None
    /\ ref' = [ref EXCEPT ![g] = ref[h]]
    /\ pc' = [pc EXCEPT ![g] = "use"]
    /\ UNCHANGED <<disk, buf, lent, cached, todo, latest>>

\* Drop for BufferedSectorRef: the last ref moves the buffer to the cache.
Unref(h, last) ==
    /\ IF last
       THEN LET b == CHOOSE b \in lent : label[b] = label[ref[h]]
            IN /\ lent' = lent \ {b}
               /\ cached' = PushFront(cached, b)
       ELSE UNCHANGED <<lent, cached>>
    /\ ref' = [ref EXCEPT ![h] = None]
    /\ pc' = [pc EXCEPT ![h] = "idle"]
    /\ UNCHANGED <<disk, buf, latest>>

\* Mutant: does not ask whether other refs are alive.
ReleaseAnyway(h) == Unref(h, TRUE)

Release(h) == Unref(h, ~\E g \in Holders \ {h} : ref[g] = ref[h])

Drop(h) ==
    /\ pc[h] = "use" /\ ~InCall(Owner[h]) /\ todo[Owner[h]] = None
    /\ Release(h)
    /\ UNCHANGED todo

\* An error leaves sector() or commit() through `?`, which drops the ref.
Fail(h) ==
    /\ pc[h] = "failed"
    /\ Release(h)
    /\ todo' = [todo EXCEPT ![Owner[h]] = None]

\* commit(): list the cached sectors, then obtain and write each in turn, through a
\* ref of its own.
CommitList(t, n) ==
    /\ todo[t] = None /\ ~InCall(t)
    /\ \E h \in Holders : Owner[h] = t /\ pc[h] = "idle"
    /\ todo' = [todo EXCEPT ![t] = [i \in 1..n |-> label[cached[i]]]]
    /\ UNCHANGED <<disk, buf, lent, cached, ref, pc, latest>>

\* Mutant: leaves out the least recently used sector.
StartCommitShort(t) == CommitList(t, IF cached = <<>> THEN 0 ELSE Len(cached) - 1)

StartCommit(t) == CommitList(t, Len(cached))

CommitNext(h) ==
    LET t == Owner[h]
    IN /\ todo[t] \notin {None, <<>>} /\ pc[h] = "idle" /\ ~InCall(t)
       /\ Obtain(h, Head(todo[t]))
       /\ todo' = [todo EXCEPT ![t] = Tail(@)]

CommitSector(h) ==
    /\ pc[h] = "commit" /\ ~Locked(ref[h])
    /\ WriteBack(h, "committed")
    /\ UNCHANGED <<label, home, bytes, lent, cached, ref, todo, latest>>

CommitDrop(h) ==
    /\ pc[h] = "committed"
    /\ Release(h)
    /\ UNCHANGED todo

EndCommit(t) ==
    /\ todo[t] = <<>> /\ ~InCall(t)
    /\ todo' = [todo EXCEPT ![t] = None]
    /\ UNCHANGED <<disk, buf, lent, cached, ref, pc, latest>>

Next ==
    /\ \/ \E h \in Holders :
             \/ \E s \in Sectors : Request(h, s)
             \/ \E v \in setting.values : WriteBytes(h, v)
             \/ \E g \in Holders : Clone(h, g)
             \/ Initialize(h) \/ ReadIn(h) \/ MarkAsDirty(h) \/ Drop(h) \/ Fail(h)
             \/ CommitNext(h) \/ CommitSector(h) \/ CommitDrop(h)
       \/ \E t \in Tasks : StartCommit(t) \/ EndCommit(t)
    /\ UNCHANGED setting

Spec == Init /\ [][Next]_vars
-----------------------------------------------------------------------------
Using(h) == pc[h] \in {"use", "written", "commit", "committed"}

\* Sharing stays sound, whatever is interleaved and whatever fails: a sector has at most one
\* live buffer, cached buffers are uniquely owned (the unwrap of Arc::get_mut in
\* sector), a dirty buffer knows its sector (the unwrap in commit), whoever was
\* handed a ref has a buffer that is recorded as holding the sector it is listed under
\* (after a failed read its bytes need not be that sector's: see Coherent), and there are
\* never more buffers than the cache size and the refs alive call for.
SharingSound ==
    /\ \A b, c \in Live : label[b] = label[c] => b = c
    /\ lent = {ref[h] : h \in Holders} \ {None}
    /\ lent \intersect Range(cached) = {}
    /\ Cardinality(Range(cached)) = Len(cached)
    /\ \A b \in Live : dirty[b] => home[b] # None
    /\ \A h \in Holders : Using(h) => home[ref[h]] = label[ref[h]]
    /\ Cardinality(lent) + Len(cached) <= Cardinality(Buffers)

\* One task uses the volume, as the shell does, and the device does not fail.
Undisturbed == Faults = {} /\ \A g, h \in Holders : Owner[g] = Owner[h]

\* For one task and a device that does not fail, buffering is transparent: through a ref the
\* task sees what was last stored in the sector, even after the buffer was recycled for
\* other sectors and the sector read again.
Coherent ==
    Undisturbed => \A h \in Holders : Using(h) => bytes[ref[h]] = latest[label[ref[h]]]

\* For one task and a device that does not fail, when commit() returns, the volume itself holds
\* the last value of every sector that is not lent.
CommitIsDurable ==
    Undisturbed =>
        \A t \in Tasks : todo[t] = <<>> /\ ~InCall(t) =>
            \A s \in Sectors \ {label[b] : b \in lent} : disk[s] = latest[s]
-----------------------------------------------------------------------------
(* The inductive invariant. *)

Busy(h) == pc[h] \notin {"idle", "use"}

TypeOK ==
    /\ setting \in Settings
    /\ disk \in [Sectors -> setting.values \union {Garbage}]
    /\ latest \in [Sectors -> setting.values \union {Garbage}]
    /\ label \in [Buffers -> Sectors \union {None}]
    /\ home \in [Buffers -> Sectors \union {None}]
    /\ dirty \in [Buffers -> BOOLEAN]
    /\ bytes \in [Buffers -> setting.values \union {Garbage}]
    /\ lent \subseteq Buffers
    /\ cached \in Seq(Buffers)
    /\ ref \in [Holders -> Buffers \union {None}]
    /\ pc \in [Holders -> {"idle", "init", "read", "use", "written", "commit", "committed",
                           "failed"}]
    /\ todo \in [Tasks -> Seq(Sectors) \union {None}]

\* The buffer tables: a holder has a ref exactly outside of "idle", lent holds what is
\* referred to and cached the rest, each buffer once, and no two for the same sector.
Tables ==
    /\ \A h \in Holders : pc[h] = "idle" <=> ref[h] = None
    /\ lent = {ref[h] : h \in Holders} \ {None}
    /\ IsInjective(cached)
    /\ lent \intersect Range(cached) = {}
    /\ \A b \in Live : label[b] \in Sectors
    /\ \A b, c \in Live : label[b] = label[c] => b = c

\* What the data of a buffer says of itself.
Data ==
    /\ \A b \in Buffers : dirty[b] => b \in Live /\ home[b] \in Sectors
    /\ \A h \in Holders : Using(h) => home[ref[h]] = label[ref[h]]

\* One task is in one call; only the buffer it is initializing holds another sector's bytes.
OneCall ==
    /\ \A g, h \in Holders : Busy(g) /\ Busy(h) => g = h
    /\ \A h \in Holders : pc[h] # "failed"
    /\ \A b \in Live : home[b] = label[b] \/ \E h \in Holders : ref[h] = b /\ pc[h] \in {"init", "read"}

\* The bytes are the last value of the sector they belong to, and so is the volume's
\* content, unless a dirty buffer, or one about to be marked, has that value.
Fresh ==
    /\ \A b \in Live : home[b] # None => bytes[b] = latest[home[b]]
    /\ \A s \in Sectors :
          \/ disk[s] = latest[s]
          \/ \E b \in Live : home[b] = s /\ (dirty[b] \/ \E h \in Holders : ref[h] = b /\ pc[h] = "written")
    /\ \A h \in Holders : pc[h] \in {"read", "commit", "committed"} => ~dirty[ref[h]]

\* A commit under way still has every dirty cached buffer ahead of it.
Committing ==
    \A t \in Tasks : todo[t] # None =>
        /\ \E h \in Holders : Owner[h] = t
        /\ \A h \in Holders : pc[h] # "written"
        /\ \A b \in Range(cached) : dirty[b] => label[b] \in Range(todo[t])

IndInv ==
    /\ TypeOK /\ Tables /\ Data
    /\ Undisturbed => OneCall /\ Fresh /\ Committing
=============================================================================
