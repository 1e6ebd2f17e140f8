--------------------------- MODULE KernelAllocator ---------------------------
(***************************************************************************)
(* allocator.rs: the kernel heap.  Small layouts come from one free list   *)
(* per block size, threaded through the free blocks themselves; frames for *)
(* them are never given back.  Larger layouts are runs of frames.  Both    *)
(* halves work under a Spin, so alloc and dealloc are atomic.  Memory is   *)
(* counted in words, a free block's link being its first word.             *)
(***************************************************************************)
EXTENDS FrameManager

CONSTANTS FrameSize,   \* Frame::SIZE in words
          BlockSizes,  \* BLOCK_SIZES in words, ascending
          Layouts,     \* requests: [size, align]
          MaxLive,     \* bound on the allocations alive at a time
          MappedEnd,   \* first word that is not identity-mapped (paging.rs)
          Null, Data   \* null_mut(); anything a client stores

\* The code's sizes and all alignments are powers of two, and no alignment exceeds a frame.
ASSUME AllocatorAssumption ==
    /\ FrameSize \in Nat \ {0} /\ MappedEnd \in Nat /\ Null \notin Nat
    /\ Null \notin Layouts /\ DOMAIN BlockSizes \subseteq Nat
    /\ \A i \in DOMAIN BlockSizes : BlockSizes[i] \in Nat \ {0} /\ FrameSize % BlockSizes[i] = 0
    /\ \A i, j \in DOMAIN BlockSizes : i < j => BlockSizes[i] < BlockSizes[j]
    /\ \A l \in Layouts :
          /\ l.size \in Nat /\ l.align \in Nat \ {0} /\ FrameSize % l.align = 0
          /\ \A i \in DOMAIN BlockSizes : l.align <= BlockSizes[i] => BlockSizes[i] % l.align = 0

VARIABLES available,  \* available_blocks: the head of each list
          memory,     \* the words of the frames
          live,       \* the allocations handed out: [ptr, layout]
          uefi        \* the firmware's memory map
heap == <<frames, available, memory, live, uefi>>

Words == 0..(end * FrameSize - 1)

\* AllocationMode::from
Need(layout) == IF layout.size >= layout.align THEN layout.size ELSE layout.align
Fitting(layout) == {i \in DOMAIN BlockSizes : BlockSizes[i] >= Need(layout)}
Mode(layout) ==
    IF Fitting(layout) # {} THEN [block |-> TRUE, index |-> Min(Fitting(layout))]
    ELSE [block |-> FALSE, num |-> (Need(layout) + FrameSize - 1) \div FrameSize]

\* as_virt_addr and as_phys_addr: identity below the mapped end, else None.
AsVirtAddr(word) == IF word < MappedEnd THEN word ELSE Null
FrameOf(word) == AsVirtAddr(word) \div FrameSize

InitHeap ==
    /\ uefi \in Firmware
    /\ InitFrames(MemoryMap(uefi))
    /\ available = [i \in DOMAIN BlockSizes |-> Null]
    /\ memory = [w \in Words |-> Data]
    /\ live = {}

\* allocate_frame_for_block: the words of the new frame, linked block by block.
Carve(frame, size) ==
    [w \in Words |->
        IF w \div FrameSize # frame \/ w % size # 0 THEN memory[w]
        ELSE IF w % FrameSize = FrameSize - size THEN Null ELSE w + size]

\* The client may store anything in what it was given.
HandOut(mem, ptr, size, layout) ==
    /\ memory' = [w \in Words |-> IF w \in ptr..(ptr + size - 1) THEN Data ELSE mem[w]]
    /\ live' = live \union {[ptr |-> ptr, layout |-> layout]}

AllocBlock(layout, i) ==
    LET size == BlockSizes[i]
        frame == Allocate(1)
    IN \/ /\ available[i] # Null
          /\ available' = [available EXCEPT ![i] = memory[available[i]]]
          /\ HandOut(memory, available[i], size, layout)
          /\ UNCHANGED frames
       \/ /\ available[i] = Null /\ frame # NotEnoughFrame
          /\ AsVirtAddr(frame * FrameSize) # Null  \* else unwrap panics
          /\ MarkAllocated(frame, 1)
          /\ LET ptr == AsVirtAddr(frame * FrameSize)
             IN /\ available' = [available EXCEPT ![i] = Carve(frame, size)[ptr]]
                /\ HandOut(Carve(frame, size), ptr, size, layout)
       \/ /\ available[i] = Null /\ frame = NotEnoughFrame  \* a null pointer
          /\ UNCHANGED <<frames, available, memory, live>>

AllocFrames(layout, num) ==
    LET frame == Allocate(num)
    IN \/ /\ frame # NotEnoughFrame
          /\ AsVirtAddr(frame * FrameSize) # Null  \* else unwrap panics
          /\ MarkAllocated(frame, num)
          /\ HandOut(memory, AsVirtAddr(frame * FrameSize), num * FrameSize, layout)
          /\ UNCHANGED available
       \/ /\ frame = NotEnoughFrame
          /\ UNCHANGED <<frames, available, memory, live>>

Alloc(layout) ==
    /\ Cardinality(live) < MaxLive
    /\ LET mode == Mode(layout)
       IN IF mode.block THEN AllocBlock(layout, mode.index) ELSE AllocFrames(layout, mode.num)
    /\ UNCHANGED uefi

DeallocBlock(ptr, i) ==
    /\ memory' = [memory EXCEPT ![ptr] = available[i]]
    /\ available' = [available EXCEPT ![i] = ptr]
    /\ UNCHANGED frames

\* Mutant: takes the list of the layout's size from the next size up.
DeallocElsewhere(a) ==
    LET mode == Mode(a.layout)
    IN /\ IF mode.block
          THEN DeallocBlock(a.ptr, IF mode.index + 1 \in DOMAIN BlockSizes THEN mode.index + 1 ELSE 1)
          ELSE Free(FrameOf(a.ptr), mode.num) /\ UNCHANGED <<memory, available>>
       /\ live' = live \ {a}
       /\ UNCHANGED uefi

Dealloc(a) ==
    LET mode == Mode(a.layout)
    IN /\ IF mode.block
          THEN DeallocBlock(a.ptr, mode.index)
          ELSE Free(FrameOf(a.ptr), mode.num) /\ UNCHANGED <<memory, available>>
       /\ live' = live \ {a}
       /\ UNCHANGED uefi

NextHeap ==
    \/ \E layout \in Layouts : Alloc(layout)
    \/ \E a \in live : Dealloc(a)

SpecHeap == InitHeap /\ [][NextHeap]_heap
-----------------------------------------------------------------------------
\* The words that a layout gets.
Length(layout) ==
    LET mode == Mode(layout) IN IF mode.block THEN BlockSizes[mode.index] ELSE mode.num * FrameSize

\* The blocks that the links lead to from p on.
Steps == Cardinality(Words)
Follow(p, mem) ==
    LET walk[k \in 0..Steps] ==
            IF k = 0 THEN p ELSE LET q == walk[k - 1] IN IF q \in Words THEN mem[q] ELSE q
    IN walk
FreeList(i) == Follow(available[i], memory)
Blocks(w) == {w[k] : k \in 0..Steps} \ {Null}
Lists == [i \in DOMAIN BlockSizes |-> Blocks(FreeList(i))]

\* The pieces of memory that clients have, with their layouts, and that the lists have.
Pieces(l, b) ==
    {[ptr |-> a.ptr, len |-> Length(a.layout), of |-> a.layout] : a \in l}
       \union UNION {{[ptr |-> p, len |-> BlockSizes[i], of |-> Null] : p \in b[i]} : i \in DOMAIN b}
Extent(x) == x.ptr..(x.ptr + x.len - 1)

InRange == FrameMin..(end - 1)
Usable == UNION {Span(uefi[i].start, uefi[i].pages) : i \in {k \in DOMAIN uefi : IsAvailable(uefi[k].ty)}}
Used(P) == {w \div FrameSize : w \in UNION {Extent(x) : x \in P}}

\* The pieces P are disjoint and lie in memory the firmware declared usable, and of the
\* frames in range the bits are set of those that P uses and those that are not usable.
Exact(P, bits) ==
    /\ \A x, y \in P : x # y => Extent(x) \intersect Extent(y) = {}
    /\ Used(P) \subseteq Usable
    /\ bits \intersect InRange = Used(P) \union (InRange \ Usable)

\* The heap stays sound whatever is allocated and freed in whatever order: the free
\* lists end and were not overwritten by clients; live and free blocks are pairwise
\* disjoint, and a frame's bit is set exactly for the gaps, the live runs and the frames
\* cut into blocks, so that no frame is leaked or handed out twice; what a client has is
\* aligned and large enough, and dealloc finds its frames.
HeapSound ==
    /\ \A i \in DOMAIN BlockSizes : Lists[i] \subseteq Words /\ FreeList(i)[Steps] = Null
    /\ Exact(Pieces(live, Lists), allocated)
    /\ \A a \in live :
          /\ a.ptr % a.layout.align = 0 /\ a.layout.size <= Length(a.layout)
          /\ ~Mode(a.layout).block => AsVirtAddr(a.ptr) # Null

\* The list w starts at p, ends, meets no block twice, and has multiples of size.
IsList(w, p, mem, size) ==
    /\ w = [k \in 0..Steps |->
               IF k = 0 THEN p ELSE IF w[k - 1] \in Words THEN mem[w[k - 1]] ELSE w[k - 1]]
    /\ w[Steps] = Null
    /\ \A q \in Blocks(w) : q \in Words /\ q % size = 0
    /\ \A k, m \in 0..Steps : w[k] = w[m] /\ w[k] # Null => k = m

\* What a client has starts at a multiple of its block size, or of a frame.
LiveInv(a) ==
    LET mode == Mode(a.layout)
    IN IF mode.block THEN a.ptr % BlockSizes[mode.index] = 0
       ELSE a.ptr % FrameSize = 0 /\ a.ptr < MappedEnd

\* The soundness of the heap with what it rests on.
HeapInv ==
    /\ end \in Nat /\ memory = [w \in Words |-> memory[w]]
    /\ available = [i \in DOMAIN BlockSizes |-> available[i]]
    /\ live \subseteq [ptr : Nat, layout : Layouts] /\ \A a \in live : LiveInv(a)
    /\ \A i \in DOMAIN BlockSizes : IsList(FreeList(i), available[i], memory, BlockSizes[i])
    /\ Exact(Pieces(live, Lists), allocated)
=============================================================================
