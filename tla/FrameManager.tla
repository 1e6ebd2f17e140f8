---------------------------- MODULE FrameManager ----------------------------
(***************************************************************************)
(* phys_memory.rs: the bitmap of physical frames, initialized from the     *)
(* memory map that the loader builds out of the UEFI descriptors.  The     *)
(* manager is a Spin: every operation is one atomic step.  Addresses are   *)
(* counted in frames.                                                      *)
(***************************************************************************)
EXTENDS Integers, Sequences, FiniteSetsExt

CONSTANTS Firmware,  \* UEFI memory maps: sequences of [ty, start, pages]
          NotEnoughFrame

\* "Caller must ensure that the given MemoryMap is valid": ascending and disjoint.
ASSUME FirmwareAssumption ==
    /\ NotEnoughFrame \notin Nat
    /\ \A u \in Firmware :
          /\ Len(u) \in Nat /\ DOMAIN u = 1..Len(u)
          /\ \A i \in DOMAIN u : u[i].start \in Nat /\ u[i].pages \in Nat
          /\ \A i, j \in DOMAIN u : i < j => u[i].start + u[i].pages <= u[j].start

VARIABLES allocated,  \* alloc_map: the frames whose bit is set
          end         \* the first frame behind the memory range
frames == <<allocated, end>>

FrameMin == 1

\* The loader passes on what is free once the boot services have exited.
IsAvailable(ty) == ty \in {"conventional", "boot_code", "boot_data"}

\* The descriptors that are kept, in their order.
MemoryMap(uefi) ==
    [i \in {k \in DOMAIN uefi : IsAvailable(uefi[k].ty)} |->
        [start |-> uefi[i].start, end |-> uefi[i].start + uefi[i].pages]]

\* initialize(): phys_available_end behind the descriptors of S, and the gaps in
\* front of the descriptors, which are marked.
AvailableEnd(mm, S) == IF S = {} THEN 0 ELSE mm[Max(S)].end
Gaps(mm) == UNION {AvailableEnd(mm, {j \in DOMAIN mm : j < i})..(mm[i].start - 1) : i \in DOMAIN mm}

InitFrames(mm) == allocated = Gaps(mm) /\ end = AvailableEnd(mm, DOMAIN mm)

Span(frame, num) == frame..(frame + num - 1)

\* Mutant: forgets that the frames in front of the end must all be free.
AllocateSkipping(num) ==
    LET free == (FrameMin..(end - num)) \ allocated
    IN IF free = {} THEN NotEnoughFrame ELSE Min(free)

\* allocate(): the 'search loop of the first fit.
Allocate(num) ==
    LET search[f \in 0..(end + num + 1)] ==
            LET stops == {i \in 0..(num - 1) : f + i >= end \/ f + i \in allocated}
            IN IF stops = {} THEN f
               ELSE IF f + Min(stops) >= end THEN NotEnoughFrame
               ELSE search[f + Min(stops) + 1]
    IN search[FrameMin]

MarkAllocated(frame, num) == allocated' = allocated \union Span(frame, num) /\ UNCHANGED end

Free(frame, num) == allocated' = allocated \ Span(frame, num) /\ UNCHANGED end

\* The frames from which num frames in a row are free, inside the memory range.
Fits(num) == {f \in FrameMin..(end - 1) : f + num <= end /\ Span(f, num) \intersect allocated = {}}

\* First fit is exact: allocate() returns the lowest run of free frames that is
\* long enough, and gives up only when there is none, so that skipping behind each
\* allocated frame misses no gap and never runs past the end.
FirstFitExact ==
    \A num \in 1..end : Allocate(num) = IF Fits(num) = {} THEN NotEnoughFrame ELSE Min(Fits(num))
=============================================================================
