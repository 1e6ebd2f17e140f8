-------------------------- MODULE MCKernelAllocator --------------------------
EXTENDS KernelAllocator

\* Two firmware maps: one with a hole, one where the memory that is usable comes in
\* adjacent pieces of different types and starts behind frame 1.
MCFirmware == {
    << [ty |-> "conventional", start |-> 0, pages |-> 3],
       [ty |-> "loader",       start |-> 3, pages |-> 1],
       [ty |-> "boot_data",    start |-> 4, pages |-> 3] >>,
    << [ty |-> "runtime",      start |-> 0, pages |-> 2],
       [ty |-> "boot_code",    start |-> 2, pages |-> 2],
       [ty |-> "conventional", start |-> 4, pages |-> 2],
       [ty |-> "mmio",         start |-> 6, pages |-> 2] >> }
MCBlockSizes == <<1, 2>>
\* One layout per block size, one that its alignment rounds up, one and two frames.
MCLayouts == {[size |-> 1, align |-> 1], [size |-> 1, align |-> 2],
              [size |-> 3, align |-> 1], [size |-> 6, align |-> 4]}
=============================================================================
