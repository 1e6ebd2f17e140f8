# A TLA+ development for ors

ors is an x86_64 kernel in Rust: a preemptive task scheduler, blocking
primitives on top of it, a VirtIO block driver, a FAT file system, a console and
a shell. This directory models them in TLA+, checks small instances with TLC, and
proves, for every size of system, with TLAPS, the safety properties of the
scheduler, the mutex, the queue, the virtqueue and the block driver, the frame
manager and the heap, the buffered volume, the file system's addresses, the screen
and the per-CPU array.

## The system

| Part | State | Operations | Talks to |
| --- | --- | --- | --- |
| Task scheduler (`task.rs`) | run queues per priority, pending tasks, ids blocked per channel, heap of timeouts, one spin lock | `add`, `switch` (`yield`, `block`, `sleep`, conditional block), `release`, `elapse` | context switch, per-CPU state, every blocking primitive |
| Context switch (`context.rs`, `asm.s`) | registers, `saved` flag, `cts` | `wait_saved`, `switch` | scheduler |
| Per-CPU state (`cpu.rs`), interrupts (`interrupts.rs`) | `running_task`, `ncli`, `zcli`, `TICKS` | `Cli`, `timer_handler`, device handlers | scheduler, console, block device |
| Spin lock, mutex, queue (`sync/`) | a flag; a flag behind a spin lock; a lock-free ring | `lock`/drop; `lock`/drop; six enqueue and dequeue operations | scheduler |
| Virtqueue, block device (`devices/virtio/`) | descriptor table, free list, two rings, data per descriptor | `transfer`, `collect`; `request`, `read`, `write`, `collect` | device, scheduler |
| Frame manager, heap (`phys_memory.rs`, `allocator.rs`) | bitmap; free lists per block size | `allocate`, `free`, `mark_*`; `alloc`, `dealloc` | paging |
| Buffered volume (`fs/volume.rs`) | cached and lent sectors, dirty flags | `sector`, `commit`, drop of a reference | block device |
| FAT (`fs/fat*`) | allocation table, directories, file readers and writers | files and directories: create, remove, move, read, write | buffered volume |
| Console (`console*`, `graphics*`) | three queues, decoder states, text grid with a dirty region | decode, put, render | queues, timer |
| Shell (`shell.rs`) | line buffer, cursor, working directory | line editing, commands | console, FAT |
| Loader, logging, PCI, ACPI, paging | hardware tables set up once | initialization | firmware |

What makes it hard: a task can be interrupted wherever interrupts are enabled
and can move between CPUs; it is put into a queue before its registers are
stored; releases, timeouts and blocks of different CPUs race; stale timeouts
stay in the heap; block's callers rely on never missing a wakeup; the device
answers out of order and at any time.

## Modules

| Module | Models |
| --- | --- |
| `WaitChannels` | What the scheduler promises its clients: threads wait on a channel, a timeout or both; a release wakes all waiters of a channel at once |
| `Scheduler` | `task.rs` with the context switch, the per-CPU state, the interrupt lock, the timer and device handlers |
| `SchedulerInv` | The inductive invariant of `Scheduler` |
| `SchedulerProofs` | TLAPS proofs that every part of the invariant is preserved, of what follows from it, and of the refinement of `WaitChannels` |
| `Lock` | What a lock promises |
| `SleepMutex` | `sync/mutex.rs`, on top of `WaitChannels` |
| `Channel` | What a bounded queue promises: FIFO, nothing lost or seen twice |
| `SyncQueue` | `sync/queue.rs`, on top of `WaitChannels` and an external MPMC ring |
| `SyncQueueProofs` | TLAPS proofs about `SyncQueue`, with the refinement of `Channel` |
| `Lending` | What a virtqueue promises: buffers given to the device come back once, whole and in order |
| `VirtQueue` | `devices/virtio/queue.rs` and the device's side of the rings |
| `VirtQueueProofs` | TLAPS proofs of the invariant of `VirtQueue` and of `Partition` |
| `VirtQueueRefinement` | TLAPS proof that `VirtQueue` implements `Lending` |
| `VirtioBlock` | `devices/virtio/block.rs` with its interrupt handler, on top of `Lending` and `WaitChannels` |
| `VirtioBlockProofs` | TLAPS proofs about `VirtioBlock` |
| `FrameManager`, `KernelAllocator` | `phys_memory.rs` with the loader's memory map; `allocator.rs` on top of it |
| `AllocatorProofs` | TLAPS proofs about both |
| `BufferedVolume` | `fs/volume.rs` |
| `BufferedVolumeProofs` | TLAPS proofs about `BufferedVolume` |
| `FatGeometry` | `fs/fat/boot_sector.rs`, the address arithmetic of `low_level.rs`, `check_capacity` |
| `DirEntryNames` | `fs/fat/dir_entry.rs` and `DirIter`, byte by byte |
| `FatFs` | `fs/fat.rs` and `low_level.rs` as functions of the volume |
| `FileTree` | What the file commands promise: a tree in which a command changes one file or subtree |
| `FatShell` | The shell's file commands on `FatFs` |
| `AnsiDecoder` | `console/ansi.rs` |
| `Terminal` | `console/screen.rs` on `graphics/text_buffer.rs` |
| `ConsoleOutput`, `ConsoleInput` | The two halves of `console.rs`, the second with `console/kbd.rs` and the shell's line editor |
| `OnceCell` | `sync/once.rs`, `sync/lazy.rs` over an external `spin::Once` |
| `NonContiguousArray` | `ors-common/src/non_contiguous.rs` |
| `KernelProofs` | TLAPS proofs about four parts that stand alone: `SleepMutex` with the refinement of `Lock`, `NonContiguousArray`, `Terminal` and `FatGeometry` |
| `MC*` | Instances for TLC. `MCPrimitives`, `MCFat` and `MCConsole` put several parts into one specification |

The modules form two layers. `Scheduler` implements `WaitChannels` and
`VirtQueue` implements `Lending`; the clients (`SleepMutex`, `SyncQueue`,
`VirtioBlock`) are written against those two, so that they stay small enough to
be checked with several tasks at the grain of their locks. The console modules
take their queues as the FIFO that `Channel` promises, and `FatShell` takes the
volume as the map from sectors to contents that `BufferedVolume` keeps for one
task.

`MCPrimitives`, `MCFat` and `MCConsole` are sums: the variable `part` chooses, in
the initial state, which of several modules a behaviour is about, and the
variables of the others never change. The parts share no variable, so the sum has
exactly the behaviours of each, and a property of one part is stated for the
behaviours about that part. `BufferedVolume` and `FatShell` choose in the initial
state how they are used (`setting`, `session`).

Definitions named after a mutation (with a comment that says so) are plausible
bugs: `PROJECT.json` names, for every property, a definition and the mutated form
under which TLC finds the property violated.

### Scheduler

One variable per field of `TaskQueue`, `CpuState` and `Context`, the locals of
`switch`, `release` and `elapse` that live across steps, and a program counter
per CPU. The grain is the one at which CPUs interleave: a step runs with
interrupts disabled on one CPU and touches that CPU's own state, or the task
queue under its lock, or the `saved` flag of one context. Loops over the queue
take one step per iteration.

| Step | Code |
| --- | --- |
| `Add` | `TaskScheduler::add` |
| `Call`, `Enter` | `yield`, `block`, `sleep` and `Queue`'s conditional block, up to the queue lock |
| `SchedulingOp`, `Cancel` | the closure passed to `switch`; it may drop a guard, or cancel the switch |
| `Dequeue`, `DequeueNone`, `WaitSaved` | `TaskQueue::dequeue` |
| `Save`, `Restore`, `Leave` | `Context::switch`, `switch_context` before and after "Mark as saved", and the end of `switch` |
| `Release`, `DeviceInterrupt`, `ReleaseStep`, `ReleaseEnd` | `TaskScheduler::release` from a task or from a handler |
| `Timer`, `Elapse`, `ElapseStep`, `ElapseEnd` | `timer_handler` |
| `LockGuard`, `UnlockGuard` | a `Spin` guard that is passed to `block` |

The threads are the workers that `add` creates and one boot thread per CPU, which
becomes a task in its first `switch` and afterwards only halts. ors boots one CPU
today; the code is written for several, and so is the model.

### SleepMutex

A thread goes through the loop of `MutexGuard::new` one lock operation at a
time: it takes the spin lock, tests the flag, and either sets it or calls
`block`, which takes the scheduler's queue lock before it drops the spin guard,
registers the thread and suspends it. Dropping a guard clears the flag under the
spin lock and then, separately, releases the channel under the queue lock. The
scheduler's part is `WaitChannels`, which `Scheduler` implements.

### SyncQueue

The ring is `heapless::mpmc::MpMcQueue`, external: a position is claimed by a
compare-and-swap (`Attempt`), and the cell is written or read and then committed
by its sequence number (`Commit`). Positions count modulo `2 * N`, as the `u8` of
the library does for the `N` of 128 that the console uses. An operation is in one
of three modes, blocking, timed or try. It tries once without a lock; if that
fails it locks the scheduler's queue in `switch` (`SchedulingOp`), tries again
there, and cancels the switch or suspends (`SecondFails`); when it wakes, a
blocking one starts over and a timed one tries a last time (`ThirdFails`). What
succeeds releases the channel of the other side. Locals are reset where they are
dead.

### VirtQueue and VirtioBlock

`VirtQueue` has the descriptor table (`next`, and an opaque buffer per
descriptor for address, length, direction), `buffer_associated_data`, the free
list, both rings and the indices of driver and device. `transfer` is three steps
(descriptors, ring entry, index), because the device looks at the ring between
them; `collect` is one step per iteration of its two loops. The device takes
heads in order and finishes them in any order. Stale entries of rings and
descriptors stay, as they do in memory. `used_ring_at` returns a pointer to a
copy of the entry; the model takes the copied value.

`VirtioBlock` replaces these details by `Lending`. A task locks `requestq`,
transfers its three buffers or blocks on the queue's channel, notifies the
device, and blocks on the address of its footer; `block` takes the scheduler's
lock before it drops `requestq`. The handler takes `requestq`, hands buffers
back, releases the channel it finds at a footer, releases the queue's channel
when the used ring is empty, and only then unlocks. The footer starts as "new",
which the code cannot tell from `STATUS_OK`. The interrupt is a pending bit that
is cleared when the handler starts. Requests are those that passed
`check_capacity`, which is in `FatGeometry`.

### Frames and heap

`FrameManager` builds the bitmap from UEFI descriptors as the loader filters them
and searches it first fit. `KernelAllocator` keeps the links of the free lists in
the words of the free blocks, and lets a client overwrite every word it was
given. An operation is one step: `alloc` and `dealloc` hold a spin lock.
`alloc` panics when `as_virt_addr` refuses a frame behind the mapped memory
(`MappedEnd`); such a step does not happen in the model. `AllocatorAssumption` and
`FirmwareAssumption` say what the code takes for granted: block sizes ascend and
divide a frame, an alignment divides a frame and every block size that is not
smaller, and the regions of the firmware's map ascend and do not overlap.

### BufferedVolume

A holder keeps one reference. `sector` is a step on the tables under their lock,
then the write-back of a recycled buffer and the read, each a step under the
buffer's mutex; `bytes`, `mark_as_dirty`, clone, drop and `commit` are steps of
their own. A failed read leaves garbage in the buffer. The setting of a behaviour
says which task has which holders, which contents are stored, how large the cache
is, and which volume calls may fail.

### FAT

`FatFs` works on raw FAT entries and on cells, a cell being a directory entry or
a block of a file. Each operation returns the volume also when it fails, as
nothing is rolled back. Names are values with a number of long-name entries; what
those entries contain is in `DirEntryNames`. `FatGeometry` checks which bytes of
the device a FAT entry or a range of a cluster is. It assumes what `try_from`
does not validate: that the FAT is large enough for the clusters and that the
root cluster exists. Only the first copy of the FAT is written (a TODO in
`fat.rs`). In `FatShell` a command is one step, because the shell is the only
task that uses the volume. Two cases are left out of it by guards:

- a `write` that shortens a file to fewer clusters, but not to none, happens only
  in the run `fat_truncate`, which shows that it goes wrong; the run `fat` is
  about the other writes;
- `mv` of a directory into itself or below, which the code does not refuse.

In the sessions checked only `write` and `append` find the volume full: no
directory is made, grows or receives a file then (see the limits below).
`FileTree` says what a command may change. It does not say which command was
given, so `FileWritesExact` adds what a `write` and an `append` leave in their file.

### Console

`AnsiDecoder` is a function of a state and a character, over u32 parameters whose
overflow panics. `ConsoleOutput` cuts strings into chunks and interleaves tasks;
its property compares each task's text with the task's chunks, and the decoder
with a definition that reads the whole text at once. The timed dequeue may return
`None` at any moment: `SyncQueue` can be woken by a release that comes late. `Terminal` has the grid, the two levels of `render_diff` and what the frame
buffer shows; arithmetic that overflows sets `halted`, after which nothing
happens. `ConsoleInput` takes bytes of both ports through two queues that drop
what does not fit, to the line editor.

### OnceCell and NonContiguousArray

`OnceCell` lets a handler or another task take the CPU wherever interrupts are
enabled and call the cell again. The statics of the kernel use `spin::Once`
directly today; these wrappers are what the library offers. `NonContiguousArray`
compares the buckets with the map that was inserted.

## Runs

| Run | Checks |
| --- | --- |
| `scheduler_one_cpu` | The kernel as it boots today, with two workers of the top priority and two channels: nobody is orphaned, `block` never falls through, no timeout is early; the workers take turns and every timeout is handled |
| `scheduler_two_cpus` | Two CPUs share the queue; contexts are resumed while they are being saved; `wait_saved` spins under the queue lock and the lock is still released; refinement of `WaitChannels` |
| `scheduler_stack` | A violation: see below |
| `primitives` | `SleepMutex`: exclusion, no lost wakeup, refinement of `Lock`, progress. `SyncQueue` with two producers and a consumer: whoever waits for an item or for room is served while there is some. `OnceCell`: every call returns, whoever interrupts whom. `NonContiguousArray`: the array is the map that was inserted |
| `queue` | Two producers, two consumers, two items, all modes: nobody sleeps through a reason to go on; refinement of `Channel` |
| `virtqueue` | Three descriptors, batches of one to three, indices modulo six: partition of the descriptors, refinement of `Lending` |
| `block` | Four tasks, room for two requests: buffers outlive the request, answers are the device's, no lost wakeup; every transferred request returns and somebody is always served |
| `kernel_heap` | Live and free blocks are disjoint and no frame is leaked; first fit finds the lowest run there is |
| `volume` | Two tasks on a device that fails at will, or one task on one that works: the tables stay consistent and no `unwrap` fails. One task, no failures: a reference shows the last value stored; after `commit` every sector that is not lent is on the disk |
| `fat` | `FatShell`, directories and names, or texts until the volume is full: refinement of `FileTree`; `write` replaces and `append` extends a text, and they fail only for lack of room; chains are disjoint, end, and account for every cluster in use. `FatGeometry`: every access is exactly its own slice of the volume and within the device. `DirEntryNames`: a name that is accepted is found again unchanged |
| `fat_truncate` | A violation: see below |
| `console` | `Terminal`: nothing that was written or erased stays undrawn after a render. `ConsoleOutput`: nothing of a task's text is lost on the way to the queue and the screen is given what the text stands for; waits are positive and reach the next render. `ConsoleInput`: the line is what was typed; the cursor stays in the line also when input is dropped |

Each safety invariant of `Scheduler` is checked on the instance that can break it
most easily. Type correctness and the inductive invariants are not properties of
a run; they are proved (see Proofs).

Bounds. `MaxPending` bounds the pending ids a run issues, that is the number of
suspensions: two or three are enough for a release, a timeout and a stale heap
entry to meet. `Durations` are the timeouts clients ask for. `MaxTick` bounds the
clock; clock and deadlines saturate there, so that the last tick stands for the
future and timers keep firing. `MaxTick` is larger than every duration that a
first block can use after the first tick, so timeouts do fire late and early
wakeups would be seen. Workers have different priorities so that both branches
of the level search occur on two CPUs; on one, both are at the top. The ring of `SyncQueue` has two cells, the least for
which sequence numbers tell a full ring from an empty one, so it wraps, fills and
empties all the time. `Swaps` exchanges producers, consumers and items in the run
`queue`, which has no liveness property. `Size` and `Width` of `VirtQueue` let the indices wrap and
the free list be emptied in one transfer and in several, and give it every order;
`MaxBatch` bounds one transfer. The queue of `VirtioBlock` holds two requests and
two descriptors that are too few for a third.

The heap has two block sizes, seven frames and `MaxLive` live allocations, enough
to run out of memory and to reuse blocks and frames in another order. The cache of
`BufferedVolume` is smaller than the volume, so buffers are recycled. The FAT
instances have clusters of four entries, names of one and two entries, and
`MaxDepth`; a session bounds the commands and the files. The first session has two
names of two entries beside one of one: only then can an entry in use lie between
the free ones an insertion looks at. The second fills the volume in the middle of
a write. No instance fills it in the middle of an `mv`, a `mkdir` or the growth of
a directory: what those lose when they fail (`fat.rs:462`, `fat.rs:186`,
`fat.rs:138`) is known from the code and not the subject of a run. The names of
`DirEntryNames` are up to `MaxRuns` runs, with lengths around 8, 13, 26, 242 and
255; all characters are ASCII. `Bits` of `Terminal` and `MaxU32` of the decoder
are small, so that numbers overflow within `MaxOutput` or a short string.
`MaxTicks`, `MaxStrings`, `MaxKeystrokes` and `MaxInterrupts` bound the
environment. The mutants confirm that the bounds reach the cases.

Fairness. A CPU executes its instructions (`WF` of the kernel steps), a critical
section of task code ends (`WF`), and the local APIC keeps a timer interrupt
pending until interrupts are enabled, so a timer that is enabled again and again
fires (`SF`). No task is assumed to call anything. In `SleepMutex` every thread
that is inside `lock`, holds the mutex or is dropping it goes on (`WF`). In
`SyncQueue` and `VirtioBlock` likewise (`WF`); the steps that take a spin lock in
`SyncQueue`, and the interrupt handler's in `VirtioBlock`, need the lock only to be
free again and again (`SF`): they run with interrupts disabled, and on the one CPU
that is started the lock is then never held by another thread. The device finishes
what it has taken, and takes what is available only if it was notified (`WF`).
In `OnceCell` a CPU executes whoever has it, and handlers return (`WF`);
interrupts are not owed. The other modules have safety properties only.

The violations. `context.rs:34` says that `saved` confirms the end of the saving
process, and `wait_saved` lets another CPU resume a thread as soon as it is set.
`switch_context` sets it and then still pushes the iret frame on the stack of
the thread it saved (`asm.s:66`). `scheduler_stack` shows the two CPUs on one
stack. It is latent while only one CPU is started.

`boot_sector.rs:165` says that the FAT entry indicates the status of its cluster.
When a write leaves fewer clusters than the file had, `ChainedCluster::release`
marks the last cluster that remains as unused (`low_level.rs:290`), where an end
mark is due. `fat_truncate` shows it; the cluster can then be given to another
file.

Limits that are not violations, because nothing in the repository promises
otherwise. With two tasks, `Coherent` of `BufferedVolume` fails: a task may read a
sector from the disk before another one has written the recycled buffer with its
last contents back. After a failed write-back or read, a sector can likewise show
old or garbage contents. The shell is the only client, so the first does not happen
today; the second needs a failing device. `append` and `write` leave an empty file
when the volume is full; `FileTree` allows it and `FileWritesExact` says when. The shell ignores the result of
`commit`, and a crash between two sector writes is not repaired. When the volume
has no cluster for the terminal of a directory, the directory stays full to the
end of its last cluster, and the next insertion starts at its first entry
(`fat.rs:138`); `mv` and `mkdir` lose clusters when they fail on a full volume.

## Proofs

`SchedulerProofs` proves, for any finite set of CPUs and any workers, channels,
durations and bounds, that `IndInv` is inductive, and from it: type correctness;
`ThreadInOnePlace`; `NoThreadLost`; `NoOrphan`; `OnlySavedResumed`;
`InterruptDiscipline`; `BlockNeverFallsThrough`; `NeverEarly`; and that the
scheduler implements `WaitChannels`. The only assumption is `SchedulerAssumption`
on the constants.

`IndInv` is needed because none of these is inductive alone. That a thread is in
one place depends on which local holds it at which program point (`ControlInv`),
and on pending ids being issued once (`FreshInv`). That a context is saved
before it is resumed depends on who executes what between `WaitSaved` and
`Restore` (`ExecInv`). The interrupt lock at a program point depends on what the
contexts remember (`ContextInv`, `CliInv`): a thread that was preempted resumes
in `switch` with `zcli` set, one that called `switch` itself does not.
`BlockNeverFallsThrough` is a pigeonhole argument: when a worker suspends on one
CPU, that CPU's boot thread is a task; boot threads are never pending; and one
CPU fewer than there are such boot threads can be holding one, so at least one is
in the queue.

The refinement maps a thread to the channel and the timeout under which its
pending id is registered, ids that a release has picked up not counting. A switch
that suspends is a `Block`, because the id it issues is in no table (`FreshInv`).
The start of a release is a `Release` of all waiters at once, because a thread is
pending under one id (`ThreadInOnePlace`), an id is in one vector (`ChannelInv`)
and the releasing CPU has no other list to work on; its iterations are invisible.
An iteration of `elapse` is an `Expire` or, for a stale heap entry, invisible.

`KernelProofs` proves, about four parts:

- the mutex, for any set of tasks: its invariant, mutual exclusion, that no wakeup
  is lost, and that it implements `Lock`;
- the array, for any number of buckets, indices and values: `ArrayIsMap`. `ArrayInv`
  says that every bucket between the home of an index and the bucket it is stored in
  is occupied, so `get` does not stop early; that `insert` fails only on a full array
  is a pigeonhole argument;
- the screen, for any size, glyphs and integer width: `NoStaleGlyph`. Between two
  renders both levels of `render_diff` only grow; every cell that differs from what
  the frame buffer shows is covered by one of them (`ScreenInv`); and `render` draws
  what they cover before it clears them;
- the addresses of the file system, for any boot sectors and devices:
  `AccessExact`. A FAT entry does not cross a sector because sector sizes are
  multiples of four; the pieces of `sector_range` cover exactly the range, because
  quotients by the sector size are ordered as the bytes are; and the sum in
  `check_capacity` does not wrap because the sector is below `totSec32`, which
  `Root::new` compared with the device.

`SyncQueueProofs` proves, for any producers, consumers and items and any ring of
at least two cells, that no wakeup is lost and that the queue implements
`Channel`. A refinement needs to know what is in every cell, so `IndInv` describes
the whole ring by the distance of a position from `deq` modulo `2 * N`: the
positions from `deq` to `enq` hold an item or are claimed by a producer that has
still to write it (`FullCells`); those of the last round behind them are free for
the next one or claimed by a consumer that has still to read (`FreeCells`); a
claim carries the sequence number its holder expects, and no two threads claim
the same position (`Claims`). `Contents` reads the ring through these claims, so
an enqueue takes effect when the compare-and-swap succeeds and a commit changes
nothing abstractly. Lemmas on `Dist` and `Plus` carry the arithmetic modulo
`2 * N`. That no wakeup is lost rests on the second attempt being made under the
scheduler's lock, which every release takes.

`VirtQueueProofs` proves, for any queue size and any index width that is a larger
multiple of it, that the free list and the chains in flight partition the
descriptors (`Partition`); `VirtQueueRefinement` proves that the virtqueue implements
`Lending`. `IndInv` says that every head is in one place, the available ring, the
device, the used ring or the driver's hands (`Places`), that the data kept beside a descriptor is what it
refers to and that no two hold the same (`Contents`), and that the links of the table
lay out the free list and every chain without sharing (`Layout`). A chain is a walk
along `next`; that two walks agree is shown with the least position at which they
would not. The refinement maps a head to the buffers behind it, so publishing the
index is the abstract transfer, and an iteration of `collect` hands back one buffer.

`AllocatorProofs` proves, for any frames, block sizes, layouts and firmware map that
satisfy the assumptions, that live and free memory is disjoint and accounts exactly
for the bitmap (`HeapSound`), and that the frame manager finds the lowest run there
is (`FirstFitExact`). A free list lives in memory that clients write, so `HeapInv`
names, for each block size, the sequence of blocks its links run through: it ends,
repeats nothing and consists of multiples of the size. The clients' memory and the
blocks of the lists are pieces, pairwise disjoint, whose frames are the allocated
ones. An operation swaps a piece (pop and push), adds pieces (a frame is carved, or
frames are handed out) or removes one (frames are freed), with one lemma for each;
writes inside a client's piece leave all links alone because pieces are disjoint.
First fit follows from the greatest frame at which the search could have gone
wrong.

`VirtioBlockProofs` proves, for any finite set of tasks and any queue size, that
buffers outlive the request, that the status is the device's, and that no wakeup
is lost. `IndInv` adds who holds which lock at which program point (`Discipline`)
and that a request is, from its transfer until its task is released, in exactly
one of the available ring, the device, the used ring and the hands of the handler
(`InOnePlace`). The sequences that `Lending` works on are treated by their sets
of elements and by having no duplicates. A task sleeps on the queue's channel only
when fewer than three descriptors are free, under a lock that the handler needs;
descriptors come back only in the handler, which releases the channel before it
unlocks.

`BufferedVolumeProofs` proves, for any tasks, references, sectors, cache size and
faults that satisfy `VolumeAssumption`, that the tables stay consistent, and, for
one task on a working device, that buffering is transparent and that `commit`
makes durable. `IndInv` has two layers. `Tables` and `Data` hold whatever is
interleaved and whatever fails: `lent` is exactly what references refer to,
`cached` holds other buffers, each once, and no two buffers are labelled with the
same sector; that `sector` always finds a spare buffer is a pigeonhole argument on
the references. `OneCall`, `Fresh` and `Committing` hold in the undisturbed
setting: only the buffer that is being initialized has another sector's bytes;
the last value of a sector is on the volume unless a dirty buffer, or one about to
be marked dirty, has it; and a commit under way has every dirty cached buffer
still ahead of it. `Coherent` alone is not inductive, because what a reference
shows after a recycled buffer was read depends on the write-back before it.

The assumptions are those of the modules on their constants, and TLC evaluates
them on every run; what the parts below promise (`WaitChannels`, `Lending`, the
ring of `heapless`) enters as the steps the client modules take from them. Each
`IndInv`, and `ArrayInv`, `ScreenInv`, `GeometryInv` and `HeapInv`, was checked by TLC
on the instance of its run before it was proved.

Only model-checked:

- liveness (`TopPriorityRuns`, `TimeoutsFire`, `QueueLockReleased`, `Progress`,
  `Delivery`, `EveryRequestReturns`, `SomebodyIsServed`, `CallsReturn`), because
  fairness and `ENABLED` are outside the prover's reach;
- what rests on recursive definitions, which need induction over data:
  `FileChainsSound`, `ImplementsFileTree` and `FileWritesExact` (walks along chains and paths),
  `NameReadBack` (the entries of a name), `OutputExact` and `TypedIsEdited` (a text
  against its decoding). Where a walk could be described without recursion, as in
  `VirtQueue` and the heap, it is proved;
- `OnceCell`, whose only property is liveness.

## Plan

Models: failing volume calls inside a FAT operation.

## Not modelled

Hardware tables that are set up once (page tables, segmentation, IDT, ACPI, PCI
and VirtIO configuration), the loader except for its memory map, logging and
serial output, pixels, fonts and colour values: sequential initialization and I/O
without state of their own. The statistics of the frame manager and the shell's
commands that only print. Of the file system: failing volume calls inside an
operation, the second FAT, and short names that collide (a FIXME in the source).
`PROJECT.json` lists every part with its status and the hazards with the
properties that cover them, or the reason why none does.
