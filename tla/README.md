# Formal models of Kernel-Memory-Virtualization

The repository is a course on kernels and memory: a small x86-64 kernel that
runs user tasks (`tp-1/rackdoll`), a virtual machine monitor and the guest it
runs (`tp-3/janus`), the skeleton of a garbage collector (`TP_GC_NMV`) and cache
micro-benchmarks (`tp-2/hwdetect`). This project models it in TLA+, checks the
models with TLC and proves theorems about them with TLAPS. Every definition is
translated from the source; `PROJECT.json` gives the lines of each.

## Inventory

### rackdoll, the kernel (`src/tp-1/rackdoll`)

| part | state | operations | what makes it correct |
|---|---|---|---|
| task fifo, `kernel/task.c` | `fifo`, `fifo_size`, `fifo_run`, `save` | `load_tasks`/`parse_task`, `run_tasks`/`enter_handler`, `next_task`, `exit_task`, `fork_task` | each flow of control gets its own registers and page table back, none is run twice, lost or starved; the kernel resumes when the last one ends |
| page pool, `kernel/memory.c:1-63` | `bitset`, `pool` | `alloc_page`, `free_page` | a frame has one owner; no legal sequence frees one twice |
| page tables, `kernel/memory.c:106-294` | tables in pool pages, the TLB | `map_page`, `load_task`, `set_task`, `mmap`, `munmap`, `pgfault`, `duplicate_task` | a task sees a private memory, zeroed when mapped; the TLB never disagrees with the tables |
| traps and boot, `kernel/idt.c`, `kernel/main.c` | `interrupt_vector`, the IDT | `trap`, `default_interrupt`, `main_multiboot2`, `die`, `print_pgt` | the handler of the interrupt runs, once |
| module search, `kernel/task.c:99-119,184-197` | none kept | walk over tags, scan for the magic number | it ends and stays inside the module |
| console, `kernel/printk.c`, `kernel/vga.c` | cursor | formatter, scrolling | the buffer's bound; the screen is a window on the last lines |
| user tasks, `task/*.c` | heap pointer | sieve, hash, adversary, mylittlefork | they are the environment: what the kernel may expect |
| entry code, `kernel/entry.S`, `kernel/trap.pl` | boot tables | save and restore registers | assembly, not modelled |

There is one processor and no preemption: the timer is set up by `setup_apic`,
which nothing calls. A handler runs from the trap to the return without another
one in between, so a handler is one step. What is hard is the order of the
handlers: tasks yield, fork, fault, map and end in any order, slots of the fifo
are overwritten by other tasks, pages go back to the pool and come out as tables
of somebody else, and the processor keeps translations.

### janus, the monitor and its guest (`src/tp-3/janus`)

| part | state | operations | what makes it correct |
|---|---|---|---|
| guest paging, `guest/memory.c`, `guest/main.c` | bitset, tables, TLB | `map_page`, `unmap_page`, `mmap`, `munmap`, `pgfault`, the scenarios of `do_stuff` | a frame is free, a table or mapped, whatever is shared; unmapping clears the entry and must invalidate it |
| guest boot and traps, `guest/entry.S`, `guest/trap.pl`, `guest/idt.c` | stack | the switch to 64 bits, the return from an interrupt | it ends in `main_multiboot2`, in 64 bits |
| virtual processor, `monitor/state.c` | mode, CR0-CR4, EFER, selectors, GDT, IDT, pending interrupts | `lgdt`, `lidt`, `mov_to_selector`, `mov_to_control`, `wrmsr`, `trigger_interrupt`, `pending_interrupt` | the order PAE, LME, PG, CS of the switch to long mode; a faulting instruction changes nothing |
| interception, `monitor/intercept.c` | guest registers and stack | `handler`, `emulate_*`, `branch_interrupt` | low memory is protected whenever the guest runs; every interrupt is delivered |
| host memory, `monitor/memory.c` | protection, bitset | protect, unprotect, `alloc_page`, `free_page`, physical accesses | unprotected only inside the handler |
| loader, `monitor/multiboot2.c` | header and tags | extract, parse, load | the right header is found, and every word of the kernel is at its address |
| shadow tables, `monitor/shadow.c` | none | stubs that exit | nothing to model |
| `include/monitor/vector.h` | array, size, capacity | grow, push, remove | included by `shadow.c`, called by nothing |
| `xed` | | instruction decoder | third party |

### the garbage collector's skeleton (`src/TP_GC_NMV`)

| part | state | operations | what makes it correct |
|---|---|---|---|
| allocator, `alloc.c` | classes with free list and zone, page hash table, statistics | `allocate_internal`, `pre_free`, `toHeader` | two live objects never overlap; `toHeader` finds the object of any pointer into it |
| threads, `gc.c` | circular list of `tls` | `attach_thread`, `detach_thread`, `_writeBarrier` | the list holds the attached threads |
| test program, `main.c` | hash map, string buffer | `hash`, `hashmap_apply`, `has_elmt`, `string_buf_append` | no element is lost by a rehash |

Allocation takes a mutex, freeing does not: threads interleave after the unlock and
would interleave inside the free list. The collector itself is left to be written
(`A FAIRE`).

## Modules

| module | models |
|---|---|
| `Coroutines` | the abstract promise of the task fifo: flows of control that keep their registers between two turns |
| `TaskFifo` | `kernel/task.c`: one action per operation on the fifo |
| `TaskFifoProofs` | theorems about `TaskFifo`, and that it implements `Coroutines` |
| `MCTaskFifo` | its instances for TLC |
| `AddressSpaces` | the abstract promise of the virtual memory: private memories of pages |
| `KernelMemory` | `kernel/memory.c` and the processor's page walk as operators on a machine's memory |
| `KernelMemoryProofs` | theorems about those operators |
| `Rackdoll` | the kernel: `TaskFifo` (by `INSTANCE`) running on `KernelMemory`, with the TLB and user programs |
| `RackdollProps` | the properties of `Rackdoll` and its refinement of `AddressSpaces` |
| `RackdollProofs` | theorems about `Rackdoll` |
| `MCRackdoll` | its instances for TLC |
| `GuestPaging` | janus, `guest/memory.c` and `guest/main.c` on a processor with a TLB; uses the words and the page walk of `KernelMemory` |
| `GuestPagingProofs` | theorems about `GuestPaging` |
| `GuestState` | janus, `monitor/state.c` as operators on a virtual processor |
| `Intercept` | janus, `monitor/intercept.c` with the protection of the low memory, running `entry.S` or any guest made of code like it |
| `InterceptProofs` | theorems about `Intercept` |
| `ThreadList` | `TP_GC_NMV/gc.c`: the circular list of threads as operators |
| `GcHeap` | `TP_GC_NMV/alloc.c`: zones, free lists and the page table as operators on a heap |
| `Gc`, `MCGc` | mutator threads on both, and their instances |
| `GcProofs` | theorems about `Gc` |
| `Paper` | the abstract promise of a console: an endless sheet |
| `Console` | `kernel/vga.c` of rackdoll and `guest/vga.c` of janus (the same file) |
| `Printk` | `kernel/printk.c` and `guest/printk.c` (the same file) |
| `ConsoleProofs` | theorems about `Console` and `Printk` |
| `TaskSearch` | rackdoll, `load_tasks` and `parse_task` |
| `KernelLoader` | janus, `monitor/multiboot2.c` as `main` calls it |
| `Hashmap` | `TP_GC_NMV/main.c`: the hash map and the string buffer |
| `SequentialProofs` | theorems about `TaskSearch`, `KernelLoader` and `Hashmap` |
| `MCSequential` | `Console`, `Printk`, `TaskSearch`, `KernelLoader` and `Hashmap`, one at a time, for TLC |

### TaskFifo

The variables `fifo`, `fifo_size`, `fifo_run` and `save` are those of `task.c`.
`regs` is the context the trap code restores when it returns, `cr3` the page table
in use. A context holds the flow of control it belongs to (a name given when a
task is loaded or forked), a program counter and `rax`; a page table is the rank of
the module it was built for. `parsed` is the progress of `load_tasks` through the
modules, of which `Modules` says whether they hold, or may hold, a header; `mode` is boot, user
or done. `Next` has `ParseTask`, `LoadDone`, `EnterTasks`, `NothingToRun`, `Yield`,
`Exit`, `Fork`, and `Compute` for a user program that works. `Fork` follows the
code: `fork_task` copies the current task and calls `duplicate_task`, which calls
`fork_task` on the copy, so one call fills the fifo.

Bounds: `MaxPc` bounds how far a program counter is told apart, `MaxFlow` the flows
ever created, hence the forks.

### KernelMemory and Rackdoll

The machine's memory is `[bits, ram, alive]`: the pool's bitset, the words of every
physical page, and whether the kernel still runs. Functions of `memory.c` are
operators from a memory to a memory, since handlers combine several calls in one
step. A word is an integer with the P, W and U bits and a page number, so a page
of data used as a table is read as the MMU would read it; the other flags are left
out (G, PCD and PWT do not change what is reachable; PS is set on one entry, which
the model keeps away from user accesses through its missing U bit). `map_page`
takes what is in a new table as it is; a last-level entry that is not present
makes it zero the page its stale content points to. The variable `*cadre` of `mmap`
and `load_task` is never initialised: with the flags of the Makefile gcc uses
physical address 0 for it, which the model does too (`Keep`).

`Rackdoll` runs the actions of `TaskFifo` on that memory. `root` gives the page
table of each module's task. `ParseTask` also loads the task, `EnterTasks`, `Yield`
and `Exit` load CR3 and flush the TLB, `Fault` is `pgfault`, `SysMmap` and `SysMunmap`
the system calls. `Read` and `Write` are user instructions. The TLB holds one
translation at a time: a property about a cached page is broken by the behaviour in
which that page was the last one read. `pending` follows the program's contract
visible in `task/sieve.c` (`realloc_array`): a page is unmapped to be mapped again
at once. A task that unmaps and does not map again, as `adversary.c` does, is
the subject of a violation run.

### GuestPaging

`mem` is a memory of `KernelMemory`, with the guest's own `alloc_page`, `free_page`,
`map_page` and `unmap_page`. `do_stuff` is the program: the calls and the accesses of the four
scenarios of `main.c` in their order, `pc` where it is, `pa` the physical addresses
in the variables of `main.c`, `printed[k]` what the read at position `k` returned. There is one action per kind of
call (`CallMmap` to `CallFree`) and per access (`Read`, `Write`, `Fill`); an access to an
absent page is a `PageFault`, which runs `pgfault` and tries again. `tlb` is the set of
cached translations: an access may fill it, `Evict` empties it at any moment, and
`unmap_page` removes the one `invlpg` really names, which is a page of the stack.

### GuestState and Intercept

`g` is `guest_state`; the calls of `state.c` are operators from a processor to a processor,
and a handler combines them. A fault does not end the call that raises it, as in the
code: the state changes and the interrupt is pending. `rip` is a piece of code and a position
in it, `acc` the register flags are computed in, `stack` the guest's stack, `prot` and `maps`
the protections and what `protect_low_memory` recorded. There is one action per emulated
instruction, each with the whole of `handler()`: unprotect, emulate, deliver one
interrupt, protect. `GuestStep` is what the guest executes without the monitor.
`program` chooses between `entry.S`, followed by the first store of `main_multiboot2`, and
any order of small pieces of code like those of `entry.S` (tables right and wrong,
flags set and cleared, segments, an IDT, accesses to memory, unknown instructions), in 32
bits and in 64. The control registers are only emulated, so a guest whose fault finds an IDT goes on
with what it cleared: in 64 bits it can run without PAE, since `mov_to_cr4` (state.c:155-158) writes CR4 after its fault,
or without PG or LME. `LongModeEntered` is about the way in. Only vector 13 is ever raised; what `trap.pl`
(line 10) and `branch_interrupt` (intercept.c:397-413) do of the vectors 9 and 16, on whose error code
they disagree, never happens.

### GcHeap, ThreadList and Gc

A heap is `[desc, ram, ...]`: the descriptor of each page, the words of memory, and the free
list and current zone of each class. Sizes are in bytes, and choose the class (`Class`) as they do in the code, before the
header and the rounding are added; addresses and the room of an object (`total_size`) are in words of 4 bytes. The chain
pointer of a freed object takes the two words after its header (`Chain`). `allocate_internal` up to the unlock is one action
(`Allocate`), since it holds the mutex; the update of the statistics after it is a load
(`LoadStatistics`) and a store, and the header is written last (`Return`). `DoWriteRef` is a
barrier on a pointer into an object, `Attach` and `Detach` the list. `Free` is
`pre_free`, called while no thread is in the mutex.

### Console, Printk, TaskSearch, KernelLoader and Hashmap

These run alone. `Console` prints a string one character at a time; `gone` is a history
variable with the rows scrolled away, so that `gone` and the screen are the sheet of
`Paper`. `Printk` takes formats as sequences of items already read (a character or a conversion
with its fields and its argument) and gives the characters to `snprintk`'s handler one
by one. `TaskSearch` takes one tag per step; a module is searched by words of 8 bytes. Where the
tags are is data, the loader's: `TagsFollow` says what a boot loader lays out.
`TaskAt` says what the scan makes of a module: the task at its first header, none, or, when there is no
header and the length is no multiple of 8, a task of whatever follows its end.
`KernelLoader` follows `parse`, `extract` and `load` on files with decoys of the magic number
before the header and tags of odd sizes; `TagsLaidOut` and `HeaderInImage` say what `entry.S` and
the linker lay out. The monitor walks the header in a buffer that holds the first `SEARCH_ZONE_LEN` bytes of
the file and never checks that what it looks at was read: a word past those bytes (`WasRead`) may hold anything
(`AnyTag`, `AnyLength`), or fault. `load` copies and clears only in the mapped memory (`PHYSICAL_MEMORY`), and
an unsigned length of bss wraps when `bss_end_addr` is below `load_end_addr`. `Hashmap` follows the pointers: `walk` holds the
locations of the recursive calls of `hashmap_apply` in progress, while `hash` changes the
links those calls follow; the elements of a chain are the least set that has its first one and
is closed by the links (`Members`).

## Runs

| run | instance | what it checks |
|---|---|---|
| `task_fifo` | 4 modules, each with or without a task header, 3 slots | `TypeOK`, `CurrentIsRunning`, `NoFlowTwice`, `KernelResumes`, the refinement `KeepsPromise`, liveness `NobodyStarves` and `SaysGoodbye` |
| `task_fork` | 1 module, 4 slots | `ForkAddsOneTask` is violated |
| `rackdoll` | 0 to 2 tasks, 2 slots, pool of 21 pages, tables of 3 entries | `TypeOK`, `OneOwnerPerFrame`, `FreeFramesClean`, `TlbCoherent`, `KernelStaysUp`, the refinement `PrivateMemory` |
| `rackdoll_munmap` | 1 task, 1 heap page | `MunmapRemovesMapping` is violated |
| `rackdoll_pgfault` | 1 task that touches an unmapped heap page | `OnlyStackFaultsServed` is violated |
| `rackdoll_bss` | adversary's image: 2 pages of bss | `BssFramesAllocated` is violated |
| `guest_paging` | the whole of `do_stuff`, pool of 7 pages of 11, tables of 5 entries | `TypeOK`, `TablesSeparate`, `PoolAccounted`, `KernelStaysUp`, `FreshAndShared`, liveness `SaysGoodbye` |
| `guest_invlpg` | the same | `PrintsFollowTables` is violated |
| `intercept` | `entry.S`, and any guest | `TypeOK`, `NothingPending`, `MonitorGuarded`, the action properties `LongModeEntered` and `InterruptsReturn`, liveness `EntersMain` |
| `gc` | 2 threads, 4 sizes, 4 allocations, 2 frees | `TypeOK`, `ObjectsDisjoint`, `InteriorFound`, `FreedForgotten`, `ReturnedZeroed`, `NeverOvercounted`, `ThreadsListed`, the action property `ContentsKept` |
| `gc_barrier` | the same with 3 sizes, zones at another address | `BarrierHolds` is violated |
| `sequential` | the five parts that run alone | `BoundedPrint`, `ConversionsReadBack`, `NoElementLost`, `AppendFits`, `TasksFound`, `LoadedInPlace`, the refinement `PrintsOnPaper` |

*Why the bounds are enough.* In `task_fifo` three slots give a first, a middle and a
last one, the cases `exit_task` and `next_task` tell apart; four modules let
one be refused by a full fifo, and none of them be a task. In `rackdoll`, two tasks are
enough for one to disturb another; tables of three entries leave room for the
kernel's entry, the task's and the stack's, with tables shared and not shared
between pages; every table and frame the two tasks can need fits the pool, so what
an empty pool does is not part of this run; a fork happens when one task is loaded. Each image has at most one page of bss,
since the second page of a bss is mapped on a free frame (`rackdoll_bss`), after
which no property of frames holds; page 0 (a null pointer) is the stray
access that ends a task.

`guest_paging` runs the program of `main.c` itself, so only the processor's cache is free; five
entries keep apart the indexes its four addresses use. In `intercept` each piece of
code sets, clears or misuses one thing, in either mode. The stack of interrupts is as deep as the
pieces allow: a fault without an IDT goes to address 0 and ends the run.
In `gc` a page has 16 words and a zone at least 2 objects, so zones of one and
of two pages, a large object, a full zone and a page that is given back all happen within
4 pages; the two threads are symmetric. Objects of 16 and 19 bytes share a class, and their elements are of 24 both, so
that a freed one comes back as the other. The addresses start at 39 * 1024 with 1024 as the
width of a pointer's low half: with these `toHeader` is right for the sizes of the run, and
`gc_barrier` moves the start to 1024, where it is not. In `sequential` the screen has 2 lines of
16 columns (with 8, no multiple of it above, a tab would pass a whole line) and 5
strings are enough to fill and scroll it; an int has 4 bits; a new map has 1 bucket instead
of 3, so that 6 insertions in any order rehash twice; the buffer keeps 4 characters free instead of 64,
exactly what a value of two digits needs; three tags, two slots; a search zone of
96 bytes and files of 78 and 120, with headers inside them and across either end, and a bss that fits, ends below the
image or ends past the memory.

*Findings.* In rackdoll, `munmap` never clears the entry (memory.c:256); `pgfault` serves the heap as
it does the stack (281); `load_task` maps the second page of a bss on a frame it did
not allocate (197); one fork fills the fifo (task.c:255). `PrivateMemory` holds
nevertheless for the programs of the contract, because first-fit gives the page just
freed back to the `mmap` that follows, and a page that was never allocated is zero.
In the guest of janus, `invlpg` names the address of its argument (x86.h:96), and
`do_zero_copy` can read at `LOW_1` (main.c:89) the page `do_double_map` unmapped there (main.c:68). In the allocator, `toHeader` (alloc.c:284) subtracts
32 bits of an address from 64, so the barrier's assertion fails for most places the
kernel may give.

*Fairness.* `FairSpec` of `TaskFifo` assumes that the kernel's own code runs to its end
(`WF_vars(Boot)`) and that a running program keeps giving the processor back, by a
yield or by its end (`WF_vars(Yield \/ Exit)`): nothing preempts a program, and every
program of `task/` does yield or end. `SaysGoodbye` assumes in its statement that
programs end. A task that forks and ends in one slot for ever would starve the
others even so; `MaxFlow` excludes it. `GuestPaging` assumes `WF_vars(Step)` and `Intercept`
`WF_vars(Boot \/ Trap \/ GuestStep)`: a processor that runs goes on with its only
program. The evictions of the TLB are not fair, so they may happen or not.

## Proofs

A theorem holds for every value of the constants that the named assumptions of the modules
allow; a hypothesis it needs besides is in its statement (`ASSUME ... PROVE`).

| module | theorems | hypotheses besides the modules' assumptions |
|---|---|---|
| `TaskFifoProofs` | `TypeCorrect`, `CurrentCorrect`, `FlowsDistinct`, `KernelComesBack`, `PromiseKept` (refinement of `Coroutines`) | none |
| `KernelMemoryProofs` | `MmapTree`, `LoadTree` | a page is left in the pool |
| `RackdollProofs` | `ImplementsTaskFifo`; `TypeCorrect`, `OneOwnerAlways`, `FreeFramesAlwaysClean`, `TlbAlwaysCoherent`, `KernelAlwaysUp`, `MemoryIsPrivate` (refinement of `AddressSpaces`) | the first: none; the others: `OneBssPage`, `[]PoolSuffices` |
| `InterceptProofs` | `Guarded`, `Delivered`, `TypeCorrect`, `LongModeAlwaysEntered`, `InterruptsAlwaysReturn` | none |
| `GuestPagingProofs` | `GuestTypes`, `GuestTablesSeparate`, `GuestPoolAccounted`, `GuestStaysUp`, `GuestPrints` | none |
| `GcProofs` | `OvercountedNever`, `ListWhole`; `TypeCorrect`, `ObjectsAlwaysDisjoint`, `InteriorAlwaysFound`, `FreedAlwaysForgotten`, `ReturnedAlwaysZeroed`, `ContentsAlwaysKept`, `BarrierAlwaysHolds` | the first two: none; the others: `HighDivides`, `SizesServed`; the last also `0 \notin Sizes` |
| `ConsoleProofs` | `WindowOnPaper` (refinement of `Paper`), `PrintStaysInBuffer` | none |
| `SequentialProofs` | `SearchFindsTasks`, `KernelLoadedInPlace`, `RehashLosesNothing`, `StringsFit` | none |

### The task fifo

`TaskFifoProofs` rests on one inductive invariant, `IInv`. The properties alone are not
inductive: that a fork leaves flows distinct needs every name in use to be at most
`flows` (`FlowsCreated`), and that the kernel's registers come back needs `save` to
hold them from the entry of the tasks on (`KernelSaved`). There is one lemma per action, and
the lemma `SuccessorQueued` gives the fact all of them use: the slot `next_task`
chooses is in the queue.

`PromiseKept` maps the fifo to `Coroutines`: a process per flow that is queued. The
effect of a handler is plain slot by slot and the promise speaks of flows, so `ProcBySlot`
states the mapping by slots and `NoFlowTwice` goes from a slot to its flow and back. Each handler is one
step of `Coroutines` or a stutter; `exit_task`, which moves the last task into
the slot of the one that ends, is the case where a flow changes its slot.

### The memory of rackdoll

`KernelMemoryProofs` is about operators: what a call does to a memory in which the roots lead to
a tree. `Tree` gives each used page of the pool a kind (the level of the table it is, or a
frame) and a parent, the one entry that refers to it; an entry is 0 or well formed for
the kind of its table; the pages not used are zero and come after the used ones. The kinds are needed
because `map_page` uses a fresh page as it comes: that its words are entries is a fact about who wrote it.
The parents are what makes a frame private. `MmapTree` says that `mmap` of a page that
is not mapped adds a zeroed frame and the tables of its walk, and changes no other translation;
`LoadTree` says the same of `load_task`, with its image. The recursion over the pages
of the payload is a recursive function, and the lemma that its steps keep the tree takes the least index that
would not (`WFMin`).

`RackdollProofs` first shows that the kernel with its memory implements the fifo
(`ImplementsTaskFifo`), so `IInv` of the fifo is available. `RInv` adds: the built tasks have roots of their own (`TasksBuilt`);
the TLB agrees with the tables but for the page `munmap` took away, which it does not hold (`MmuKept`);
the roots lead to a tree whose pages are the allocated ones, and the one `munmap` gave
back (`FramesKept`: `munmap` leaves the entry, so that page keeps its place in the tree until `mmap`
takes it again); what a task reaches outside the pool is its payload (`PayloadPlaces`),
which nobody writes before the task is loaded (`PayloadKept`). The last two are needed by `MemoryIsPrivate` alone.

Its hypotheses are about the program's known limits. `OneBssPage`: the second page of a bss is mapped on a frame
nobody allocated, which the run `rackdoll_bss` shows. `[]PoolSuffices`: `Free(mem)` is never
empty, since `alloc_page` answers an empty pool with page 0 and nothing says what should
happen then; it asks for one page more than the tasks use. It holds in all states of the run `rackdoll`. `RackdollAssumption`
has the images and the heaps apart, which `MCHeapAfterBss` of `MCRackdoll` shows of the instances.

### The guest of janus

The program of `GuestPaging` is fixed, the machine is not: `GuestPagingAssumption` asks only that the pool be above
the tables of `entry.S`, and that it have five pages and a table five entries, which is what `main.c` uses
of the 64 and the 512 there are. The theorems hold for any such pool and for any choice of the processor's cache.

None of the six invariants is inductive: that no frame is a table says nothing of where the next
`alloc_page` will look. `Inv` follows `do_stuff`: `Stage(k, m, high, late)` says what the memory is before position `k`,
as the set of allocated pages (`Held`), the frame of each address (`FrameAt`) and the word at the beginning of each frame
(`Words`); `high` and `late` tell whether the two addresses at 4 GiB have been touched, since a read that finds its
translation in the cache does not fault. `Laid` is what the tables are: one page of the pool for the low addresses,
two for the high ones. One group of lemmas says what each function of `memory.c` does to tables `Laid` that way
(`MapLaid`, `MapFirstLow`, `UnmapLaid`, `FreeLaid`, ...), another that each call leads to the `Stage` of the next position.

`FreshAndShared` needs besides that the cache never holds more than a frame the address had, and only the present one at the
positions the property speaks of (`Cached`), that `pa0` and `pa1` are the frames `alloc_page` gave (`Variables`), and that
only the reads before `pc` have been printed (`ReadsBefore`). The reads at positions 25, 30 and 37 are left out: there the
cached frame may be the one before, which is the finding of `guest_invlpg`.

### The monitor

`InterceptProofs` has two invariants. `IInv` is about the monitor: what the protections are
before the boot, and that the processor has no reason to stop (`Quiet`). The lemma
`CallsEmulated` says once what every call of `state.c` leaves: at most one pending
fault; `HandlerKeeps` is the end of `handler()` after any such call.

`GInv` is about the guest. `LongModeEntered` does not follow from the far jump's own tests, which never
look at PAE, and a call goes on after its fault: setting PG without PAE does activate long mode, and clearing
PAE later does clear it. `Lands` says what saves it: a call leaves a `Sound` processor (in 32 bits, no IDT, and LMA
only with PAE), or one with a fault and no IDT, and then the guest is at address 0. Nothing is asked of what
the guest writes to CR0, CR4 and EFER (`ControlLands`, `EferLands`). Once in 64 bits the argument ends, as the
guarantee does: there the guest may have an IDT. `InHandler` describes the frame on the stack and is what
`InterruptsAlwaysReturn` needs.

### The garbage collector

`GcProofs` has an invariant for each piece of state. The circular list has an order, a
function from `0 .. n` onto its descriptors (`Ring`): attaching adds an index, detaching removes
one, and `ListWhole` follows for any number of threads. `Counted` relates `nb_allocated`, what
each thread has read of it and how many threads are past the unlock: an update that
is lost is never one too many. Neither uses an assumption.

`HeapInv` cuts the heap into zones `Z`, each with its size and its bounds, aligned elements
and pages of its own (an object of another size of the class, `Kin`, fills an element just as well); the live objects, those being returned (`Taken`) and the freed ones `F` are
elements of zones, no two in the same element, and the free lists go through `F` without meeting an object twice.
`Taken` is needed because an object belongs to nobody in the state between the unlock and the return. The lists and the descriptors are enough
for `ObjectsAlwaysDisjoint`, `ReturnedAlwaysZeroed` and `ContentsAlwaysKept` within a step; `toHeader` is what frees and the barrier go through,
and that is where arithmetic comes in.

`HighDivides` says that the size of each element, its header included, divides `High`, the high half of the
addresses in use, which `toHeader` loses (alloc.c:284). An element whose size is a power of two always does; one of
24 bytes does when the kernel puts the mappings at a high half that is a multiple of 3. It holds in the instance of `gc` and not in
that of `gc_barrier`, which is the finding. `SizesServed` excludes two kinds of programs. One asks for sizes of one class that do
not take the same room: `allocate_internal` chooses the class by the size without header and rounding (alloc.c:169), so that objects of 20 and
of 21 bytes, which take 24 and 32, are cut from one zone and go to one free list. `toHeader` then divides by the wrong size,
and a freed object of 20 bytes given out for 21 runs over the next. The other asks for 1 to 4 bytes: such an element has 8, the header and one word, and the chain pointer of a freed
object goes over the header of the next. `BarrierAlwaysHolds` needs besides that no object is of 0 bytes: `toHeader` finds none of
those, whose room is for the free list alone, so that a barrier on one stops the program and `pre_free` of one ends in its error. Under these
hypotheses the assertion of `_writeBarrier` never fails. Freeing goes through `toHeader` as well, so the other theorems on the heap need the first two.

### The console

`WindowOnPaper` is proved for every screen whose width is a multiple of 8 greater than 8, every
alphabet and all texts over it (`ConsoleAssumption`).
`ScrollKeeps` is the heart of it: the row that scrolls away and the rows that move up are at the
same places of the sheet as before. `PutcFacts` states both ends of `putc` in terms of the
sheet, and `PutcRefines` has one case per kind of character. The invariant `CInv` is needed
because `putc` counts columns from the top of the screen and the sheet from its own: they agree
only as long as whole rows have scrolled away, and a tab stop of one is a tab stop of the other
only because the width is a multiple of 8.

`PrintStaysInBuffer` is about `snprintk`, for every format made of items of the right types
(`PrintkAssumption`, which also says that `2 ^ Width` is positive: the provers have no fact about powers).
`PrintkInv` counts: what the items begun print (`Prints`) is what the buffer has and what is still given, until
the handler refuses a character, after which the buffer is full and there is more to print.
Two recursions are in the way, `number_length` for the length of a number and `FlattenSeq` for the whole
of what is printed. `CountsUpTo` and `JoinedExists` show that a function which satisfies each of them exists,
`CountsAgree` and `Flattened` that it is the only one.

### Searching and loading

The first half of `SequentialProofs` is about the two programs that walk over tags somebody else laid out.
Their assumptions (`TaskSearchAssumption`, `KernelLoaderAssumption`) describe the layout alone: tags on multiples of
8, each after the end of the one before; a header inside the image its own address tag
describes; the address tag and the entry tag that `entry.S` has. No number of tags, size, place of a header or
decoy is fixed, nor are the contents of the memory past what was read.

`SearchInv` says that `ptr` is at the first tag not met (`Offset`), which takes the rounding of `load_tasks` for
the layout's (`Aligned`), and that the tasks made have a place: an increasing map from tasks to the tags whose modules hold
a header or have a length that is no multiple of 8 (`Making`), which misses a tag only when the fifo is full. `ScanStopIs` shows that a scan has one stop,
`ScanFinds` and `ScanEnds` which one.

`LoaderInv` has two parts. `HeaderSought` holds of every file: no header read whole is passed, and none but the right one
is taken before the last 16 bytes read. `ReadInv` is for files whose header and tags are all among the bytes read
(`HeaderRead`), where the rest is determined: `extract` is at a tag
and what the tags before it say is in `info` (`Known`), or past the header; `load` copies by the address tag.
`KernelLoadedInPlace` follows with what makes a load fail (a file shorter than its image, or a memory) and
fault (a bss that ends below the image or past the memory). Of a header that is not all among the bytes read it says only where
it is taken: the code then copies by addresses nobody wrote.

### The hash map

A rehash lends the array of `hm` to the helper and lets `recurse_apply` follow links that `hash`
overwrites, so the chains of the helper are broken while they are walked. `HashInv` says what
keeps the walk right: there is a set `L`, what it has still to do with, and a rank for
each element, such that `hm` holds the elements inserted but not in `L`, each in the chain of its own bucket
(`Holds`, `Chained`: the ranks increase along the links, so that a chain has an end and no cycle); and `Walking`:
the calls in progress have elements of one bucket of increasing ranks, the element of the last call down begins what is left of
the chain, and on the way up they are all that `L` has in this bucket (`CallsHaveAll`).

`ApplyKeeps` is the heart of the argument: of the links of `L`, the only one that `hash` changes is that of the element
it moves, which is then in `L` no more. `Linking` says that appending at the null pointer that ends a chain
makes the same chain with one element more, and leaves the others. The count of a rehash is at
most twice the helper's buckets plus one, and the new array has twice the buckets of the helper, so no
rehash begins in another. `BufferKept` gives the string buffer the room of one more value
(`HashmapAssumption`: a value, its blank and the final zero fit in it).

### What is model-checked only

- Liveness (`NobodyStarves`, `SaysGoodbye`, `EntersMain`): out of the prover's reach.
- `ConversionsReadBack`: what a conversion reads back to takes powers of its base, of which the provers know
  nothing but that they are integers.
- The library's induction theorems take an operator as a
  parameter, which no installed prover can instantiate; where a proof needed an induction (the walk around the list
  of threads, the free lists, the pages of a payload, the end of a chain, the recursion of `number_length`) it takes the least counterexample instead: the lemmas
  `Lowest` and `Least`, from the theorem `WFMin` on sets.
- Properties of violation runs, but for `BarrierHolds`, proved under the conditions that make it true.

## Not modelled

- `xed` is a third-party decoder: 19500 lines of headers, three quarters of the implementation
  by lines, of which the monitor uses the name of the instruction. The model takes it as decoded.
- `monitor/shadow.c` holds stubs; the page allocator and the physical accesses of
  `monitor/memory.c`, the VGA buffer of `state.c` and `vector.h` are there for it and have no caller.
- `duplicate_task` of the guest has no caller and no value for its argument.
- The collector, `handShake` and the rest of `gc.c` are left to be written in the source.
- `tp-2/hwdetect` times caches; `foo.c` and `trash.c` of rackdoll are in no build.
- The reading of format strings, of `/proc/self/maps`, and the assembly that saves registers
  in rackdoll are abstracted into the values they produce.
- An empty page pool in rackdoll: `alloc_page` returns page 0 and every property of frames
  is lost; nothing in the repository says what should happen.

## Plan

1. `ConversionsReadBack` as a theorem, with powers written as products so that a prover can
   follow them.
