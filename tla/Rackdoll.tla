------------------------------- MODULE Rackdoll -------------------------------
(***************************************************************************)
(* The kernel of tp-1/rackdoll: the task fifo of TaskFifo running on the   *)
(* memory of KernelMemory, with the MMU, its TLB and user programs that    *)
(* touch their pages.  Handlers are entered by a system call or a page     *)
(* fault and are not preempted, so each is one step.                       *)
(*                                                                         *)
(* The programs follow the contract the memory model states (kernel/       *)
(* memory.c:66-104): they map heap pages explicitly before they use them,  *)
(* never map a page twice, and unmap as task/sieve.c does (realloc_array:  *)
(* a page is unmapped to be mapped again at once).                         *)
(***************************************************************************)
EXTENDS KernelMemory

CONSTANTS
  TASK_FIFO_LEN, Modules, MaxPc, MaxFlow,     (* as in TaskFifo            *)
  Images,      (* rank of a module -> its image [page, payload, bss]       *)
  Stack,       (* the stack pages programs touch                           *)
  Heap,        (* rank of a module -> the heap pages its program maps      *)
  Strays,      (* pages a program touches though it never mapped them      *)
  Values       (* what programs write: integers below PAGE_SIZE            *)

VARIABLES
  fifo, fifo_size, fifo_run, save, regs, cr3, mode, parsed, flows,
  mem,         (* the machine's memory                                     *)
  root,        (* rank of a module -> the pgt of its task                  *)
  tlb,         (* a cached translation: virtual page -> page               *)
  pending      (* the page the running program unmapped to map it again    *)

Sched == INSTANCE TaskFifo

fifoVars == <<fifo, fifo_size, fifo_run, save, regs, cr3, mode, parsed, flows>>
memVars == <<mem, root, tlb, pending>>
vars == <<fifoVars, memVars>>

Ranks == 1 .. Len(Modules)
Payload(s) == {Text(k) : k \in 0 .. Images[s].payload - 1}
Bss(s) == {Text(Images[s].payload + k) : k \in 0 .. Images[s].bss - 1}
Loaded(s) == Payload(s) \cup Bss(s)
VPages == Stack \cup Strays \cup UNION {Heap[s] \cup Loaded(s) : s \in Ranks}
None == << >>

(* cr2 > 0x40000000 && cr2 < 0x7fffffffffff: past the kernel's first GiB.  *)
UserAddress(v) == v[1] > 0 \/ v[2] > 0

(* The images lie in the RAM after the pool, apart from each other; the    *)
(* virtual pages named are those of a table's indexes; a program maps and  *)
(* unmaps pages of the user outside its image.                             *)
ASSUME RackdollAssumption ==
  /\ TASK_FIFO_LEN \in Nat \ {0} /\ MaxPc \in Nat /\ MaxFlow \in Nat
  /\ Modules \in Seq((SUBSET BOOLEAN) \ {{}})
  /\ Values \subseteq 1 .. PAGE_SIZE - 1
  /\ \A s \in Ranks :
       /\ Images[s].page \in Nat /\ Images[s].payload \in Nat /\ Images[s].bss \in Nat
       /\ Images[s].page > FirstPool + PHYSICAL_POOL_PAGES - 1
       /\ Images[s].page + Images[s].payload - 1 <= LastPage
  /\ \A s, t \in Ranks : s # t =>
       \A j \in 0 .. Images[s].payload - 1, k \in 0 .. Images[t].payload - 1 :
         Images[s].page + j # Images[t].page + k
  /\ VPages \subseteq Indexes \X Indexes \X Indexes \X Indexes
  /\ \A s \in Ranks : /\ \A v \in Stack \cup Heap[s] : UserAddress(v)
                      /\ Heap[s] \cap Loaded(s) = {}

TypeOK ==
  /\ mem \in Memory
  /\ root \in [Ranks -> Pages]
  /\ DOMAIN tlb \subseteq VPages /\ \A v \in DOMAIN tlb : tlb[v] \in Pages
  /\ pending \in VPages \cup {None}

(* The loader put each payload in its pages; the pool is in the kernel's   *)
(* bss, which it cleared.                                                  *)
PayloadContent == Filled(PAGE_SIZE - 1)
Init ==
  /\ Sched!Init
  /\ mem = [bits |-> {},
            ram |-> [p \in Pages |-> IF p < FirstPool + PHYSICAL_POOL_PAGES
                                       THEN ZeroContent ELSE PayloadContent],
            alive |-> TRUE]
  /\ root = [s \in Ranks |-> 0]
  /\ tlb = << >>
  /\ pending = None
-------------------------------------------------------------------------------
Pgt == root[cr3]                    (* fifo[fifo_run].pgt, in CR3 *)
Running == mode = "user" /\ mem.alive
FlushTlb == tlb' = << >>            (* loading CR3; user pages are not global *)
Uncache(v) == tlb' = [u \in DOMAIN tlb \ {v} |-> tlb[u]]

(* parse_task, with load_task when it takes the module. *)
ParseTask ==
  /\ mem.alive
  /\ Sched!ParseTask
  /\ IF fifo_size' = fifo_size
       THEN UNCHANGED <<mem, root>>
       ELSE LET l == LoadTask(mem, Images[parsed'])
            IN mem' = l.mem /\ root' = [root EXCEPT ![parsed'] = l.page]
  /\ UNCHANGED <<tlb, pending>>

LoadDone == Sched!LoadDone /\ UNCHANGED memVars
NothingToRun == Sched!NothingToRun /\ UNCHANGED memVars

EnterTasks ==
  /\ mem.alive
  /\ Sched!EnterTasks
  /\ FlushTlb
  /\ UNCHANGED <<mem, root, pending>>

\* Mutant of Yield: set_task changes the table without flushing the TLB.
YieldUnflushed ==
  /\ Running /\ pending = None
  /\ Sched!Yield
  /\ UNCHANGED memVars

Yield ==
  /\ Running /\ pending = None
  /\ Sched!Yield
  /\ FlushTlb
  /\ UNCHANGED <<mem, root, pending>>

(* exit_task gives nothing back: the frames and tables of the task that    *)
(* ends stay allocated.  The last one leaves its page table in CR3.        *)
Leave ==
  /\ Sched!Exit
  /\ IF mode' = "user" THEN FlushTlb ELSE UNCHANGED tlb
  /\ UNCHANGED <<mem, root, pending>>

Exit == Running /\ pending = None /\ Leave

Fork ==
  /\ Running /\ pending = None
  /\ Sched!Fork
  /\ UNCHANGED memVars
-------------------------------------------------------------------------------
(* A user instruction touches v: the translation is the cached one, or the *)
(* one of the page table, which a read leaves in the TLB.  The TLB holds   *)
(* one translation: whatever page is found stale was the last one cached   *)
(* in some behaviour.                                                      *)
Reached(v) == IF v \in DOMAIN tlb THEN tlb[v] ELSE Translate(mem, Pgt, v)

(* What a program may touch: its own image, its stack, what it mapped.     *)
Touch(v) ==
  /\ Running /\ pending = None
  /\ v \in Loaded(cr3) \cup Stack \cup Heap[cr3]
  /\ Reached(v) # NoPage

Read(v) ==
  /\ Touch(v)
  /\ tlb' = [u \in {v} |-> Reached(v)]
  /\ UNCHANGED <<fifoVars, mem, root, pending>>

Write(v, val) ==
  /\ Touch(v)
  /\ mem' = [mem EXCEPT !.ram[Reached(v)] = Filled(val)]
  /\ UNCHANGED <<fifoVars, root, tlb, pending>>

(* pgfault: a page of the user's addresses is mapped and the instruction   *)
(* starts again; anything else ends the task.                              *)
Fault(v) ==
  /\ Running /\ pending = None
  /\ Reached(v) = NoPage
  /\ IF UserAddress(v)
       THEN /\ mem' = Mmap(mem, Pgt, v)
            /\ UNCHANGED <<fifoVars, root, tlb, pending>>
       ELSE Leave

(* SYSCALL_MMAP of a page the program has not mapped, or has just unmapped.*)
SysMmap(v) ==
  /\ Running /\ v \in Heap[cr3]
  /\ IF pending = None THEN Translate(mem, Pgt, v) = NoPage ELSE v = pending
  /\ mem' = Mmap(mem, Pgt, v)
  /\ pending' = None
  /\ UNCHANGED <<fifoVars, root, tlb>>

(* SYSCALL_MUNMAP of a page the program has mapped. *)
SysMunmap(v) ==
  /\ Running /\ pending = None /\ v \in Heap[cr3]
  /\ Translate(mem, Pgt, v) # NoPage
  /\ mem' = Munmap(mem, Pgt, v)
  /\ Uncache(v)
  /\ pending' = v
  /\ UNCHANGED <<fifoVars, root>>

(* The processor is halted: after the goodbye, or by die(). *)
Halted == (mode = "done" \/ ~mem.alive) /\ UNCHANGED vars

Next ==
  \/ ParseTask \/ LoadDone \/ NothingToRun \/ EnterTasks
  \/ Yield \/ Exit \/ Fork
  \/ \E v \in VPages : Read(v)
  \/ \E v \in VPages, val \in Values : Write(v, val)
  \/ \E v \in Stack \cup Strays : Fault(v)
  \/ \E v \in VPages : SysMmap(v) \/ SysMunmap(v)
  \/ Halted

Spec == Init /\ [][Next]_vars
===============================================================================
