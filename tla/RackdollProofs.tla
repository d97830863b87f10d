---------------------------- MODULE RackdollProofs ----------------------------
(***************************************************************************)
(* TLAPS proofs about Rackdoll, for every size of the pool, of the tables  *)
(* and of the fifo, and every list of modules whose bss fits one page, as  *)
(* long as the pool has a free page left (memory.c:41: alloc_page has no   *)
(* answer to an empty pool).                                               *)
(***************************************************************************)
EXTENDS RackdollProps, KernelMemoryProofs, FiniteSetTheorems

Fifo == INSTANCE TaskFifoProofs

(* What the theorems assume: the bss loop is right for one page (the run   *)
(* RackdollBss shows what it does with two), and a page is left to give.   *)
OneBssPage == \A s \in Ranks : Images[s].bss \in {0, 1}
PoolSuffices == Free(mem) # {}

Roots == {root[s] : s \in Built}

(* Each task has a root of its own, and the fifo holds built tasks only.   *)
TasksBuilt ==
  /\ root \in [Ranks -> Pages]
  /\ \A s \in Ranks : s > parsed => root[s] = 0
  /\ \A s, t \in Built : root[s] = root[t] => s = t
  /\ \A i \in 0 .. fifo_size - 1 : fifo[i].pgt \in Built

Booting == mode \in {"load", "ready"}

(* The TLB agrees with the table in CR3, but for the page that munmap took *)
(* away, which it does not hold; there is one only while a task runs.      *)
MmuKept ==
  /\ DOMAIN tlb \subseteq VPages \cap User
  /\ \A v \in DOMAIN tlb : tlb[v] \in Pages /\ tlb[v] = Translate(mem, Pgt, v)
  /\ Booting => tlb = << >>
  /\ mode # "user" => pending = None
  /\ pending # None => pending \in Heap[cr3] /\ pending \notin DOMAIN tlb

(* The roots lead to a tree, whose pages are the allocated ones and the    *)
(* one that munmap has given back and mmap will take again.                *)
FramesKept ==
  \E K, par :
    /\ Tree(mem, Roots, K, par, NoPage)
    /\ mem.bits = DOMAIN K \ {PendingPage}
    /\ pending # None => PendingPage \in DOMAIN K /\ K[PendingPage] = "frame"

(* What a task reaches is a page of the pool or a page of its payload.     *)
PayloadPlaces ==
  \A s \in Built, v \in User :
    LET q == Translate(mem, root[s], v)
    IN q # NoPage /\ q \notin Pool =>
         \E k \in 0 .. Images[s].payload - 1 : v = Text(k) /\ q = Images[s].page + k

(* The payload of a module that no task runs is as the loader put it.      *)
PayloadKept ==
  \A s \in Ranks \ Built : \A k \in 0 .. Images[s].payload - 1 :
    mem.ram[Images[s].page + k] = PayloadContent

RInv ==
  /\ TasksBuilt
  /\ MmuKept
  /\ FramesKept
  /\ PayloadPlaces
  /\ PayloadKept
  /\ mem.alive
-------------------------------------------------------------------------------
(* A virtual page is not the mark of no page. *)
LEMMA UserNotNone == \A v \in User : v # None
<1> SUFFICES ASSUME NEW v \in User PROVE v # None
  OBVIOUS
<1>1. v = <<v[1], v[2], v[3], v[4]>>
  BY DEF User, Virtual
<1>2. Len(<<v[1], v[2], v[3], v[4]>>) = 4 /\ Len(<< >>) = 0
  OBVIOUS
<1> QED
  BY <1>1, <1>2 DEF None

(* The constants of the fifo are as TaskFifo assumes.                      *)
LEMMA FifoConstants ==
  /\ TASK_FIFO_LEN \in Nat \ {0} /\ Modules \in Seq((SUBSET BOOLEAN) \ {{}})
  /\ MaxPc \in Nat /\ MaxFlow \in Nat
BY RackdollAssumption

(* Every step of the kernel is a step of the fifo, or leaves it alone.     *)
LEMMA SchedSteps ==
  /\ Sched!Init => Fifo!Init
  /\ Sched!ParseTask => Fifo!ParseTask
  /\ Sched!LoadDone => Fifo!LoadDone
  /\ Sched!NothingToRun => Fifo!NothingToRun
  /\ Sched!EnterTasks => Fifo!EnterTasks
  /\ Sched!Yield => Fifo!Yield
  /\ Sched!Exit => Fifo!Exit
  /\ Sched!Fork => Fifo!Fork
<1>1. Sched!Init => Fifo!Init
  BY DEF Sched!Init, Fifo!Init, Sched!ZeroTask, Fifo!ZeroTask, Sched!KernelContext,
         Fifo!KernelContext, Sched!KernelPgt, Fifo!KernelPgt, Sched!KernelFlow,
         Fifo!KernelFlow, Sched!Slots, Fifo!Slots
<1>2. Sched!ParseTask => Fifo!ParseTask
  BY DEF Sched!ParseTask, Fifo!ParseTask
<1>3. /\ Sched!LoadDone => Fifo!LoadDone
      /\ Sched!NothingToRun => Fifo!NothingToRun
  BY DEF Sched!LoadDone, Fifo!LoadDone, Sched!NothingToRun, Fifo!NothingToRun
<1>4. Sched!EnterTasks => Fifo!EnterTasks
  BY DEF Sched!EnterTasks, Fifo!EnterTasks, Sched!Successor, Fifo!Successor,
         Sched!Resume, Fifo!Resume
<1>5. Sched!Yield => Fifo!Yield
  BY DEF Sched!Yield, Fifo!Yield, Sched!Successor, Fifo!Successor, Sched!Resume,
         Fifo!Resume, Sched!Advanced, Fifo!Advanced, Sched!NextPc, Fifo!NextPc
<1>6. Sched!Exit => Fifo!Exit
  BY DEF Sched!Exit, Fifo!Exit, Sched!LeaveTask, Fifo!LeaveTask, Sched!Resume,
         Fifo!Resume
<1>7. Sched!Fork => Fifo!Fork
  BY DEF Sched!Fork, Fifo!Fork, Sched!ForkedTask, Fifo!ForkedTask, Sched!Advanced,
         Fifo!Advanced, Sched!NextPc, Fifo!NextPc, Sched!Slots, Fifo!Slots,
         Sched!Error, Fifo!Error
<1> QED
  BY <1>1, <1>2, <1>3, <1>4, <1>5, <1>6, <1>7

(* A step of the kernel is a step of the fifo, or none.                    *)
LEMMA NextSteps == [Next]_vars => [Fifo!Next]_Fifo!vars
<1> SUFFICES ASSUME [Next]_vars PROVE Fifo!Next \/ UNCHANGED fifoVars
  BY DEF Fifo!vars, fifoVars
<1>1. CASE ParseTask \/ LoadDone \/ NothingToRun \/ EnterTasks
  BY <1>1, SchedSteps DEF ParseTask, LoadDone, NothingToRun, EnterTasks, Fifo!Next,
                          Fifo!Boot
<1>2. CASE Yield \/ Exit \/ Fork
  BY <1>2, SchedSteps DEF Yield, Exit, Leave, Fork, Fifo!Next
<1>3. ASSUME NEW v, Read(v) \/ (\E val \in Values : Write(v, val))
                    \/ SysMmap(v) \/ SysMunmap(v)
      PROVE  UNCHANGED fifoVars
  BY <1>3 DEF Read, Write, SysMmap, SysMunmap, fifoVars
<1>4. ASSUME NEW v, Fault(v) PROVE Fifo!Next \/ UNCHANGED fifoVars
  BY <1>4, SchedSteps DEF Fault, Leave, Fifo!Next, fifoVars
<1>5. CASE Halted \/ UNCHANGED vars
  BY <1>5 DEF Halted, vars, fifoVars
<1> QED
  BY <1>1, <1>2, <1>3, <1>4, <1>5 DEF Next

(* Theorem: whatever the programs do to their memory, the kernel runs the  *)
(* fifo of TaskFifo: its theorems hold of the whole kernel.                *)
THEOREM ImplementsTaskFifo == Spec => Fifo!Spec
<1>1. Init => Fifo!Init
  BY SchedSteps DEF Init
<1> QED
  BY <1>1, NextSteps, PTL DEF Spec, Fifo!Spec

(* The invariant of the fifo holds of the whole kernel.                    *)
LEMMA FifoInvariant == Spec => []Fifo!IInv
BY ImplementsTaskFifo, FifoConstants, Fifo!Invariance, PTL
-------------------------------------------------------------------------------
(* The pages programs touch are pages of the user.                         *)
LEMMA UserPages ==
  /\ \A v \in VPages : UserAddress(v) => v \in User
  /\ \A s \in Ranks : /\ Loaded(s) \cup Heap[s] \cup Stack \subseteq User
                       /\ Loaded(s) \cup Heap[s] \cup Stack \subseteq VPages
                       /\ Heap[s] \cap Loaded(s) = {}
<1>1. VPages \subseteq Virtual
  BY RackdollAssumption DEF Virtual
<1>2. \A v \in VPages : UserAddress(v) => v \in User
  BY <1>1 DEF User, UserAddress
<1>3. \A s \in Ranks : Loaded(s) \cup Heap[s] \cup Stack \subseteq VPages
  BY DEF VPages
<1>4. \A s \in Ranks : \A v \in Loaded(s) : UserAddress(v)
  BY DEF Loaded, Payload, Bss, Text, UserAddress
<1>5. \A s \in Ranks : /\ \A v \in Stack \cup Heap[s] : UserAddress(v)
                       /\ Heap[s] \cap Loaded(s) = {}
  BY RackdollAssumption
<1> QED
  BY <1>2, <1>3, <1>4, <1>5

(* The images are ones load_task can map.                                  *)
LEMMA ImagesOK == \A s \in Ranks : ImageOK(Images[s])
<1> SUFFICES ASSUME NEW s \in Ranks PROVE ImageOK(Images[s])
  OBVIOUS
<1>1. /\ Images[s].page \in Nat /\ Images[s].payload \in Nat /\ Images[s].bss \in Nat
      /\ Images[s].page > FirstPool + PHYSICAL_POOL_PAGES - 1
  BY RackdollAssumption
<1>2. ASSUME NEW k \in 0 .. Images[s].payload + Images[s].bss - 1
      PROVE  Text(k) \in User
  <2>1. CASE k < Images[s].payload
    <3>1. k \in 0 .. Images[s].payload - 1
      BY <1>1, <2>1
    <3> QED
      BY <3>1, UserPages DEF Loaded, Payload
  <2>2. CASE k >= Images[s].payload
    <3> DEFINE j == k - Images[s].payload
    <3>1. j \in 0 .. Images[s].bss - 1 /\ k = Images[s].payload + j
      BY <1>1, <2>2
    <3> HIDE DEF j
    <3>2. Text(Images[s].payload + j) \in Bss(s)
      BY <3>1 DEF Bss
    <3> QED
      BY <3>1, <3>2, UserPages DEF Loaded
  <2> QED
    BY <1>1, <2>1, <2>2
<1> QED
  BY <1>1, <1>2 DEF ImageOK

(* The pages of a payload are in the RAM after the pool.                   *)
LEMMA PayloadPage ==
  ASSUME NEW s \in Ranks, NEW k \in 0 .. Images[s].payload - 1
  PROVE  /\ Images[s].page + k \in Pages /\ Images[s].page + k \notin Pool
         /\ Images[s].page + k > FirstPool + PHYSICAL_POOL_PAGES - 1
         /\ Images[s].page + k # 0
<1>1. /\ Images[s].page \in Nat /\ Images[s].payload \in Nat
      /\ Images[s].page > FirstPool + PHYSICAL_POOL_PAGES - 1
      /\ Images[s].page + Images[s].payload - 1 <= LastPage
  BY RackdollAssumption
<1> QED
  BY <1>1, KernelMemoryAssumption DEF Pages, Pool

(* The task that runs has its root in CR3.                                 *)
LEMMA CurrentBuilt ==
  ASSUME Fifo!IInv, TasksBuilt, mode = "user"
  PROVE  cr3 \in Built /\ cr3 \in Ranks /\ Pgt \in Roots
<1>1. fifo_run < fifo_size /\ cr3 = fifo[fifo_run].pgt
  BY DEF Fifo!IInv, Fifo!CurrentIsRunning
<1>2. fifo_run \in 0 .. fifo_size - 1
  BY <1>1, FifoConstants DEF Fifo!IInv, Fifo!TypeOK, Fifo!Slots
<1> QED
  BY <1>1, <1>2 DEF TasksBuilt, Built, Roots, Pgt

(* Only parse_task puts a new page table in the fifo.                      *)
LEMMA PgtsKept ==
  ASSUME Fifo!IInv,
         \/ Sched!LoadDone \/ Sched!NothingToRun \/ Sched!EnterTasks
         \/ Sched!Yield \/ Sched!Exit \/ Sched!Fork
  PROVE  /\ parsed' = parsed
         /\ \A i \in 0 .. fifo_size' - 1 :
              \E j \in 0 .. fifo_size - 1 : fifo'[i].pgt = fifo[j].pgt
<1>1. /\ fifo \in [Fifo!Slots -> Fifo!Task] /\ fifo_size \in 0 .. TASK_FIFO_LEN
      /\ fifo_run \in Fifo!Slots /\ TASK_FIFO_LEN \in Nat \ {0}
      /\ mode = "user" => fifo_run < fifo_size
  BY FifoConstants DEF Fifo!IInv, Fifo!TypeOK, Fifo!CurrentIsRunning
<1>2. CASE Sched!LoadDone \/ Sched!NothingToRun \/ Sched!EnterTasks
  BY <1>2 DEF Sched!LoadDone, Sched!NothingToRun, Sched!EnterTasks
<1>3. CASE Sched!Yield
  <2>1. /\ parsed' = parsed /\ fifo_size' = fifo_size
        /\ fifo' = [fifo EXCEPT ![fifo_run].context = Sched!Advanced]
    BY <1>3 DEF Sched!Yield
  <2>2. \A i \in 0 .. fifo_size - 1 : fifo'[i].pgt = fifo[i].pgt
    BY <1>1, <2>1 DEF Fifo!Slots, Fifo!Task
  <2> QED
    BY <2>1, <2>2
<1>4. CASE Sched!Exit
  <2>1. /\ parsed' = parsed /\ fifo_size' = fifo_size - 1 /\ mode = "user"
        /\ \/ fifo' = fifo
           \/ fifo' = [fifo EXCEPT ![fifo_run] = fifo[fifo_size - 1]]
    BY <1>4 DEF Sched!Exit
  <2>2. fifo_size - 1 \in 0 .. fifo_size - 1
    BY <1>1, <2>1 DEF Fifo!Slots
  <2>3. \A i \in 0 .. fifo_size - 2 : fifo'[i] \in {fifo[i], fifo[fifo_size - 1]}
    BY <1>1, <2>1 DEF Fifo!Slots
  <2> QED
    BY <1>1, <2>1, <2>2, <2>3
<1>5. CASE Sched!Fork
  <2>1. /\ parsed' = parsed /\ fifo_size' = TASK_FIFO_LEN /\ mode = "user"
        /\ fifo' = [i \in Sched!Slots |->
                      IF i < fifo_size THEN fifo[i] ELSE Sched!ForkedTask(i)]
    BY <1>5 DEF Sched!Fork
  <2>2. ASSUME NEW i \in 0 .. fifo_size' - 1
        PROVE  fifo'[i] = IF i < fifo_size THEN fifo[i] ELSE Sched!ForkedTask(i)
    BY <2>1, <2>2 DEF Sched!Slots
  <2>3. \A i \in Nat : Sched!ForkedTask(i).pgt = fifo[fifo_run].pgt
    BY DEF Sched!ForkedTask
  <2>4. fifo_run \in 0 .. fifo_size - 1
    BY <1>1, <2>1 DEF Fifo!Slots
  <2> QED
    BY <1>1, <2>1, <2>2, <2>3, <2>4
<1> QED
  BY <1>2, <1>3, <1>4, <1>5
-------------------------------------------------------------------------------
(* What a translation leads to in the pool is a frame.                     *)
LEMMA FrameReached ==
  ASSUME NEW m, NEW R, NEW K, NEW par, NEW loose, Tree(m, R, K, par, loose),
         NEW r \in R, NEW v \in User, Translate(m, r, v) # NoPage
  PROVE  /\ Translate(m, r, v) \in Nat
         /\ Translate(m, r, v) \in Pool =>
              /\ Translate(m, r, v) \in DOMAIN K
              /\ K[Translate(m, r, v)] = "frame"
<1>a. PICK t3 \in DOMAIN K, t2 \in DOMAIN K, t1 \in DOMAIN K, q \in Nat :
        /\ Path(m, r, v, t3, t2, t1, q) /\ Translate(m, r, v) = q /\ K[t1] = "pml1"
  BY WalkDown
<1>1. t1 \in Tables(K) /\ v[4] \in Indexes
  BY <1>a DEF Tables, User, Virtual
<1>2. Present(Word(m, t1, v[4])) /\ PageOf(Word(m, t1, v[4])) = q
  BY <1>a, Ptes DEF Path
<1>3. Child("pml1", v[4]) = "frame"
  BY DEF Child
<1>4. q \in Pool => q \in DOMAIN K /\ K[q] = "frame"
  <2>1. ASSUME q \in Pool
        PROVE  /\ PageOf(Word(m, t1, v[4])) \in DOMAIN K
               /\ K[PageOf(Word(m, t1, v[4]))] = Child(K[t1], v[4])
    <3>1. PageOf(Word(m, t1, v[4])) \in Pool
      BY <1>2, <2>1
    <3> QED
      BY <1>1, <1>2, <3>1, ChildKind
  <2> QED
    BY <1>2, <1>3, <1>a, <2>1
<1> QED
  BY <1>4, <1>a

(* A user access that is translated reaches a page of the machine, and a   *)
(* heap page a frame of the pool.                                          *)
LEMMA PageReached ==
  ASSUME RInv, NEW s \in Built, NEW v \in User, Translate(mem, root[s], v) # NoPage
  PROVE  /\ Translate(mem, root[s], v) \in Pages \ {0}
         /\ v \in Heap[s] => Translate(mem, root[s], v) \in Pool
<1> DEFINE q == Translate(mem, root[s], v)
<1>1. CASE q \in Pool
  BY <1>1, PoolInPages
<1>2. CASE q \notin Pool
  <2>a. PICK k \in 0 .. Images[s].payload - 1 : v = Text(k) /\ q = Images[s].page + k
    BY <1>2 DEF RInv, PayloadPlaces
  <2>2. v \in Loaded(s)
    BY <2>a DEF Loaded, Payload
  <2>3. q \in Pages \ {0}
    BY <2>a, PayloadPage DEF Built
  <2>4. v \notin Heap[s]
    BY <2>2, UserPages DEF Built
  <2> QED
    BY <2>3, <2>4
<1> QED
  BY <1>1, <1>2

(* The cached translations and the walk agree.                             *)
LEMMA ReachedWalk ==
  ASSUME RInv, NEW v
  PROVE  Reached(v) = Translate(mem, Pgt, v)
BY DEF RInv, MmuKept, Reached

(* The entries that lead to a frame are each its one parent: one virtual   *)
(* page of one root reaches it.                                            *)
LEMMA OnePath ==
  ASSUME NEW m, NEW R, NEW K, NEW par, NEW loose, Tree(m, R, K, par, loose),
         NEW r \in R, NEW v \in User, NEW s \in R, NEW u \in User,
         Translate(m, r, v) # NoPage, Translate(m, r, v) \in Pool,
         Translate(m, s, u) = Translate(m, r, v)
  PROVE  s = r /\ u = v
<1>a. PICK t3 \in DOMAIN K, t2 \in DOMAIN K, t1 \in DOMAIN K, q \in Nat :
        /\ Path(m, r, v, t3, t2, t1, q) /\ Translate(m, r, v) = q
        /\ K[t3] # "frame" /\ K[t2] # "frame" /\ K[t1] # "frame"
  BY WalkDown
<1>b. PICK w3 \in DOMAIN K, w2 \in DOMAIN K, w1 \in DOMAIN K, p \in Nat :
        /\ Path(m, s, u, w3, w2, w1, p) /\ Translate(m, s, u) = p
        /\ K[w3] # "frame" /\ K[w2] # "frame" /\ K[w1] # "frame"
  BY WalkDown
<1>1. /\ DOMAIN K \subseteq Pool /\ DOMAIN K \subseteq Nat
      /\ r \in Tables(K) /\ s \in Tables(K) /\ q \in Pool /\ p = q
      /\ {t3, t2, t1, w3, w2, w1} \subseteq Tables(K)
  BY <1>a, <1>b, PoolInPages DEF Tree, Shape, Tables
<1>2. \A x \in Tables(K), j \in Indexes, y \in Pool :
        Word(m, x, j) = UserPte(y) => par[y] = <<x, j>>
  <2> SUFFICES ASSUME NEW x \in Tables(K), NEW j \in Indexes, NEW y \in Pool,
                      Word(m, x, j) = UserPte(y)
               PROVE  par[y] = <<x, j>>
    OBVIOUS
  <2>1. Present(Word(m, x, j)) /\ PageOf(Word(m, x, j)) = y
    BY Ptes, PoolInPages
  <2> QED
    BY <2>1 DEF Tree, OneParent
<1>3. /\ v[1] \in Indexes /\ v[2] \in Indexes /\ v[3] \in Indexes /\ v[4] \in Indexes
      /\ u[1] \in Indexes /\ u[2] \in Indexes /\ u[3] \in Indexes /\ u[4] \in Indexes
      /\ v = <<v[1], v[2], v[3], v[4]>> /\ u = <<u[1], u[2], u[3], u[4]>>
  BY DEF User, Virtual
<1>4. t1 = w1 /\ v[4] = u[4]
  <2>1. par[q] = <<t1, v[4]>>
    BY <1>1, <1>2, <1>3, <1>a DEF Path
  <2>2. par[q] = <<w1, u[4]>>
    BY <1>1, <1>2, <1>3, <1>b DEF Path
  <2> QED
    BY <2>1, <2>2
<1>5. t2 = w2 /\ v[3] = u[3]
  <2>1. par[t1] = <<t2, v[3]>>
    BY <1>1, <1>2, <1>3, <1>a DEF Path
  <2>2. par[t1] = <<w2, u[3]>>
    BY <1>1, <1>2, <1>3, <1>4, <1>b DEF Path
  <2> QED
    BY <2>1, <2>2
<1>6. t3 = w3 /\ v[2] = u[2]
  <2>1. par[t2] = <<t3, v[2]>>
    BY <1>1, <1>2, <1>3, <1>a DEF Path
  <2>2. par[t2] = <<w3, u[2]>>
    BY <1>1, <1>2, <1>3, <1>5, <1>b DEF Path
  <2> QED
    BY <2>1, <2>2
<1>7. r = s /\ v[1] = u[1]
  <2>1. par[t3] = <<r, v[1]>>
    BY <1>1, <1>2, <1>3, <1>a DEF Path
  <2>2. par[t3] = <<s, u[1]>>
    BY <1>1, <1>2, <1>3, <1>6, <1>b DEF Path
  <2> QED
    BY <2>1, <2>2
<1> QED
  BY <1>3, <1>4, <1>5, <1>6, <1>7

(* No two pages of the tasks are the same page of the machine.             *)
LEMMA PagesApart ==
  ASSUME RInv, NEW s \in Built, NEW t \in Built, NEW v \in User, NEW u \in User,
         Translate(mem, root[s], v) # NoPage,
         Translate(mem, root[t], u) = Translate(mem, root[s], v)
  PROVE  s = t /\ u = v
<1> DEFINE q == Translate(mem, root[s], v)
<1>1. CASE q \in Pool
  <2>a. PICK K, par : Tree(mem, Roots, K, par, NoPage)
    BY DEF RInv, FramesKept
  <2>1. root[s] \in Roots /\ root[t] \in Roots
    BY DEF Roots
  <2>2. root[s] = root[t] /\ u = v
    <3> DEFINE r == root[s]
               w == root[t]
    <3>1. /\ r \in Roots /\ w \in Roots /\ Translate(mem, r, v) # NoPage
          /\ Translate(mem, r, v) \in Pool /\ Translate(mem, w, u) = Translate(mem, r, v)
      BY <1>1, <2>1
    <3> HIDE DEF r, w
    <3>2. w = r /\ u = v
      BY <2>a, <3>1, OnePath
    <3> QED
      BY <3>2 DEF r, w
  <2> QED
    BY <2>2 DEF RInv, TasksBuilt
<1>2. CASE q \notin Pool
  <2>a. PICK k \in 0 .. Images[s].payload - 1 : v = Text(k) /\ q = Images[s].page + k
    BY <1>2 DEF RInv, PayloadPlaces
  <2>b. PICK j \in 0 .. Images[t].payload - 1 : u = Text(j) /\ q = Images[t].page + j
    BY <1>2 DEF RInv, PayloadPlaces
  <2>1. s = t
    BY <2>a, <2>b, RackdollAssumption DEF Built
  <2>2. Images[s].page \in Nat /\ k \in Int /\ j \in Int
    BY <2>a, <2>b, RackdollAssumption DEF Built
  <2>3. j = k
    BY <2>1, <2>2, <2>a, <2>b
  <2> QED
    BY <2>1, <2>3, <2>a, <2>b
<1> QED
  BY <1>1, <1>2

(* What a read of page v in space s returns: it is the processor's view.   *)
Seen(s, v) ==
  IF s \in Built /\ v \in User /\ ~(s = cr3 /\ v = pending)
    THEN Translate(mem, root[s], v) ELSE NoPage
Content(s, v) == IF Seen(s, v) = NoPage THEN None ELSE mem.ram[Seen(s, v)]

(* A step changes the content of one page of one space, or of none.        *)
Changes(s0, v0, c) ==
  \A s \in Ranks, v \in User :
    Content(s, v)' = IF s = s0 /\ v = v0 THEN c ELSE Content(s, v)
ContentsKept == \A s \in Ranks, v \in User : Content(s, v)' = Content(s, v)

(* A space that was not built gets the content of its image, no other page *)
(* changes.                                                                *)
Loads(s0) ==
  /\ s0 \in Ranks \ Built
  /\ \A s \in Ranks, v \in User :
       Content(s, v)' = IF s = s0 THEN FreshContent(s, v) ELSE Content(s, v)

-------------------------------------------------------------------------------
(* The pool and the TLB start empty, the payloads as loaded.               *)
LEMMA InitRInv == Init => RInv
<1> SUFFICES ASSUME Init PROVE RInv
  OBVIOUS
<1>1. /\ root = [s \in Ranks |-> 0] /\ tlb = << >> /\ pending = None
      /\ fifo_size = 0 /\ Built = {} /\ Roots = {} /\ 0 \in Pages
  BY PoolInPages DEF Init, Sched!Init, Built, Roots
<1>2. mem \in Memory /\ mem.bits = {} /\ mem.alive = TRUE
  BY DEF Init, Memory, ZeroContent, PayloadContent, Filled, PAGE_SIZE
<1>3. \A p \in Pool : mem.ram[p] = ZeroContent
  <2>1. \A p \in Pool : p \in Pages /\ p < FirstPool + PHYSICAL_POOL_PAGES
    BY KernelMemoryAssumption, PoolInPages DEF Pool
  <2> QED
    BY <2>1 DEF Init
<1>4. TasksBuilt
  BY <1>1 DEF TasksBuilt
<1>5. MmuKept
  BY <1>1 DEF MmuKept, Init, Sched!Init
<1>6. FramesKept
  <2> DEFINE K == [q \in {} |-> "frame"]
  <2>1. Tree(mem, {}, K, K, NoPage)
    BY <1>2, <1>3 DEF Tree, Shape, FreeLast, FreeZero, AllLegal, OneParent,
                      EachHasParent, Tables, Memory
  <2>2. mem.bits = DOMAIN K \ {PendingPage}
    BY <1>2
  <2> QED
    BY <1>1, <2>1, <2>2 DEF FramesKept
<1>7. PayloadPlaces
  BY <1>1 DEF PayloadPlaces
<1>8. PayloadKept
  <2> SUFFICES ASSUME NEW s \in Ranks, NEW k \in 0 .. Images[s].payload - 1
               PROVE  mem.ram[Images[s].page + k] = PayloadContent
    BY DEF PayloadKept
  <2>1. /\ Images[s].page + k \in Pages
        /\ Images[s].page + k > FirstPool + PHYSICAL_POOL_PAGES - 1
    BY PayloadPage
  <2>2. ~(Images[s].page + k < FirstPool + PHYSICAL_POOL_PAGES)
    BY <2>1, KernelMemoryAssumption DEF Pages
  <2> QED
    BY <2>1, <2>2 DEF Init
<1> QED
  BY <1>2, <1>4, <1>5, <1>6, <1>7, <1>8 DEF RInv

(* parse_task that ignores the module (task.c:33-44).                      *)
LEMMA ParseSkips ==
  ASSUME RInv, Fifo!IInv, ParseTask, fifo_size' = fifo_size
  PROVE  RInv' /\ ContentsKept
<1>1. /\ UNCHANGED <<mem, root, tlb, pending, cr3, mode, fifo>>
      /\ parsed' = parsed + 1 /\ parsed \in Nat
  BY DEF ParseTask, Sched!ParseTask, Fifo!IInv, Fifo!TypeOK
<1>2. TasksBuilt'
  BY <1>1 DEF RInv, TasksBuilt, Built, Ranks
<1>3. /\ Built' = Built /\ Roots' = Roots /\ Pgt' = Pgt /\ Booting' = Booting
      /\ PendingPage' = PendingPage
  BY <1>1 DEF Pgt, PendingPage, Built, Roots, Booting
<1>4. MmuKept' /\ FramesKept' /\ PayloadPlaces' /\ PayloadKept' /\ mem'.alive
  BY <1>1, <1>3 DEF RInv, MmuKept, FramesKept, PayloadPlaces, PayloadKept
<1>5. ContentsKept
  BY <1>1, <1>3 DEF ContentsKept, Content, Seen
<1> QED
  BY <1>2, <1>4, <1>5 DEF RInv

(* parse_task that takes the module: load_task gives it a root of its own. *)
LEMMA ParseTakes ==
  ASSUME OneBssPage, RInv, Fifo!IInv, ParseTask, fifo_size' # fifo_size, PoolSuffices'
  PROVE  RInv' /\ Loads(parsed + 1)
<1> DEFINE s == parsed + 1
           l == LoadTask(mem, Images[s])
<1>1. /\ mem' = l.mem /\ root' = [root EXCEPT ![s] = l.page]
      /\ UNCHANGED <<tlb, pending, cr3, mode>> /\ mode = "load"
      /\ parsed' = s /\ s \in Ranks /\ parsed \in Nat
  BY DEF ParseTask, Sched!ParseTask, Fifo!IInv, Fifo!TypeOK, Ranks
<1>2. pending = None /\ pending' = None /\ tlb = << >> /\ tlb' = << >>
  BY <1>1 DEF RInv, MmuKept, Booting
<1>a. PICK K, par : /\ Tree(mem, Roots, K, par, NoPage)
                    /\ mem.bits = DOMAIN K \ {PendingPage}
  BY DEF RInv, FramesKept
<1>3. mem.bits = DOMAIN K /\ NoPage \notin DOMAIN K /\ Roots \subseteq DOMAIN K
  BY <1>a, <1>2, PoolInPages DEF PendingPage, Tree, Shape
<1>4. ImageOK(Images[s]) /\ Images[s].bss \in {0, 1} /\ Free(l.mem) # {}
  BY <1>1, ImagesOK DEF OneBssPage, PoolSuffices
<1>5. ImageLoaded(mem, l.mem, Roots, K, l.page, Images[s])
  <2> HIDE DEF l
  <2>1. l = LoadTask(mem, Images[s])
    BY DEF l
  <2> QED
    BY <1>a, <1>3, <1>4, <2>1, LoadTree
<1> HIDE DEF l
<1>b. PICK K2, par2 :
    /\ Tree(mem', Roots \cup {l.page}, K2, par2, NoPage) /\ Extends(mem, K, mem', K2)
    /\ SameTranslations(mem, mem', Roots)
    /\ l.page \in DOMAIN K2 \ DOMAIN K
    /\ \A j \in 0 .. Images[s].payload - 1 :
         Translate(mem', l.page, Text(j)) = Images[s].page + j
    /\ \A j \in Images[s].payload .. Images[s].payload + Images[s].bss - 1 :
         \E f \in DOMAIN K2 \ DOMAIN K :
           Translate(mem', l.page, Text(j)) = f /\ mem'.ram[f] = ZeroContent
    /\ \A v \in User :
         ~(\E j \in 0 .. Images[s].payload + Images[s].bss - 1 : v = Text(j)) =>
           Translate(mem', l.page, v) = NoPage
  BY <1>1, <1>5 DEF ImageLoaded
<1>6. DOMAIN K2 \subseteq Pool /\ l.page \in Pool /\ l.page \in Pages \ {0}
  BY <1>b, PoolInPages DEF Tree, Shape
<1>7. /\ s \notin Built /\ root'[s] = l.page
      /\ \A t \in Ranks \ {s} : root'[t] = root[t]
      /\ root' \in [Ranks -> Pages]
  BY <1>1, <1>6 DEF RInv, TasksBuilt, Built
<1>8. Built' = Built \cup {s} /\ Roots' = Roots \cup {l.page}
  <2>1. Built' = Built \cup {s}
    BY <1>1, <1>6, <1>7 DEF Built
  <2>2. \A t \in Built : t # s /\ root'[t] = root[t]
    BY <1>7 DEF Built
  <2> QED
    BY <1>7, <2>1, <2>2 DEF Roots
<1>9. TasksBuilt'
  <2>1. \A t \in Ranks : t > parsed' => root'[t] = 0
    BY <1>1, <1>7 DEF RInv, TasksBuilt, Ranks
  <2>2. \A t \in Built : root'[t] \in Roots /\ root'[t] # l.page
    BY <1>3, <1>7, <1>b DEF Built, Roots
  <2>3. \A t, u \in Built' : root'[t] = root'[u] => t = u
    BY <1>7, <1>8, <2>2 DEF RInv, TasksBuilt, Built
  <2>4. \A i \in 0 .. fifo_size' - 1 : fifo'[i].pgt \in Built'
    <3>1. /\ fifo \in [Fifo!Slots -> Fifo!Task] /\ fifo_size \in 0 .. TASK_FIFO_LEN
          /\ TASK_FIFO_LEN \in Nat
      BY FifoConstants DEF Fifo!IInv, Fifo!TypeOK
    <3>2. /\ fifo_size # TASK_FIFO_LEN /\ fifo_size' = fifo_size + 1
          /\ fifo' = [fifo EXCEPT ![fifo_size] =
               [pgt |-> s, context |-> [flow |-> flows + 1, pc |-> 0, rax |-> 0]]]
      BY DEF ParseTask, Sched!ParseTask
    <3>3. \A i \in 0 .. fifo_size - 1 : fifo'[i] = fifo[i]
      BY <3>1, <3>2 DEF Fifo!Slots
    <3>4. fifo'[fifo_size].pgt = s
      BY <3>1, <3>2 DEF Fifo!Slots
    <3> QED
      BY <1>8, <3>1, <3>2, <3>3, <3>4 DEF RInv, TasksBuilt
  <2> QED
    BY <1>7, <2>1, <2>3, <2>4 DEF TasksBuilt
<1>10. MmuKept'
  <2>1. /\ DOMAIN tlb' \subseteq VPages \cap User
        /\ \A v \in DOMAIN tlb' : tlb'[v] \in Pages /\ tlb'[v] = Translate(mem', Pgt', v)
    BY <1>2
  <2> QED
    BY <1>2, <2>1 DEF MmuKept
<1>11. FramesKept'
  <2>1. PendingPage' = NoPage /\ NoPage \notin DOMAIN K2
    BY <1>2, <1>6, PoolInPages DEF PendingPage
  <2>2. mem'.bits = DOMAIN K2 \ {PendingPage'}
    BY <1>b, <2>1 DEF Extends
  <2> QED
    BY <1>2, <1>8, <1>b, <2>2 DEF FramesKept
<1>12. PayloadPlaces'
  <2> SUFFICES ASSUME NEW t \in Built', NEW v \in User,
                      Translate(mem', root'[t], v) # NoPage,
                      Translate(mem', root'[t], v) \notin Pool
               PROVE  \E k \in 0 .. Images[t].payload - 1 :
                        /\ v = Text(k)
                        /\ Translate(mem', root'[t], v) = Images[t].page + k
    BY DEF PayloadPlaces
  <2>1. CASE t \in Built
    <3>1. root'[t] = root[t] /\ root[t] \in Roots
      BY <1>7, <2>1 DEF Built, Roots
    <3>2. Translate(mem', root'[t], v) = Translate(mem, root[t], v)
      BY <1>b, <3>1 DEF SameTranslations
    <3> QED
      BY <2>1, <3>2 DEF RInv, PayloadPlaces
  <2>2. CASE t = s
    <3>a. PICK j \in 0 .. Images[s].payload + Images[s].bss - 1 : v = Text(j)
      BY <1>7, <1>b, <2>2
    <3>1. ~(j \in Images[s].payload .. Images[s].payload + Images[s].bss - 1)
      BY <1>6, <1>7, <1>b, <2>2, <3>a
    <3>2. j \in 0 .. Images[s].payload - 1
      BY <1>4, <3>1 DEF ImageOK
    <3> QED
      BY <1>7, <1>b, <2>2, <3>a, <3>2
  <2> QED
    BY <1>8, <2>1, <2>2
<1>13. mem'.alive
  BY <1>b DEF RInv, Extends
<1>14. \A x \in Pages \ {0} : x \notin Pool => mem'.ram[x] = mem.ram[x]
  BY <1>b DEF Extends
<1>15. PayloadKept'
  BY <1>8, <1>14, PayloadPage DEF RInv, PayloadKept
<1>16. Loads(s)
  <2> SUFFICES ASSUME NEW t \in Ranks, NEW v \in User
               PROVE  Content(t, v)' = IF t = s THEN FreshContent(t, v) ELSE Content(t, v)
    BY <1>1, <1>7 DEF Loads
  <2>1. CASE t \notin Built /\ t # s
    BY <1>8, <2>1 DEF Content, Seen
  <2>2. CASE t \in Built
    <3>1. /\ root'[t] = root[t] /\ root[t] \in Roots /\ t \in Built' /\ t # s
      BY <1>7, <1>8, <2>2 DEF Roots
    <3>2. Translate(mem', root'[t], v) = Translate(mem, root[t], v)
      BY <1>b, <3>1 DEF SameTranslations
    <3>3. Seen(t, v)' = Seen(t, v) /\ Seen(t, v) = Translate(mem, root[t], v)
      BY <1>2, <2>2, <3>1, <3>2, UserNotNone DEF Seen
    <3>4. Seen(t, v) # NoPage => mem'.ram[Seen(t, v)] = mem.ram[Seen(t, v)]
      BY <1>a, <1>b, <2>2, <3>1, <3>3, PageReached, FrameReached DEF Extends
    <3> QED
      BY <3>1, <3>3, <3>4 DEF Content
  <2>3. CASE t = s
    <3>1. Seen(t, v)' = Translate(mem', l.page, v)
      BY <1>2, <1>7, <1>8, <2>3, UserNotNone DEF Seen
    <3>2. Images[s].payload \in Nat /\ Images[s].bss \in Nat /\ Images[s].page \in Nat
      BY <1>4 DEF ImageOK
    <3>3. ASSUME NEW j \in 0 .. Images[s].payload - 1, v = Text(j)
          PROVE  Content(t, v)' = FreshContent(t, v)
      <4>1. /\ Seen(t, v)' = Images[s].page + j /\ Images[s].page + j # NoPage
            /\ mem'.ram[Images[s].page + j] = PayloadContent
        BY <1>1, <1>7, <1>14, <1>b, <3>1, <3>2, <3>3, PayloadPage, PoolInPages
           DEF RInv, PayloadKept, NoPage
      <4>2. v \in Payload(s) /\ v \notin Bss(s)
        <5>1. \A k \in 0 .. Images[s].bss - 1 : Text(Images[s].payload + k) # Text(j)
          BY <3>2, <3>3, TextDiffers
        <5> QED
          BY <3>3, <5>1 DEF Payload, Bss
      <4>3. FreshContent(t, v) = PayloadContent
        BY <1>1, <2>3, <4>2 DEF FreshContent
      <4> QED
        BY <4>1, <4>3 DEF Content
    <3>4. ASSUME NEW j \in Images[s].payload .. Images[s].payload + Images[s].bss - 1,
                 v = Text(j)
          PROVE  Content(t, v)' = FreshContent(t, v)
      <4>a. PICK f \in DOMAIN K2 \ DOMAIN K :
              Translate(mem', l.page, Text(j)) = f /\ mem'.ram[f] = ZeroContent
        BY <1>b, <3>4
      <4>1. /\ Seen(t, v)' = f /\ f # NoPage
        BY <1>6, <3>1, <3>4, <4>a, PoolInPages
      <4>2. v \notin Payload(s) /\ v \in Bss(s)
        <5>1. \A k \in 0 .. Images[s].payload - 1 : Text(k) # Text(j)
          BY <3>2, <3>4, TextDiffers
        <5>2. j - Images[s].payload \in 0 .. Images[s].bss - 1
              /\ Images[s].payload + (j - Images[s].payload) = j
          BY <3>2, <3>4
        <5> QED
          BY <3>4, <5>1, <5>2 DEF Payload, Bss
      <4>3. FreshContent(t, v) = ZeroContent
        BY <1>1, <2>3, <4>2 DEF FreshContent
      <4> QED
        BY <4>1, <4>3, <4>a DEF Content
    <3>5. ASSUME ~(\E j \in 0 .. Images[s].payload + Images[s].bss - 1 : v = Text(j))
          PROVE  Content(t, v)' = FreshContent(t, v)
      <4>1. Seen(t, v)' = NoPage
        BY <1>b, <3>1, <3>5
      <4>2. v \notin Payload(s)
        BY <3>2, <3>5 DEF Payload
      <4>3. v \notin Bss(s)
        <5>1. \A k \in 0 .. Images[s].bss - 1 :
                Images[s].payload + k \in 0 .. Images[s].payload + Images[s].bss - 1
          BY <3>2
        <5> QED
          BY <3>5, <5>1 DEF Bss
      <4>4. FreshContent(t, v) = None
        BY <1>1, <2>3, <4>2, <4>3 DEF FreshContent
      <4> QED
        BY <4>1, <4>4 DEF Content
    <3>6. \A j \in 0 .. Images[s].payload + Images[s].bss - 1 :
            \/ j \in 0 .. Images[s].payload - 1
            \/ j \in Images[s].payload .. Images[s].payload + Images[s].bss - 1
      BY <3>2
    <3> QED
      BY <2>3, <3>3, <3>4, <3>5, <3>6
  <2> QED
    BY <2>1, <2>2, <2>3
<1> QED
  BY <1>9, <1>10, <1>11, <1>12, <1>13, <1>15, <1>16 DEF RInv
-------------------------------------------------------------------------------
(* A page not mapped before is mapped, by a fault or by mmap.              *)
LEMMA MapStep ==
  ASSUME RInv, Fifo!IInv, mode = "user", pending = None, NEW v \in User,
         Translate(mem, Pgt, v) = NoPage,
         mem' = Mmap(mem, Pgt, v), pending' = None,
         UNCHANGED <<fifoVars, root, tlb>>, PoolSuffices'
  PROVE  RInv' /\ Changes(cr3, v, ZeroContent) /\ Content(cr3, v) = None
<1>1. /\ UNCHANGED <<fifo, fifo_size, cr3, mode, parsed>>
      /\ Built' = Built /\ Roots' = Roots /\ Pgt' = Pgt /\ Booting' = Booting
  BY DEF fifoVars, Built, Roots, Pgt, Booting
<1>2. cr3 \in Built /\ Pgt \in Roots /\ Pgt = root[cr3]
  BY CurrentBuilt DEF RInv, Pgt
<1>a. PICK K, par : /\ Tree(mem, Roots, K, par, NoPage)
                    /\ mem.bits = DOMAIN K \ {PendingPage}
  BY DEF RInv, FramesKept
<1>3. mem.bits = DOMAIN K
  BY <1>a, PoolInPages DEF PendingPage, Tree, Shape
<1>4. FreshlyMapped(mem, mem', Roots, K, Pgt, v)
  <2>1. Free(mem') # {}
    BY DEF PoolSuffices
  <2> QED
    BY <1>2, <1>3, <1>a, <2>1, MmapTree
<1>b. PICK K2, par2, f :
    /\ Tree(mem', Roots, K2, par2, NoPage) /\ Extends(mem, K, mem', K2)
    /\ OnlyMaps(mem, mem', Roots, Pgt, v, f)
    /\ f \in DOMAIN K2 \ DOMAIN K /\ mem'.ram[f] = ZeroContent
  BY <1>4 DEF FreshlyMapped
<1>5. DOMAIN K2 \subseteq Pool
  BY <1>b DEF Tree, Shape
<1>6. TasksBuilt'
  BY <1>1 DEF RInv, TasksBuilt
<1>7. MmuKept'
  <2>1. \A u \in DOMAIN tlb : /\ u \in User /\ u # v
                              /\ tlb[u] = Translate(mem, Pgt, u)
    BY PoolInPages DEF RInv, MmuKept, Pages, NoPage
  <2>2. \A u \in DOMAIN tlb : tlb[u] = Translate(mem', Pgt, u)
    BY <1>2, <1>b, <2>1 DEF OnlyMaps
  <2> QED
    BY <1>1, <2>2 DEF RInv, MmuKept
<1>8. FramesKept'
  <2>1. PendingPage' = NoPage /\ NoPage \notin DOMAIN K2
    BY <1>5, PoolInPages DEF PendingPage
  <2>2. mem'.bits = DOMAIN K2 \ {PendingPage'}
    BY <1>b, <2>1 DEF Extends
  <2> QED
    BY <1>1, <1>b, <2>2 DEF FramesKept
<1>9. PayloadPlaces'
  <2>1. f \in Pool
    BY <1>5, <1>b
  <2>2. ASSUME NEW s \in Built, NEW u \in User
        PROVE  \/ Translate(mem', root[s], u) = Translate(mem, root[s], u)
               \/ Translate(mem', root[s], u) = f
    <3>1. root[s] \in Roots
      BY DEF Roots
    <3> QED
      BY <1>b, <3>1 DEF OnlyMaps
  <2> QED
    BY <1>1, <2>1, <2>2 DEF RInv, PayloadPlaces
<1>10. mem'.alive
  BY <1>b DEF RInv, Extends
<1>11. PayloadKept'
  <2>1. \A x \in Pages \ {0} : x \notin Pool => mem'.ram[x] = mem.ram[x]
    BY <1>b DEF Extends
  <2> QED
    BY <1>1, <2>1, PayloadPage DEF RInv, PayloadKept
<1>12. Seen(cr3, v) = NoPage
  BY <1>2 DEF Seen
<1>13. Changes(cr3, v, ZeroContent)
  <2> SUFFICES ASSUME NEW s \in Ranks, NEW u \in User
               PROVE  Content(s, u)' =
                        IF s = cr3 /\ u = v THEN ZeroContent ELSE Content(s, u)
    BY DEF Changes
  <2>1. CASE s \notin Built
    BY <1>1, <1>2, <2>1 DEF Content, Seen
  <2>2. CASE s = cr3 /\ u = v
    <3>1. Seen(s, u)' = f /\ f # NoPage
      BY <1>1, <1>2, <1>5, <1>b, <2>2, UserNotNone, PoolInPages DEF Seen, OnlyMaps
    <3> QED
      BY <1>b, <2>2, <3>1 DEF Content
  <2>3. CASE s \in Built /\ ~(s = cr3 /\ u = v)
    <3>1. root[s] \in Roots /\ ~(root[s] = Pgt /\ u = v)
      BY <1>2, <2>3 DEF Roots, RInv, TasksBuilt
    <3>2. Translate(mem', root[s], u) = Translate(mem, root[s], u)
      BY <1>b, <3>1 DEF OnlyMaps
    <3>3. Seen(s, u)' = Seen(s, u) /\ Seen(s, u) = Translate(mem, root[s], u)
      BY <1>1, <2>3, <3>2, UserNotNone DEF Seen
    <3>4. Seen(s, u) # NoPage => mem'.ram[Seen(s, u)] = mem.ram[Seen(s, u)]
      BY <1>a, <1>b, <2>3, <3>1, <3>3, PageReached, FrameReached DEF Extends
    <3> QED
      BY <2>3, <3>3, <3>4 DEF Content
  <2> QED
    BY <2>1, <2>2, <2>3
<1> QED
  BY <1>6, <1>7, <1>8, <1>9, <1>10, <1>11, <1>12, <1>13 DEF RInv, Content

(* mmap of the page that munmap has just given back: the same frame comes  *)
(* back, because it is the lowest free one (task/sieve.c, realloc_array).  *)
LEMMA RemapStep ==
  ASSUME RInv, Fifo!IInv, mode = "user", pending # None, pending \in Heap[cr3],
         mem' = Mmap(mem, Pgt, pending), pending' = None,
         UNCHANGED <<fifoVars, root, tlb>>
  PROVE  RInv' /\ Changes(cr3, pending, ZeroContent) /\ Content(cr3, pending) = None
<1>1. /\ UNCHANGED <<fifo, fifo_size, cr3, mode, parsed>>
      /\ Built' = Built /\ Roots' = Roots /\ Pgt' = Pgt /\ Booting' = Booting
  BY DEF fifoVars, Built, Roots, Pgt, Booting
<1>2. cr3 \in Built /\ Pgt \in Roots /\ Pgt = root[cr3] /\ pending \in User
  BY CurrentBuilt, UserPages DEF RInv, Pgt
<1> DEFINE f == PendingPage
<1>a. PICK K, par : /\ Tree(mem, Roots, K, par, NoPage)
                    /\ mem.bits = DOMAIN K \ {f} /\ f \in DOMAIN K /\ K[f] = "frame"
  BY DEF RInv, FramesKept
<1>3. f = Translate(mem, Pgt, pending)
  BY DEF PendingPage
<1> HIDE DEF f
<1>4. /\ Tree(mem', Roots, K, par, NoPage) /\ SameTranslations(mem, mem', Roots)
      /\ mem'.bits = DOMAIN K /\ mem'.alive = mem.alive
      /\ mem'.ram[f] = ZeroContent
      /\ \A x \in Pages : x # 0 /\ x # f => mem'.ram[x] = mem.ram[x]
  <2> DEFINE r == Pgt
             v == pending
             m2 == mem'
  <2>1. r \in Roots /\ v \in User /\ Translate(mem, r, v) = f /\ m2 = Mmap(mem, r, v)
    BY <1>2, <1>3
  <2> HIDE DEF r, v, m2
  <2>2. /\ Tree(m2, Roots, K, par, NoPage) /\ SameTranslations(mem, m2, Roots)
        /\ m2.bits = DOMAIN K /\ m2.alive = mem.alive
        /\ m2.ram[f] = ZeroContent
        /\ \A x \in Pages : x # 0 /\ x # f => m2.ram[x] = mem.ram[x]
    BY <1>a, <2>1, MmapAgain
  <2> QED
    BY <2>2 DEF m2
<1>5. TasksBuilt'
  BY <1>1 DEF RInv, TasksBuilt
<1>6. MmuKept'
  <2>1. \A u \in User : Translate(mem', Pgt', u) = Translate(mem, Pgt, u)
    BY <1>1, <1>2, <1>4 DEF SameTranslations
  <2>2. \A u \in DOMAIN tlb : u \in User /\ tlb[u] = Translate(mem, Pgt, u)
    BY DEF RInv, MmuKept
  <2>3. /\ DOMAIN tlb \subseteq VPages \cap User
        /\ \A u \in DOMAIN tlb : tlb[u] \in Pages
    BY DEF RInv, MmuKept
  <2>4. \A u \in DOMAIN tlb : tlb[u] = Translate(mem', Pgt', u)
    BY <2>1, <2>2
  <2>5. Booting' => tlb = << >>
    BY <1>1 DEF RInv, MmuKept
  <2> QED
    BY <1>1, <2>3, <2>4, <2>5 DEF MmuKept
<1>7. FramesKept'
  <2>1. PendingPage' = NoPage /\ NoPage \notin DOMAIN K
    BY <1>4, PoolInPages DEF PendingPage, Tree, Shape
  <2>2. mem'.bits = DOMAIN K \ {PendingPage'}
    BY <1>4, <2>1
  <2> QED
    BY <1>1, <1>4, <2>2 DEF FramesKept
<1>8. PayloadPlaces'
  BY <1>1, <1>4 DEF RInv, PayloadPlaces, SameTranslations, Roots
<1>9. f \in Pool /\ f # NoPage
  BY <1>a, PoolInPages DEF Tree, Shape
<1>10. PayloadKept'
  BY <1>1, <1>4, <1>9, PayloadPage DEF RInv, PayloadKept
<1>11. Seen(cr3, pending) = NoPage
  BY DEF Seen
<1>12. Changes(cr3, pending, ZeroContent)
  <2> SUFFICES ASSUME NEW s \in Ranks, NEW u \in User
               PROVE  Content(s, u)' =
                        IF s = cr3 /\ u = pending THEN ZeroContent ELSE Content(s, u)
    BY DEF Changes
  <2>1. CASE s \notin Built
    BY <1>1, <1>2, <2>1 DEF Content, Seen
  <2>2. ASSUME s \in Built
        PROVE  Seen(s, u)' = Translate(mem, root[s], u)
    BY <1>1, <1>4, <2>2, UserNotNone DEF Seen, SameTranslations, Roots
  <2>3. CASE s = cr3 /\ u = pending
    <3>1. Seen(s, u)' = f
      BY <1>2, <1>3, <2>2, <2>3
    <3> QED
      BY <1>4, <1>9, <2>3, <3>1 DEF Content
  <2>4. CASE s \in Built /\ ~(s = cr3 /\ u = pending)
    <3>1. Seen(s, u) = Translate(mem, root[s], u)
      BY <2>4 DEF Seen
    <3>2. ASSUME Seen(s, u) # NoPage
          PROVE  mem'.ram[Seen(s, u)] = mem.ram[Seen(s, u)]
      <4>1. Seen(s, u) # f
        BY <1>2, <1>3, <1>9, <2>4, <3>1, PagesApart
      <4>2. Seen(s, u) \in Pages \ {0}
        BY <2>4, <3>1, <3>2, PageReached
      <4> QED
        BY <1>4, <4>1, <4>2
    <3> QED
      BY <2>2, <2>4, <3>1, <3>2 DEF Content
  <2> QED
    BY <2>1, <2>3, <2>4
<1> QED
  BY <1>4, <1>5, <1>6, <1>7, <1>8, <1>10, <1>11, <1>12 DEF RInv, Content

(* munmap gives back the frame of a heap page, which is allocated: the     *)
(* kernel does not stop; the walk still leads to the frame.                *)
LEMMA MunmapStep ==
  ASSUME RInv, Fifo!IInv, NEW v, SysMunmap(v)
  PROVE  RInv' /\ Changes(cr3, v, None) /\ Seen(cr3, v) # NoPage
<1>1. /\ UNCHANGED <<fifo, fifo_size, cr3, mode, parsed, root>> /\ mode = "user"
      /\ Built' = Built /\ Roots' = Roots /\ Pgt' = Pgt /\ Booting' = Booting /\ ~Booting
      /\ pending = None /\ pending' = v /\ v \in Heap[cr3]
      /\ mem' = Munmap(mem, Pgt, v) /\ tlb' = [u \in DOMAIN tlb \ {v} |-> tlb[u]]
      /\ Translate(mem, Pgt, v) # NoPage
  BY DEF SysMunmap, Running, fifoVars, Built, Roots, Pgt, Uncache, Booting
<1>2. cr3 \in Built /\ cr3 \in Ranks /\ Pgt \in Roots /\ Pgt = root[cr3] /\ v \in User
  BY <1>1, CurrentBuilt, UserPages DEF RInv, Pgt
<1>a. PICK K, par : /\ Tree(mem, Roots, K, par, NoPage)
                    /\ mem.bits = DOMAIN K \ {PendingPage}
  BY DEF RInv, FramesKept
<1>3. mem.bits = DOMAIN K /\ mem \in Memory
  BY <1>1, <1>a, PoolInPages DEF PendingPage, Tree, Shape
<1> DEFINE q == Translate(mem, Pgt, v)
<1>4. q \in DOMAIN K /\ K[q] = "frame" /\ q = PageOf(Entry1(mem, Pgt, v))
  <2>1. q \in Pool
    BY <1>1, <1>2, PageReached
  <2>2. q = PageOf(Entry1(mem, Pgt, v))
    BY <1>1 DEF Translate
  <2> QED
    BY <1>1, <1>2, <1>a, <2>1, <2>2, FrameReached
<1> HIDE DEF q
<1>5. /\ mem' \in Memory /\ mem'.bits = DOMAIN K \ {q} /\ mem'.ram = mem.ram
      /\ mem'.alive = mem.alive
  BY <1>1, <1>3, <1>4 DEF Munmap, FreePage, Memory
<1>6. Tree(mem', Roots, K, par, NoPage) /\ SameTranslations(mem, mem', Roots)
  <2>1. \A x \in Tables(K) \cup (Pool \ DOMAIN K) : mem'.ram[x] = mem.ram[x]
    BY <1>5
  <2> QED
    BY <1>5, <1>a, <2>1, SameTree DEF SameTranslations
<1>7. TasksBuilt'
  BY <1>1 DEF RInv, TasksBuilt
<1>8. MmuKept'
  <2>1. \A u \in User : Translate(mem', Pgt', u) = Translate(mem, Pgt, u)
    BY <1>1, <1>2, <1>6 DEF SameTranslations
  <2>2. /\ DOMAIN tlb' = DOMAIN tlb \ {v}
        /\ \A u \in DOMAIN tlb' : tlb'[u] = tlb[u]
    BY <1>1
  <2>3. DOMAIN tlb' \subseteq VPages \cap User
    BY <2>2 DEF RInv, MmuKept
  <2>4. \A u \in DOMAIN tlb' : /\ tlb'[u] \in Pages
                               /\ tlb'[u] = Translate(mem', Pgt', u)
    BY <1>1, <2>1, <2>2, <2>3 DEF RInv, MmuKept
  <2>5. pending' \in Heap[cr3'] /\ pending' \notin DOMAIN tlb'
    BY <1>1, <2>2
  <2> QED
    BY <1>1, <2>3, <2>4, <2>5 DEF MmuKept
<1>9. FramesKept'
  <2>1. pending' # None => PendingPage' = q
    <3>1. Translate(mem', Pgt', v) = q
      BY <1>1, <1>2, <1>6 DEF SameTranslations, q
    <3> QED
      BY <1>1, <3>1 DEF PendingPage
  <2>2. pending' # None
    BY <1>1, <1>2, UserNotNone
  <2>3. mem'.bits = DOMAIN K \ {PendingPage'}
    BY <1>5, <2>1, <2>2
  <2> QED
    BY <1>1, <1>4, <1>6, <2>1, <2>2, <2>3 DEF FramesKept
<1>10. PayloadPlaces'
  BY <1>1, <1>6 DEF RInv, PayloadPlaces, SameTranslations, Roots
<1>11. PayloadKept'
  BY <1>1, <1>5 DEF RInv, PayloadKept
<1>12. Seen(cr3, v) # NoPage
  BY <1>1, <1>2, UserNotNone DEF Seen
<1>13. Changes(cr3, v, None)
  <2> SUFFICES ASSUME NEW s \in Ranks, NEW u \in User
               PROVE  Content(s, u)' = IF s = cr3 /\ u = v THEN None ELSE Content(s, u)
    BY DEF Changes
  <2>1. ASSUME s \in Built PROVE Translate(mem', root'[s], u) = Translate(mem, root[s], u)
    BY <1>1, <1>6, <2>1 DEF SameTranslations, Roots
  <2>2. Seen(s, u)' = IF s = cr3 /\ u = v THEN NoPage ELSE Seen(s, u)
    BY <1>1, <1>2, <2>1, UserNotNone DEF Seen
  <2> QED
    BY <1>5, <2>2 DEF Content
<1> QED
  BY <1>5, <1>7, <1>8, <1>9, <1>10, <1>11, <1>12, <1>13 DEF RInv

(* A write changes a frame, or a page outside the pool, and no table.      *)
LEMMA WriteStep ==
  ASSUME RInv, Fifo!IInv, NEW v, NEW val \in Values, Write(v, val)
  PROVE  RInv' /\ Changes(cr3, v, Filled(val)) /\ Seen(cr3, v) # NoPage
<1>1. /\ UNCHANGED <<fifo, fifo_size, cr3, mode, parsed, root, tlb, pending>>
      /\ mode = "user" /\ Built' = Built /\ Roots' = Roots /\ Pgt' = Pgt
      /\ Booting' = Booting
      /\ pending = None /\ v \in Loaded(cr3) \cup Stack \cup Heap[cr3]
      /\ mem' = [mem EXCEPT !.ram[Reached(v)] = Filled(val)]
      /\ Reached(v) # NoPage
  BY DEF Write, Touch, Running, fifoVars, Built, Roots, Pgt, Booting
<1>2. /\ cr3 \in Built /\ cr3 \in Ranks /\ Pgt \in Roots /\ Pgt = root[cr3]
      /\ v \in User
  BY <1>1, CurrentBuilt, UserPages DEF RInv, Pgt
<1>a. PICK K, par : /\ Tree(mem, Roots, K, par, NoPage)
                    /\ mem.bits = DOMAIN K \ {PendingPage}
  BY DEF RInv, FramesKept
<1> DEFINE q == Translate(mem, Pgt, v)
<1>3. Reached(v) = q /\ q # NoPage
  BY <1>1, ReachedWalk
<1>4. q \in Pages /\ (q \in Pool => q \in DOMAIN K /\ K[q] = "frame")
  BY <1>2, <1>3, <1>a, PageReached, FrameReached
<1> HIDE DEF q
<1>5. /\ mem' \in Memory /\ mem'.bits = mem.bits /\ mem'.alive = mem.alive
      /\ \A x \in Pages \ {q} : mem'.ram[x] = mem.ram[x]
  <2>1. mem \in Memory
    BY <1>a DEF Tree, Shape
  <2>2. val \in Nat
    BY RackdollAssumption DEF PAGE_SIZE
  <2>3. Filled(val) \in [Indexes -> Nat]
    BY <2>2 DEF Filled
  <2> QED
    BY <1>1, <1>3, <1>4, <2>1, <2>3 DEF Memory
<1>6. Tree(mem', Roots, K, par, NoPage) /\ SameTranslations(mem, mem', Roots)
  <2>1. \A x \in Tables(K) \cup (Pool \ DOMAIN K) : mem'.ram[x] = mem.ram[x]
    <3>1. \A x \in Tables(K) \cup (Pool \ DOMAIN K) : x \in Pages
      BY <1>a, PoolInPages DEF Tree, Shape, Tables
    <3>2. q \notin Tables(K) \cup (Pool \ DOMAIN K)
      BY <1>4, <1>a DEF Tree, Shape, Tables
    <3> QED
      BY <1>5, <3>1, <3>2
  <2> QED
    BY <1>5, <1>a, <2>1, SameTree DEF SameTranslations
<1>7. TasksBuilt'
  BY <1>1 DEF RInv, TasksBuilt
<1>8. MmuKept'
  BY <1>1, <1>2, <1>6 DEF RInv, MmuKept, SameTranslations
<1>9. FramesKept'
  BY <1>1, <1>5, <1>6, <1>a DEF FramesKept, PendingPage
<1>10. PayloadPlaces'
  BY <1>1, <1>6 DEF RInv, PayloadPlaces, SameTranslations, Roots
<1>11. PayloadKept'
  <2> SUFFICES ASSUME NEW s \in Ranks \ Built, NEW k \in 0 .. Images[s].payload - 1
               PROVE  mem'.ram[Images[s].page + k] = mem.ram[Images[s].page + k]
    BY <1>1 DEF RInv, PayloadKept
  <2>1. q # Images[s].page + k
    <3>1. CASE q \in Pool
      BY <3>1, PayloadPage
    <3>2. CASE q \notin Pool
      <4>a. PICK j \in 0 .. Images[cr3].payload - 1 : q = Images[cr3].page + j
        BY <1>2, <1>3, <3>2 DEF RInv, PayloadPlaces, q
      <4> QED
        BY <1>2, <4>a, RackdollAssumption
    <3> QED
      BY <3>1, <3>2
  <2> QED
    BY <1>5, <2>1, PayloadPage
<1>12. Seen(cr3, v) = q
  BY <1>1, <1>2, UserNotNone DEF Seen, q
<1>13. Changes(cr3, v, Filled(val))
  <2> SUFFICES ASSUME NEW s \in Ranks, NEW u \in User
               PROVE  Content(s, u)' =
                        IF s = cr3 /\ u = v THEN Filled(val) ELSE Content(s, u)
    BY DEF Changes
  <2>1. ASSUME s \in Built PROVE Translate(mem', root'[s], u) = Translate(mem, root[s], u)
    BY <1>1, <1>6, <2>1 DEF SameTranslations, Roots
  <2>2. Seen(s, u)' = Seen(s, u)
    BY <1>1, <2>1 DEF Seen
  <2>3. CASE s = cr3 /\ u = v
    <3>1. mem'.ram[q] = Filled(val)
      <4>1. mem \in Memory
        BY <1>a DEF Tree, Shape
      <4> QED
        BY <1>1, <1>3, <1>4, <4>1 DEF Memory
    <3> QED
      BY <1>3, <1>12, <2>2, <2>3, <3>1 DEF Content
  <2>4. CASE ~(s = cr3 /\ u = v)
    <3>1. ASSUME Seen(s, u) # NoPage
          PROVE  mem'.ram[Seen(s, u)] = mem.ram[Seen(s, u)]
      <4>1. s \in Built /\ Seen(s, u) = Translate(mem, root[s], u)
        BY <3>1 DEF Seen
      <4>2. Seen(s, u) # q
        BY <1>2, <1>3, <2>4, <4>1, PagesApart DEF q
      <4>3. Seen(s, u) \in Pages
        BY <3>1, <4>1, PageReached
      <4> QED
        BY <1>5, <4>2, <4>3
    <3> QED
      BY <2>2, <2>4, <3>1 DEF Content
  <2> QED
    BY <2>3, <2>4
<1> QED
  BY <1>3, <1>5, <1>7, <1>8, <1>9, <1>10, <1>11, <1>12, <1>13 DEF RInv

(* A read caches the translation it used.                                  *)
LEMMA ReadStep ==
  ASSUME RInv, Fifo!IInv, NEW v \in VPages, Read(v)
  PROVE  RInv' /\ ContentsKept
<1>1. /\ UNCHANGED <<fifo, fifo_size, cr3, mode, parsed, mem, root, pending>>
      /\ mode = "user" /\ Built' = Built /\ Roots' = Roots /\ Pgt' = Pgt /\ ~Booting'
      /\ pending = None /\ v \in Loaded(cr3) \cup Stack \cup Heap[cr3]
      /\ tlb' = [u \in {v} |-> Reached(v)] /\ Reached(v) # NoPage
  BY DEF Read, Touch, Running, fifoVars, Built, Roots, Pgt, Booting
<1>2. cr3 \in Built /\ cr3 \in Ranks /\ Pgt = root[cr3] /\ v \in User
  BY <1>1, CurrentBuilt, UserPages DEF RInv, Pgt
<1>3. Reached(v) = Translate(mem, Pgt, v)
  BY <1>1, ReachedWalk
<1>4. Translate(mem, Pgt, v) \in Pages
  BY <1>1, <1>2, <1>3, PageReached
<1>5. TasksBuilt'
  BY <1>1 DEF RInv, TasksBuilt
<1>6. MmuKept'
  BY <1>1, <1>2, <1>3, <1>4 DEF RInv, MmuKept
<1>7. FramesKept' /\ PayloadPlaces' /\ PayloadKept'
  BY <1>1 DEF RInv, FramesKept, PayloadPlaces, PayloadKept, PendingPage
<1>8. ContentsKept
  BY <1>1 DEF ContentsKept, Content, Seen
<1> QED
  BY <1>1, <1>5, <1>6, <1>7, <1>8 DEF RInv

(* The calls that only reorder the fifo: cr3 changes, the tables do not.   *)
LEMMA SchedStep ==
  ASSUME RInv, Fifo!IInv, pending = None, UNCHANGED <<mem, root, pending>>,
         \/ LoadDone \/ NothingToRun \/ EnterTasks \/ Yield \/ Leave \/ Fork
  PROVE  RInv' /\ ContentsKept
<1>1. /\ parsed' = parsed
      /\ \A i \in 0 .. fifo_size' - 1 :
           \E j \in 0 .. fifo_size - 1 : fifo'[i].pgt = fifo[j].pgt
  <2>1. \/ Sched!LoadDone \/ Sched!NothingToRun \/ Sched!EnterTasks
        \/ Sched!Yield \/ Sched!Exit \/ Sched!Fork
    BY DEF LoadDone, NothingToRun, EnterTasks, Yield, Leave, Fork
  <2> QED
    BY <2>1, PgtsKept
<1>2. Built' = Built /\ Roots' = Roots
  BY DEF Built, Roots
<1>3. TasksBuilt'
  BY <1>1, <1>2 DEF RInv, TasksBuilt
<1>4. \/ tlb' = << >>
      \/ tlb' = tlb /\ cr3' = cr3 /\ (Booting' => Booting)
  <2> USE DEF Booting
  <2>1. CASE LoadDone \/ NothingToRun
    BY <2>1 DEF LoadDone, NothingToRun, Sched!LoadDone, Sched!NothingToRun, memVars
  <2>2. CASE EnterTasks \/ Yield
    BY <2>2 DEF EnterTasks, Yield, FlushTlb
  <2>3. CASE Leave
    BY <2>3 DEF Leave, FlushTlb, Sched!Exit, Sched!LeaveTask
  <2>4. CASE Fork
    BY <2>4 DEF Fork, Sched!Fork, memVars
  <2> QED
    BY <2>1, <2>2, <2>3, <2>4
<1>5. MmuKept'
  <2>1. CASE tlb' = << >>
    <3>1. DOMAIN tlb' = {}
      BY <2>1
    <3> QED
      BY <2>1, <3>1 DEF MmuKept
  <2>2. CASE tlb' = tlb /\ cr3' = cr3 /\ (Booting' => Booting)
    BY <2>2 DEF RInv, MmuKept, Pgt
  <2> QED
    BY <1>4, <2>1, <2>2
<1>6. FramesKept' /\ PayloadPlaces' /\ PayloadKept'
  <2>1. PendingPage = NoPage /\ PendingPage' = NoPage
    BY DEF PendingPage
  <2> QED
    BY <1>2, <2>1 DEF RInv, FramesKept, PayloadPlaces, PayloadKept
<1>7. ContentsKept
  BY <1>2, UserNotNone DEF ContentsKept, Content, Seen
<1> QED
  BY <1>3, <1>5, <1>6, <1>7 DEF RInv

(* Every step of the kernel keeps the invariant while a page is left.      *)
LEMMA NextRInv ==
  ASSUME OneBssPage, RInv, Fifo!IInv, PoolSuffices', [Next]_vars
  PROVE  RInv'
<1>1. CASE ParseTask
  BY <1>1, ParseSkips, ParseTakes
<1>2. CASE LoadDone \/ NothingToRun \/ EnterTasks
  <2>1. mode # "user" /\ UNCHANGED <<mem, root, pending>>
    BY <1>2 DEF LoadDone, NothingToRun, EnterTasks, Sched!LoadDone,
                Sched!NothingToRun, Sched!EnterTasks, memVars
  <2>2. pending = None
    BY <2>1 DEF RInv, MmuKept
  <2> QED
    BY <1>2, <2>1, <2>2, SchedStep
<1>3. CASE Yield \/ Exit \/ Fork
  <2>1. pending = None /\ UNCHANGED <<mem, root, pending>>
    BY <1>3 DEF Yield, Exit, Leave, Fork, memVars
  <2> QED
    BY <1>3, <2>1, SchedStep DEF Exit
<1>4. ASSUME NEW v \in VPages, Read(v) PROVE RInv'
  BY <1>4, ReadStep
<1>5. ASSUME NEW v \in VPages, NEW val \in Values, Write(v, val) PROVE RInv'
  BY <1>5, WriteStep
<1>6. ASSUME NEW v \in Stack \cup Strays, Fault(v) PROVE RInv'
  <2>1. CASE UserAddress(v)
    <3>1. v \in VPages
      BY DEF VPages
    <3>2. v \in User
      BY <2>1, <3>1, UserPages
    <3>3. /\ mode = "user" /\ pending = None /\ pending' = None
          /\ Reached(v) = NoPage /\ mem' = Mmap(mem, Pgt, v)
          /\ UNCHANGED <<fifoVars, root, tlb>>
      BY <1>6, <2>1 DEF Fault, Running
    <3>4. Translate(mem, Pgt, v) = NoPage
      BY <3>3, ReachedWalk
    <3> QED
      BY <3>2, <3>3, <3>4, MapStep
  <2>2. CASE ~UserAddress(v)
    <3>1. Leave /\ pending = None /\ UNCHANGED <<mem, root, pending>>
      BY <1>6, <2>2 DEF Fault, Leave
    <3> QED
      BY <3>1, SchedStep
  <2> QED
    BY <2>1, <2>2
<1>7. ASSUME NEW v \in VPages, SysMmap(v) PROVE RInv'
  <2>1. /\ mode = "user" /\ v \in Heap[cr3] /\ pending' = None
        /\ mem' = Mmap(mem, Pgt, v) /\ UNCHANGED <<fifoVars, root, tlb>>
        /\ pending = None => Translate(mem, Pgt, v) = NoPage
        /\ pending # None => v = pending
    BY <1>7 DEF SysMmap, Running
  <2>2. v \in User
    BY <2>1, CurrentBuilt, UserPages DEF RInv
  <2>3. CASE pending = None
    BY <2>1, <2>2, <2>3, MapStep
  <2>4. CASE pending # None
    BY <2>1, <2>4, RemapStep
  <2> QED
    BY <2>3, <2>4
<1>8. ASSUME NEW v \in VPages, SysMunmap(v) PROVE RInv'
  BY <1>8, MunmapStep
<1>9. CASE Halted \/ UNCHANGED vars
  <2>1. UNCHANGED vars
    BY <1>9 DEF Halted
  <2> QED
    <3>1. /\ UNCHANGED <<mem, root, tlb, pending, cr3, mode, fifo, fifo_size, parsed>>
          /\ Built' = Built /\ Roots' = Roots /\ Pgt' = Pgt
          /\ PendingPage' = PendingPage /\ Booting' = Booting
      BY <2>1 DEF vars, fifoVars, memVars, Built, Roots, Pgt, PendingPage, Booting
    <3>2. TasksBuilt' /\ MmuKept'
      BY <3>1 DEF RInv, TasksBuilt, MmuKept
    <3>3. FramesKept' /\ PayloadPlaces' /\ PayloadKept'
      BY <3>1 DEF RInv, FramesKept, PayloadPlaces, PayloadKept
    <3> QED
      BY <3>1, <3>2, <3>3 DEF RInv
<1> QED
  BY <1>1, <1>2, <1>3, <1>4, <1>5, <1>6, <1>7, <1>8, <1>9 DEF Next
-------------------------------------------------------------------------------
(* The inductive invariant holds as long as the pool has a page left.      *)
THEOREM RInvInvariance == ASSUME OneBssPage PROVE Spec /\ []PoolSuffices => []RInv
<1>1. RInv /\ Fifo!IInv /\ PoolSuffices' /\ [Next]_vars => RInv'
  BY NextRInv
<1> QED
  BY <1>1, InitRInv, FifoInvariant, PTL DEF Spec

(* The invariant gives every type.                                         *)
LEMMA TypeKept == RInv /\ Fifo!IInv => TypeOK
<1> SUFFICES ASSUME RInv, Fifo!IInv PROVE TypeOK
  OBVIOUS
<1>1. mem \in Memory
  BY DEF RInv, FramesKept, Tree, Shape
<1>2. pending # None => pending \in VPages
  <2>1. pending # None => cr3 \in Ranks
    BY CurrentBuilt DEF RInv, MmuKept
  <2> QED
    BY <2>1, UserPages DEF RInv, MmuKept
<1> QED
  BY <1>1, <1>2 DEF RInv, TasksBuilt, MmuKept, TypeOK

(* Every page free is past the used ones, and zero.                        *)
LEMMA FreeClean == RInv => FreeFramesClean
<1> SUFFICES ASSUME RInv, pending = None, NEW p \in Free(mem)
             PROVE  mem.ram[p] = ZeroContent
  BY DEF FreeFramesClean
<1>a. PICK K, par : /\ Tree(mem, Roots, K, par, NoPage)
                    /\ mem.bits = DOMAIN K \ {PendingPage}
  BY DEF RInv, FramesKept
<1>1. p \in Pool \ DOMAIN K
  BY <1>a, PoolInPages DEF PendingPage, Free
<1> QED
  BY <1>1, <1>a DEF Tree, FreeZero

(* The used pages of some kinds.                                           *)
Of(K, ks) == {q \in DOMAIN K : K[q] \in ks}

(* The tables of a level lead to those of the level below, and to no other.*)
LEMMA BelowKinds ==
  ASSUME NEW R, NEW K, NEW par, Tree(mem, R, K, par, NoPage),
         NEW ks \in SUBSET (Kinds \ {"frame"}), NEW below \in SUBSET (Kinds \ {"pml4"}),
         \A k \in Kinds \ {"frame"}, i \in Indexes : Child(k, i) \in below <=> k \in ks
  PROVE  Below(Of(K, ks)) = Of(K, below)
<1>1. /\ DOMAIN K \subseteq Pool /\ \A q \in DOMAIN K : K[q] \in Kinds
      /\ \A q \in R : K[q] = "pml4"
  BY DEF Tree, Shape
<1>2. Of(K, ks) \subseteq Tables(K)
  BY DEF Of, Tables
<1>3. ASSUME NEW q \in Below(Of(K, ks)) PROVE q \in Of(K, below)
  <2>a. PICK e \in Entries(Of(K, ks)) : q = Target(e) /\ q \in Pool
    BY <1>3 DEF Below
  <2>b. PICK x \in Of(K, ks), j \in Indexes : e = <<x, j>>
    BY <2>a DEF Entries
  <2>1. Present(Word(mem, x, j)) /\ q = PageOf(Word(mem, x, j))
    BY <2>a, <2>b DEF Entries, Target
  <2>2. x \in Tables(K) /\ K[x] \in ks /\ K[x] \in Kinds \ {"frame"}
    BY <1>1, <1>2, <2>b DEF Of
  <2>3. q \in DOMAIN K /\ K[q] = Child(K[x], j)
    <3>1. PageOf(Word(mem, x, j)) \in Pool
      BY <2>a, <2>1
    <3> QED
      BY <2>1, <2>2, <3>1, ChildKind
  <2> QED
    BY <2>2, <2>3 DEF Of
<1>4. ASSUME NEW q \in Of(K, below) PROVE q \in Below(Of(K, ks))
  <2>1. q \in DOMAIN K /\ K[q] \in below /\ q \in Pool /\ q \notin R \cup {NoPage}
    BY <1>1, <1>4, PoolInPages DEF Of
  <2>a. PICK x \in Tables(K), j \in Indexes :
          Present(Word(mem, x, j)) /\ PageOf(Word(mem, x, j)) = q
    BY <2>1 DEF Tree, EachHasParent
  <2>2. Child(K[x], j) \in below
    <3>1. PageOf(Word(mem, x, j)) \in Pool
      BY <2>1, <2>a
    <3> QED
      BY <2>1, <2>a, <3>1, ChildKind
  <2>3. x \in Of(K, ks)
    BY <1>1, <2>2, <2>a DEF Of, Tables
  <2>4. <<x, j>> \in Entries(Of(K, ks)) /\ Target(<<x, j>>) = q
    BY <2>3, <2>a DEF Entries, Target
  <2> QED
    BY <2>1, <2>4 DEF Below
<1> QED
  BY <1>3, <1>4

(* The three levels under the roots hold every table.                      *)
LEMMA LevelsHoldTables ==
  ASSUME NEW R, NEW K, NEW par, Tree(mem, R, K, par, NoPage)
  PROVE  R \cup Below(R) \cup Below(Below(R)) \cup Below(Below(Below(R))) = Tables(K)
<1>1. R = Of(K, {"pml4"})
  BY DEF Tree, Shape, Of
<1>2. Below(Of(K, {"pml4"})) = Of(K, {"kpml3", "pml3"})
  <2>1. \A k \in Kinds \ {"frame"}, i \in Indexes :
          Child(k, i) \in {"kpml3", "pml3"} <=> k \in {"pml4"}
    BY DEF Kinds, Child
  <2>2. /\ {"pml4"} \in SUBSET (Kinds \ {"frame"})
        /\ {"kpml3", "pml3"} \in SUBSET (Kinds \ {"pml4"})
    BY DEF Kinds
  <2> QED
    BY <2>1, <2>2, BelowKinds
<1>3. Below(Of(K, {"kpml3", "pml3"})) = Of(K, {"kpml2", "pml2"})
  <2>1. \A k \in Kinds \ {"frame"}, i \in Indexes :
          Child(k, i) \in {"kpml2", "pml2"} <=> k \in {"kpml3", "pml3"}
    BY DEF Kinds, Child
  <2>2. /\ {"kpml3", "pml3"} \in SUBSET (Kinds \ {"frame"})
        /\ {"kpml2", "pml2"} \in SUBSET (Kinds \ {"pml4"})
    BY DEF Kinds
  <2> QED
    BY <2>1, <2>2, BelowKinds
<1>4. Below(Of(K, {"kpml2", "pml2"})) = Of(K, {"kpml1", "pml1"})
  <2>1. \A k \in Kinds \ {"frame"}, i \in Indexes :
          Child(k, i) \in {"kpml1", "pml1"} <=> k \in {"kpml2", "pml2"}
    BY DEF Kinds, Child
  <2>2. /\ {"kpml2", "pml2"} \in SUBSET (Kinds \ {"frame"})
        /\ {"kpml1", "pml1"} \in SUBSET (Kinds \ {"pml4"})
    BY DEF Kinds
  <2> QED
    BY <2>1, <2>2, BelowKinds
<1>5. /\ Below(R) = Of(K, {"kpml3", "pml3"})
      /\ Below(Below(R)) = Of(K, {"kpml2", "pml2"})
      /\ Below(Below(Below(R))) = Of(K, {"kpml1", "pml1"})
  BY <1>1, <1>2, <1>3, <1>4
<1>6. \A q \in DOMAIN K : K[q] \in Kinds
  BY DEF Tree, Shape
<1> QED
  BY <1>1, <1>5, <1>6 DEF Of, Tables, Kinds

(* An allocated page has its parent entry, or is a root; a free one has no *)
(* entry that refers to it.                                                *)
LEMMA OneOwner == RInv => OneOwnerPerFrame
<1> SUFFICES ASSUME RInv, NEW p \in Pool \ {PendingPage}
             PROVE  Cardinality({e \in References : Held(e) = p})
                      = IF p \in mem.bits THEN 1 ELSE 0
  BY DEF OneOwnerPerFrame
<1>a. PICK K, par : /\ Tree(mem, Roots, K, par, NoPage)
                    /\ mem.bits = DOMAIN K \ {PendingPage}
  BY DEF RInv, FramesKept
<1> DEFINE Holders == {e \in References : Held(e) = p}
<1>1. References = {e \in Tables(K) \X Indexes : Present(Word(mem, e[1], e[2]))}
                     \cup {<<NoPage, r>> : r \in Roots}
  <2>1. Roots = {root[s] : s \in Built}
    BY DEF Roots
  <2>2. Roots \cup Below(Roots) \cup Below(Below(Roots)) \cup Below(Below(Below(Roots)))
          = Tables(K)
    BY <1>a, LevelsHoldTables
  <2>3. References = Entries(Tables(K)) \cup {<<NoPage, root[s]>> : s \in Built}
    <3>1. References = Entries(Roots \cup Below(Roots) \cup Below(Below(Roots))
                                 \cup Below(Below(Below(Roots))))
                         \cup {<<NoPage, root[s]>> : s \in Built}
      BY DEF References, Roots
    <3> QED
      BY <2>2, <3>1
  <2> QED
    BY <2>1, <2>3 DEF Entries
<1>2. /\ NoPage \notin Tables(K) /\ Roots \subseteq DOMAIN K /\ DOMAIN K \subseteq Pool
  BY <1>a, PoolInPages DEF Tree, Shape, Tables
<1>3. \A x \in Tables(K), j \in Indexes :
        Present(Word(mem, x, j)) /\ PageOf(Word(mem, x, j)) = p =>
          p \in DOMAIN K /\ p \notin Roots /\ par[p] = <<x, j>>
  BY <1>a, TargetUsed DEF Tree, OneParent
<1>4. \A x \in Tables(K), j \in Indexes :
        Held(<<x, j>>) = PageOf(Word(mem, x, j))
  BY <1>2 DEF Held, Target
<1>5. \A r \in Roots : Held(<<NoPage, r>>) = r
  BY DEF Held
<1>6. CASE p \in Roots
  <2>1. Holders = {<<NoPage, p>>}
    BY <1>1, <1>3, <1>4, <1>5, <1>6
  <2>2. p \in mem.bits
    BY <1>2, <1>6, <1>a
  <2> HIDE DEF Holders
  <2>3. Cardinality(Holders) = 1
    BY <2>1, FS_Singleton
  <2> QED
    BY <2>2, <2>3 DEF Holders
<1>7. CASE p \in DOMAIN K \ Roots
  <2>a. PICK x \in Tables(K), j \in Indexes :
          /\ par[p] = <<x, j>> /\ Present(Word(mem, x, j)) /\ PageOf(Word(mem, x, j)) = p
    BY <1>7, <1>a, <1>2, PoolInPages DEF Tree, EachHasParent
  <2>1. Holders = {<<x, j>>}
    BY <1>1, <1>3, <1>4, <1>5, <1>7, <2>a
  <2>2. p \in mem.bits
    BY <1>7, <1>a
  <2> HIDE DEF Holders
  <2>3. Cardinality(Holders) = 1
    BY <2>1, FS_Singleton
  <2> QED
    BY <2>2, <2>3 DEF Holders
<1>8. CASE p \notin DOMAIN K
  <2>1. Holders = {}
    BY <1>1, <1>2, <1>3, <1>4, <1>5, <1>8
  <2>2. p \notin mem.bits
    BY <1>8, <1>a
  <2> HIDE DEF Holders
  <2>3. Cardinality(Holders) = 0
    BY <2>1, FS_EmptySet
  <2> QED
    BY <2>2, <2>3 DEF Holders
<1> QED
  BY <1>6, <1>7, <1>8

(* Theorem: the types of Rackdoll's state, for every pool and every list   *)
(* of modules; in particular every root and every cached translation is a  *)
(* page of the machine.                                                    *)
THEOREM TypeCorrect == ASSUME OneBssPage PROVE Spec /\ []PoolSuffices => []TypeOK
BY RInvInvariance, FifoInvariant, TypeKept, PTL

(* Theorem: a frame is marked allocated exactly when one entry or one      *)
(* task's pgt refers to it, and never two (memory.c:19-52, 107-140).       *)
THEOREM OneOwnerAlways ==
  ASSUME OneBssPage PROVE Spec /\ []PoolSuffices => []OneOwnerPerFrame
BY RInvInvariance, OneOwner, PTL

(* Theorem: alloc_page's pages are zero whenever map_page may take one as  *)
(* a table (memory.c:119-124).                                             *)
THEOREM FreeFramesAlwaysClean ==
  ASSUME OneBssPage PROVE Spec /\ []PoolSuffices => []FreeFramesClean
BY RInvInvariance, FreeClean, PTL

(* Theorem: the TLB never disagrees with the table in CR3.                 *)
THEOREM TlbAlwaysCoherent ==
  ASSUME OneBssPage PROVE Spec /\ []PoolSuffices => []TlbCoherent
<1>1. RInv => TlbCoherent
  BY DEF RInv, MmuKept, TlbCoherent, Running
<1> QED
  BY <1>1, RInvInvariance, PTL

(* Theorem: no frame is freed twice and no store leaves the machine, so    *)
(* die() is never reached before the goodbye.                              *)
THEOREM KernelAlwaysUp ==
  ASSUME OneBssPage PROVE Spec /\ []PoolSuffices => []KernelStaysUp
<1>1. RInv => KernelStaysUp
  BY DEF RInv, KernelStaysUp
<1> QED
  BY <1>1, RInvInvariance, PTL
-------------------------------------------------------------------------------
(* A user's access to the kernel's first GiB is refused: its tables have   *)
(* no entry that allows it.                                                *)
LEMMA KernelNotReached ==
  ASSUME NEW m, NEW R, NEW K, NEW par, NEW loose, Tree(m, R, K, par, loose),
         NEW r \in R, NEW v \in Virtual \ User
  PROVE  Translate(m, r, v) = NoPage
<1>1. v[1] = 0 /\ v[2] = 0 /\ v[3] \in Indexes /\ 0 \in Indexes
  BY KernelMemoryAssumption DEF User, Virtual, Indexes
<1>2. DOMAIN K \subseteq Nat /\ r \in DOMAIN K /\ K[r] = "pml4"
  BY PoolInPages DEF Tree, Shape
<1>3. \A p \in Tables(K), i \in Indexes : Legal(K, K[p], i, Word(m, p, i))
  BY DEF Tree, AllLegal
<1> SUFFICES ASSUME Present(Entry4(m, r, v)), Present(Entry3(m, r, v))
             PROVE  ~UserAllowed(Entry2(m, r, v))
  BY DEF Translate
<1>a. PICK t3 \in DOMAIN K : Word(m, r, 0) = UserPte(t3) /\ K[t3] = "kpml3"
  <2>1. r \in Tables(K) /\ "pml4" \in Upper /\ Child("pml4", 0) = "kpml3"
    BY <1>2 DEF Tables, Upper, Child
  <2>2. Present(Word(m, r, 0))
    BY <1>1 DEF Entry4, Index
  <2> QED
    BY <1>1, <1>2, <1>3, <2>1, <2>2, Ptes DEF Legal
<1>4. Entry3(m, r, v) = Word(m, t3, 0)
  BY <1>1, <1>2, <1>a, Ptes DEF Entry3, Entry4, Index
<1>b. PICK t2 \in DOMAIN K : Word(m, t3, 0) = UserPte(t2) /\ K[t2] = "kpml2"
  <2>1. t3 \in Tables(K) /\ "kpml3" \in Upper /\ Child("kpml3", 0) = "kpml2"
    BY <1>a DEF Tables, Upper, Child
  <2> QED
    BY <1>1, <1>2, <1>3, <1>4, <1>a, <2>1, Ptes DEF Legal
<1>5. Entry2(m, r, v) = Word(m, t2, v[3])
  BY <1>2, <1>4, <1>b, Ptes DEF Entry2, Index
<1>6. t2 \in Tables(K) /\ Legal(K, "kpml2", v[3], Word(m, t2, v[3]))
  BY <1>1, <1>3, <1>b DEF Tables
<1>7. ~UserAllowed(0)
  BY DEF UserAllowed
<1> QED
  BY <1>2, <1>5, <1>6, <1>7, Ptes DEF Legal

(* The view of the refinement is the content each space has.               *)
Contents == [s \in 0 .. Len(Modules) |-> [v \in VPages |-> Content(s, v)]]

(* The cached translations and the walk agree, so the view of the          *)
(* refinement is the content of each space.                                *)
LEMMA ViewIsContents ==
  RInv => Contents = [s \in 0 .. Len(Modules) |-> [v \in VPages |->
                        IF View(s, v) = NoPage THEN None ELSE mem.ram[View(s, v)]]]
<1> SUFFICES ASSUME RInv, NEW s \in 0 .. Len(Modules), NEW v \in VPages
             PROVE  View(s, v) = Seen(s, v)
  BY DEF Contents, Content
<1>1. CASE s \notin Built
  BY <1>1 DEF View, Seen
<1>2. CASE s \in Built
  <2>1. v \notin User => Translate(mem, root[s], v) = NoPage
    <3>a. PICK K, par : Tree(mem, Roots, K, par, NoPage)
      BY DEF RInv, FramesKept
    <3>1. v \in Virtual /\ root[s] \in Roots
      BY <1>2, RackdollAssumption DEF Virtual, Roots
    <3> QED
      BY <3>a, <3>1, KernelNotReached
  <2>2. s = cr3 /\ v \in DOMAIN tlb => tlb[v] = Translate(mem, root[s], v)
    BY DEF RInv, MmuKept, Pgt
  <2> QED
    BY <1>2, <2>1, <2>2 DEF View, Seen
<1> QED
  BY <1>1, <1>2

(* What a step does to the contents: nothing, one page of the space in use,*)
(* or the image of a new space.                                            *)
OnePageChanges ==
  /\ cr3 \in Ranks
  /\ \E v \in VPages \cap User :
       \/ Content(cr3, v) = None /\ Changes(cr3, v, ZeroContent)
       \/ Content(cr3, v) # None /\ Changes(cr3, v, None)
       \/ Content(cr3, v) # None /\ \E val \in Values : Changes(cr3, v, Filled(val))

(* A page that is mapped has a content.                                    *)
LEMMA ContentMapped ==
  ASSUME RInv, NEW s \in Ranks, NEW v \in User, Seen(s, v) # NoPage
  PROVE  Content(s, v) # None
<1>1. Seen(s, v) \in Pages
  BY PageReached DEF Seen
<1>2. mem \in Memory
  BY DEF RInv, FramesKept, Tree, Shape
<1>3. DOMAIN mem.ram[Seen(s, v)] = Indexes /\ 0 \in Indexes
  BY <1>1, <1>2, KernelMemoryAssumption DEF Memory, Indexes
<1>4. DOMAIN None = {}
  BY DEF None
<1>5. mem.ram[Seen(s, v)] # None
  BY <1>3, <1>4
<1> QED
  BY <1>5 DEF Content

(* Each handler makes one of those changes.                                *)
LEMMA StepContents ==
  ASSUME OneBssPage, RInv, RInv', Fifo!IInv, Fifo!IInv', PoolSuffices', [Next]_vars
  PROVE  \/ ContentsKept /\ cr3' \in {cr3} \cup Ranks
         \/ cr3' = cr3 /\ OnePageChanges
         \/ cr3' = cr3 /\ \E s \in Ranks : Loads(s)
<1>1. CASE ParseTask
  <2>1. cr3' = cr3
    BY <1>1 DEF ParseTask, Sched!ParseTask
  <2>2. CASE fifo_size' = fifo_size
    BY <1>1, <2>1, <2>2, ParseSkips
  <2>3. CASE fifo_size' # fifo_size
    BY <1>1, <2>1, <2>3, ParseTakes DEF Loads
  <2> QED
    BY <2>2, <2>3
<1>2. ASSUME \/ LoadDone \/ NothingToRun \/ EnterTasks \/ Yield \/ Leave \/ Fork,
             pending = None, UNCHANGED <<mem, root, pending>>
      PROVE  ContentsKept /\ cr3' \in {cr3} \cup Ranks
  <2>1. ContentsKept
    BY <1>2, SchedStep
  <2>2. mode' = "user" => cr3' \in Ranks
    <3>1. ASSUME mode' = "user" PROVE cr3' \in Ranks
      <4>1. TasksBuilt'
        BY DEF RInv
      <4>2. fifo_run' < fifo_size' /\ cr3' = fifo'[fifo_run'].pgt
        BY <3>1 DEF Fifo!IInv, Fifo!CurrentIsRunning
      <4>3. fifo_run' \in Nat /\ fifo_size' \in Nat
        <5>1. fifo_run' \in Fifo!Slots /\ fifo_size' \in 0 .. TASK_FIFO_LEN
          BY DEF Fifo!IInv, Fifo!TypeOK, Fifo!Slots
        <5> QED
          BY <5>1, FifoConstants DEF Fifo!Slots
      <4>4. fifo_run' \in 0 .. fifo_size' - 1
        <5>1. \A i, n \in Nat : i < n => i \in 0 .. n - 1
          OBVIOUS
        <5> QED
          BY <4>2, <4>3, <5>1
      <4> QED
        BY <4>1, <4>2, <4>4 DEF TasksBuilt, Built
    <3> QED
      BY <3>1
  <2>3. mode' # "user" => cr3' = cr3
    BY <1>2 DEF LoadDone, NothingToRun, EnterTasks, Yield, Leave, Fork,
                Sched!LoadDone, Sched!NothingToRun, Sched!EnterTasks, Sched!Yield,
                Sched!Exit, Sched!LeaveTask, Sched!Fork
  <2> QED
    BY <2>1, <2>2, <2>3
<1>3. CASE LoadDone \/ NothingToRun \/ EnterTasks
  <2>1. mode # "user" /\ UNCHANGED <<mem, root, pending>>
    BY <1>3 DEF LoadDone, NothingToRun, EnterTasks, Sched!LoadDone,
                Sched!NothingToRun, Sched!EnterTasks, memVars
  <2>2. pending = None
    BY <2>1 DEF RInv, MmuKept
  <2> QED
    BY <1>2, <1>3, <2>1, <2>2
<1>4. CASE Yield \/ Exit \/ Fork
  <2>1. pending = None /\ UNCHANGED <<mem, root, pending>>
    BY <1>4 DEF Yield, Exit, Leave, Fork, memVars
  <2> QED
    BY <1>2, <1>4, <2>1 DEF Exit
<1>5. ASSUME NEW v \in VPages, Read(v) PROVE ContentsKept /\ cr3' = cr3
  BY <1>5, ReadStep DEF Read, fifoVars
<1>6. mode = "user" => /\ cr3 \in Ranks
                       /\ Loaded(cr3) \cup Heap[cr3] \cup Stack \subseteq User
  BY CurrentBuilt, UserPages DEF RInv
<1>7. ASSUME NEW v \in VPages, NEW val \in Values, Write(v, val)
      PROVE  OnePageChanges /\ cr3' = cr3
  <2>1. cr3' = cr3 /\ cr3 \in Ranks /\ v \in User
    BY <1>6, <1>7 DEF Write, Touch, Running, fifoVars
  <2>2. Changes(cr3, v, Filled(val)) /\ Seen(cr3, v) # NoPage
    BY <1>7, WriteStep
  <2>3. Content(cr3, v) # None
    BY <2>1, <2>2, ContentMapped
  <2> QED
    BY <2>1, <2>2, <2>3 DEF OnePageChanges
<1>8. ASSUME NEW v \in Stack \cup Strays, Fault(v), UserAddress(v)
      PROVE  OnePageChanges /\ cr3' = cr3
  <2>1. v \in VPages /\ v \in User
    <3>1. v \in VPages
      BY DEF VPages
    <3> QED
      BY <1>8, <3>1, UserPages
  <2>2. /\ mode = "user" /\ pending = None /\ pending' = None
        /\ Reached(v) = NoPage /\ mem' = Mmap(mem, Pgt, v)
        /\ UNCHANGED <<fifoVars, root, tlb>> /\ cr3' = cr3
    BY <1>8 DEF Fault, Running, fifoVars
  <2>3. Translate(mem, Pgt, v) = NoPage
    BY <2>2, ReachedWalk
  <2>4. Changes(cr3, v, ZeroContent) /\ Content(cr3, v) = None
    BY <2>1, <2>2, <2>3, MapStep
  <2> QED
    BY <1>6, <2>1, <2>2, <2>4 DEF OnePageChanges
<1>9. ASSUME NEW v \in Stack \cup Strays, Fault(v), ~UserAddress(v)
      PROVE  ContentsKept /\ cr3' \in {cr3} \cup Ranks
  <2>1. Leave /\ pending = None /\ UNCHANGED <<mem, root, pending>>
    BY <1>9 DEF Fault, Leave
  <2> QED
    BY <1>2, <2>1
<1>10. ASSUME NEW v \in VPages, SysMmap(v) PROVE OnePageChanges /\ cr3' = cr3
  <2>1. /\ mode = "user" /\ v \in Heap[cr3] /\ pending' = None /\ cr3' = cr3
        /\ mem' = Mmap(mem, Pgt, v) /\ UNCHANGED <<fifoVars, root, tlb>>
        /\ pending = None => Translate(mem, Pgt, v) = NoPage
        /\ pending # None => v = pending
    BY <1>10 DEF SysMmap, Running, fifoVars
  <2>2. v \in User
    BY <1>6, <2>1
  <2>3. Changes(cr3, v, ZeroContent) /\ Content(cr3, v) = None
    <3>1. CASE pending = None
      BY <2>1, <2>2, <3>1, MapStep
    <3>2. CASE pending # None
      BY <2>1, <3>2, RemapStep
    <3> QED
      BY <3>1, <3>2
  <2> QED
    BY <1>6, <2>1, <2>2, <2>3 DEF OnePageChanges
<1>11. ASSUME NEW v \in VPages, SysMunmap(v) PROVE OnePageChanges /\ cr3' = cr3
  <2>1. /\ mode = "user" /\ v \in Heap[cr3] /\ cr3' = cr3
    BY <1>11 DEF SysMunmap, Running, fifoVars
  <2>2. Changes(cr3, v, None) /\ Seen(cr3, v) # NoPage
    BY <1>11, MunmapStep
  <2>3. cr3 \in Ranks /\ v \in User
    BY <1>6, <2>1
  <2>4. Content(cr3, v) # None
    BY <2>2, <2>3, ContentMapped
  <2> QED
    BY <2>1, <2>2, <2>3, <2>4 DEF OnePageChanges
<1>12. CASE Halted \/ UNCHANGED vars
  <2>1. UNCHANGED <<mem, root, pending, cr3>>
    BY <1>12 DEF Halted, vars, fifoVars, memVars
  <2>2. Built' = Built
    BY <2>1 DEF Built
  <2> QED
    BY <2>1, <2>2 DEF ContentsKept, Content, Seen
<1> QED
  BY <1>1, <1>3, <1>4, <1>5, <1>7, <1>8, <1>9, <1>10, <1>11, <1>12 DEF Next

(* A space no task was built for has no page, and neither have the pages   *)
(* of the kernel.                                                          *)
LEMMA ContentsOf ==
  \A s \in 0 .. Len(Modules), v \in VPages :
    /\ Contents[s][v] = Content(s, v)
    /\ s \notin Built \/ v \notin User => Content(s, v) = None
BY DEF Contents, Content, Seen

(* A handler that changes no content leaves the view alone.                *)
LEMMA KeptView == ContentsKept => Contents' = Contents
<1> SUFFICES ASSUME ContentsKept, NEW s \in 0 .. Len(Modules), NEW v \in VPages
             PROVE  Content(s, v)' = Content(s, v)
  BY DEF Contents
<1>1. CASE s \in Ranks /\ v \in User
  BY <1>1 DEF ContentsKept
<1>2. CASE ~(s \in Ranks /\ v \in User)
  BY <1>2 DEF Content, Seen, Built
<1> QED
  BY <1>1, <1>2

(* A change of one page is a change of one place of the view.              *)
LEMMA ChangedView ==
  ASSUME cr3 \in Ranks, NEW v \in VPages \cap User, NEW c, Changes(cr3, v, c)
  PROVE  /\ Contents' = [Contents EXCEPT ![cr3][v] = Contents'[cr3][v]]
         /\ Contents[cr3][v] = Content(cr3, v) /\ Contents'[cr3][v] = c
<1>1. \A s \in 0 .. Len(Modules), u \in VPages :
        Content(s, u)' = IF s = cr3 /\ u = v THEN c ELSE Content(s, u)
  <2> SUFFICES ASSUME NEW s \in 0 .. Len(Modules), NEW u \in VPages
               PROVE  Content(s, u)' = IF s = cr3 /\ u = v THEN c ELSE Content(s, u)
    OBVIOUS
  <2>1. CASE s \in Ranks /\ u \in User
    BY <2>1 DEF Changes
  <2>2. CASE ~(s \in Ranks /\ u \in User)
    BY <2>2 DEF Content, Seen, Built
  <2> QED
    BY <2>1, <2>2
<1>2. cr3 \in 0 .. Len(Modules)
  BY DEF Ranks
<1>3. Contents' = [s \in 0 .. Len(Modules) |-> [u \in VPages |->
                     IF s = cr3 /\ u = v THEN c ELSE Content(s, u)]]
  BY <1>1 DEF Contents
<1>4. Contents = [s \in 0 .. Len(Modules) |-> [u \in VPages |-> Content(s, u)]]
  BY DEF Contents
<1>5. Contents'[cr3][v] = c /\ Contents[cr3][v] = Content(cr3, v)
  BY <1>2, <1>3, <1>4
<1>6. Contents' = [Contents EXCEPT ![cr3][v] = c]
  BY <1>2, <1>3, <1>4
<1> QED
  BY <1>5, <1>6

(* A module loaded gives its space the image's content.                    *)
LEMMA LoadedView ==
  ASSUME NEW s0 \in Ranks, Loads(s0)
  PROVE  /\ \A v \in VPages : Contents[s0][v] = None
         /\ Contents' = [Contents EXCEPT ![s0] = [v \in VPages |-> FreshContent(s0, v)]]
<1>1. s0 \in 0 .. Len(Modules) /\ s0 \notin Built
  BY DEF Loads, Ranks
<1>2. \A v \in VPages : Contents[s0][v] = None
  BY <1>1, ContentsOf
<1>3. \A v \in VPages \ User : FreshContent(s0, v) = None
  <2>1. \A v \in VPages \ User : v \notin Payload(s0) /\ v \notin Bss(s0)
    BY UserPages DEF Loaded
  <2> QED
    BY <2>1 DEF FreshContent
<1>4. \A s \in 0 .. Len(Modules), u \in VPages :
        Content(s, u)' = IF s = s0 THEN FreshContent(s0, u) ELSE Content(s, u)
  <2> SUFFICES ASSUME NEW s \in 0 .. Len(Modules), NEW u \in VPages
               PROVE  Content(s, u)' =
                        IF s = s0 THEN FreshContent(s0, u) ELSE Content(s, u)
    OBVIOUS
  <2>1. CASE s \in Ranks /\ u \in User
    BY <2>1 DEF Loads
  <2>2. CASE ~(s \in Ranks /\ u \in User)
    BY <1>3, <2>2 DEF Content, Seen, Built
  <2> QED
    BY <2>1, <2>2
<1>5. Contents' = [s \in 0 .. Len(Modules) |-> [u \in VPages |->
                     IF s = s0 THEN FreshContent(s0, u) ELSE Content(s, u)]]
  BY <1>4 DEF Contents
<1>6. Contents = [s \in 0 .. Len(Modules) |-> [u \in VPages |-> Content(s, u)]]
  BY DEF Contents
<1> QED
  BY <1>1, <1>2, <1>5, <1>6

(* The steps of the contents are the steps that AddressSpaces allows.      *)
LEMMA ViewSteps ==
  ASSUME OneBssPage, RInv, RInv', Fifo!IInv, Fifo!IInv', PoolSuffices', [Next]_vars
  PROVE  Private!Steps(Contents, Contents') \/ (Contents' = Contents /\ cr3' = cr3)
<1>1. CASE ContentsKept /\ cr3' \in {cr3} \cup Ranks
  <2>1. Contents' = Contents
    BY <1>1, KeptView
  <2>2. CASE cr3' = cr3
    BY <2>1, <2>2
  <2>3. CASE cr3' \in Ranks
    <3>1. cr3' \in 0 .. Len(Modules)
      BY <2>3 DEF Ranks
    <3> QED
      BY <2>1, <3>1 DEF Private!Steps, Private!Switch
  <2> QED
    BY <1>1, <2>2, <2>3
<1>2. CASE cr3' = cr3 /\ OnePageChanges
  <2>a. PICK v \in VPages \cap User :
          \/ Content(cr3, v) = None /\ Changes(cr3, v, ZeroContent)
          \/ Content(cr3, v) # None /\ Changes(cr3, v, None)
          \/ Content(cr3, v) # None /\ \E val \in Values : Changes(cr3, v, Filled(val))
    BY <1>2 DEF OnePageChanges
  <2>1. cr3 \in Ranks
    BY <1>2 DEF OnePageChanges
  <2>2. Private!OnePage(Contents, Contents')
    <3>1. CASE Content(cr3, v) = None /\ Changes(cr3, v, ZeroContent)
      <4>1. /\ Contents' = [Contents EXCEPT ![cr3][v] = Contents'[cr3][v]]
            /\ Contents[cr3][v] = None /\ Contents'[cr3][v] = ZeroContent
        BY <2>1, <3>1, ChangedView
      <4> QED
        BY <4>1 DEF Private!OnePage, Private!Map
    <3>2. CASE Content(cr3, v) # None /\ Changes(cr3, v, None)
      <4>1. /\ Contents' = [Contents EXCEPT ![cr3][v] = Contents'[cr3][v]]
            /\ Contents[cr3][v] # None /\ Contents'[cr3][v] = None
        BY <2>1, <3>2, ChangedView
      <4> QED
        BY <4>1 DEF Private!OnePage, Private!Unmap
    <3>3. ASSUME NEW val \in Values, Content(cr3, v) # None,
                 Changes(cr3, v, Filled(val))
          PROVE  Private!OnePage(Contents, Contents')
      <4>1. /\ Contents' = [Contents EXCEPT ![cr3][v] = Contents'[cr3][v]]
            /\ Contents[cr3][v] # None /\ Contents'[cr3][v] = Filled(val)
        BY <2>1, <3>3, ChangedView
      <4> QED
        BY <4>1 DEF Private!OnePage, Private!Write
    <3> QED
      BY <2>a, <3>1, <3>2, <3>3
  <2> QED
    BY <1>2, <2>2 DEF Private!Steps
<1>3. ASSUME NEW s \in Ranks, cr3' = cr3, Loads(s)
      PROVE  Private!Steps(Contents, Contents')
  <2>1. /\ \A v \in VPages : Contents[s][v] = None
        /\ Contents' = [Contents EXCEPT ![s] = [v \in VPages |-> FreshContent(s, v)]]
        /\ s \in 0 .. Len(Modules)
    BY <1>3, LoadedView DEF Ranks
  <2>2. Private!Build(Contents, Contents')
    BY <2>1 DEF Private!Build
  <2> QED
    BY <1>3, <2>2 DEF Private!Steps
<1> QED
  BY <1>1, <1>2, <1>3, StepContents

(* Theorem: Rackdoll implements AddressSpaces: a page just mapped holds    *)
(* zeros, or the image's content; a write reaches one page of the writer's *)
(* own space, a read returns the last write, and nothing else changes a    *)
(* page, whatever tasks ran, unmapped, forked or ended in between.         *)
THEOREM MemoryIsPrivate ==
  ASSUME OneBssPage PROVE Spec /\ []PoolSuffices => PrivateMemory
<1>1. Init => Private!SpacesInit
  <2> SUFFICES ASSUME Init PROVE Private!SpacesInit
    OBVIOUS
  <2>1. Built = {}
    BY DEF Init, Built
  <2>2. \A s \in 0 .. Len(Modules), v \in VPages : View(s, v) = NoPage
    BY <2>1 DEF View
  <2> QED
    BY <2>2 DEF Private!SpacesInit
<1>2. RInv' => (Contents = [s \in 0 .. Len(Modules) |-> [v \in VPages |->
                 IF View(s, v) = NoPage THEN None ELSE mem.ram[View(s, v)]]])'
  BY ViewIsContents, PTL
<1>3. /\ RInv /\ RInv' /\ Fifo!IInv /\ Fifo!IInv' /\ PoolSuffices' /\ [Next]_vars
      => [Private!SpacesNext]_Private!spaceVars
  <2> SUFFICES ASSUME RInv, RInv', Fifo!IInv, Fifo!IInv', PoolSuffices', [Next]_vars
               PROVE  [Private!SpacesNext]_Private!spaceVars
    OBVIOUS
  <2>1. Private!Steps(Contents, Contents') \/ (Contents' = Contents /\ cr3' = cr3)
    BY ViewSteps
  <2> QED
    BY <1>2, <2>1, ViewIsContents DEF Private!SpacesNext, Private!spaceVars
<1> QED
  BY <1>1, <1>3, RInvInvariance, FifoInvariant, PTL
     DEF Spec, PrivateMemory, Private!SpacesSpec
===============================================================================
