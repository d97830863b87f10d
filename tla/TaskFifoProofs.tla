---------------------------- MODULE TaskFifoProofs ----------------------------
(***************************************************************************)
(* TLAPS proofs about TaskFifo, for every length of the fifo and every     *)
(* list of modules: its invariants first, then that it implements          *)
(* Coroutines.                                                             *)
(***************************************************************************)
EXTENDS TaskFifo, TLAPS

(* Every queued flow has been created: the numbers given to new flows are  *)
(* new.                                                                    *)
FlowsCreated == \A i \in Queued : FlowAt(i) \in 1 .. flows

(* Outside user mode the processor holds the kernel's registers, and save  *)
(* keeps them meanwhile; after the last exit the queue is empty.           *)
KernelSaved ==
  /\ save = KernelContext
  /\ mode # "user" => regs = KernelContext
  /\ mode = "done" => fifo_size = 0

(* The inductive invariant: exit_task reads fifo_size - 1 and next_task    *)
(* fifo[fifo_run], which are in range because a task runs.                 *)
IInv ==
  /\ TypeOK
  /\ CurrentIsRunning
  /\ NoFlowTwice
  /\ FlowsCreated
  /\ KernelSaved

(* The instruction pointer stays in range. *)
LEMMA NextPcType ==
  ASSUME TypeOK
  PROVE  NextPc \in 0 .. MaxPc
<1>1. regs.pc \in Nat /\ MaxPc \in Nat
  BY TaskFifoAssumption DEF TypeOK, Context
<1>2. QED
  BY <1>1 DEF NextPc

(* An instruction keeps the registers typed and the flow the same.         *)
LEMMA AdvancedType ==
  ASSUME TypeOK
  PROVE  /\ Advanced \in Context
         /\ Advanced.flow = regs.flow
BY NextPcType DEF TypeOK, Advanced, Context

(* The registers of the kernel and an empty slot are typed.                *)
LEMMA KernelTypes == KernelContext \in Context /\ ZeroTask \in Task
BY TaskFifoAssumption
   DEF KernelContext, ZeroTask, Context, Task, Rax, KernelFlow, KernelPgt

(* The invariant holds before any module is parsed.                        *)
LEMMA InitIInv == Init => IInv
<1> SUFFICES ASSUME Init PROVE IInv
  OBVIOUS
<1>1. TypeOK
  BY KernelTypes, TaskFifoAssumption DEF Init, TypeOK, Slots, KernelPgt
<1>2. QED
  BY <1>1, TaskFifoAssumption
     DEF Init, IInv, CurrentIsRunning, NoFlowTwice, FlowsCreated, KernelSaved,
         Queued

(* A task that is queued is a task, and resuming one gives typed registers.*)
LEMMA QueuedTask ==
  ASSUME TypeOK, NEW i \in Queued
  PROVE  /\ i \in Slots
         /\ fifo[i] \in Task
         /\ fifo[i].pgt \in Nat
         /\ fifo[i].context \in Context
BY TaskFifoAssumption DEF TypeOK, Queued, Slots, Task

(* The slot after one of the array is in the queue.                        *)
LEMMA SuccessorQueued ==
  ASSUME TypeOK, fifo_size > 0, NEW i \in Slots
  PROVE  Successor(i) \in Queued
BY TaskFifoAssumption DEF TypeOK, Successor, Queued, Slots

(* parse_task adds a new flow in the first free slot.                      *)
LEMMA ParseTaskIInv == IInv /\ ParseTask => IInv'
<1> SUFFICES ASSUME IInv, ParseTask PROVE IInv'
  OBVIOUS
<1> USE TaskFifoAssumption DEF IInv
<1> PICK header \in Modules[parsed + 1] :
       IF fifo_size # TASK_FIFO_LEN /\ header
         THEN /\ fifo' = [fifo EXCEPT ![fifo_size] =
                   [pgt |-> parsed + 1,
                    context |-> [flow |-> flows + 1, pc |-> 0, rax |-> 0]]]
              /\ fifo_size' = fifo_size + 1
              /\ flows' = flows + 1
         ELSE UNCHANGED <<fifo, fifo_size, flows>>
  BY DEF ParseTask
<1>1. CASE fifo_size # TASK_FIFO_LEN /\ header
  <2> DEFINE new == [pgt |-> parsed + 1,
                     context |-> [flow |-> flows + 1, pc |-> 0, rax |-> 0]]
  <2>1. new \in Task
    BY DEF TypeOK, Task, Context, Rax
  <2>2. /\ fifo_size \in Slots /\ fifo_size' = fifo_size + 1
        /\ flows' = flows + 1
        /\ fifo' = [fifo EXCEPT ![fifo_size] = new]
    BY <1>1 DEF TypeOK, ParseTask, Slots
  <2> HIDE DEF new
  <2>3. TypeOK'
    BY <1>1, <2>1, <2>2 DEF TypeOK, ParseTask, Slots
  <2>4. /\ fifo'[fifo_size] = new
        /\ \A i \in Queued : fifo'[i] = fifo[i]
    BY <2>2 DEF TypeOK, Queued, Slots
  <2>5. new.context.flow = flows + 1
    BY DEF new
  <2>6. Queued' = Queued \cup {fifo_size}
    BY <2>2 DEF Queued, TypeOK
  <2>7. FlowsCreated' /\ NoFlowTwice'
    BY <2>2, <2>4, <2>5, <2>6
       DEF FlowsCreated, NoFlowTwice, FlowAt, Queued, TypeOK
  <2>8. CurrentIsRunning' /\ KernelSaved'
    BY <1>1 DEF ParseTask, CurrentIsRunning, KernelSaved
  <2> QED
    BY <2>3, <2>7, <2>8
<1>2. CASE ~(fifo_size # TASK_FIFO_LEN /\ header)
  <2>1. /\ UNCHANGED <<fifo, fifo_size, flows, fifo_run, save, regs, cr3, mode>>
        /\ parsed' \in 0 .. Len(Modules) /\ mode = "load"
    BY <1>2 DEF ParseTask, TypeOK
  <2> QED
    BY <2>1 DEF TypeOK, CurrentIsRunning, NoFlowTwice, FlowsCreated,
                KernelSaved, Queued, FlowAt
<1> QED
  BY <1>1, <1>2

(* run_tasks resumes a slot of the queue and saves the kernel.             *)
LEMMA EnterTasksIInv == IInv /\ EnterTasks => IInv'
<1> SUFFICES ASSUME IInv, EnterTasks PROVE IInv'
  OBVIOUS
<1> USE TaskFifoAssumption DEF IInv
<1>1. fifo_run' \in Queued /\ UNCHANGED <<fifo, fifo_size>>
  BY SuccessorQueued DEF EnterTasks, TypeOK
<1>2. fifo'[fifo_run'] \in Task /\ fifo_run' \in Slots
  BY <1>1, QueuedTask
<1>3. /\ regs' = fifo'[fifo_run'].context /\ cr3' = fifo'[fifo_run'].pgt
      /\ save' = regs /\ mode' = "user" /\ UNCHANGED <<parsed, flows>>
      /\ regs = KernelContext
  BY <1>1 DEF EnterTasks, Resume, KernelSaved
<1>4. TypeOK'
  BY <1>1, <1>2, <1>3 DEF TypeOK, Task
<1>5. CurrentIsRunning'
  BY <1>1, <1>3 DEF CurrentIsRunning, FlowAt, Queued, TypeOK
<1>6. NoFlowTwice' /\ FlowsCreated' /\ KernelSaved'
  BY <1>1, <1>3 DEF NoFlowTwice, FlowsCreated, KernelSaved, FlowAt, Queued
<1> QED
  BY <1>4, <1>5, <1>6

(* An instruction keeps the invariant.                                     *)
LEMMA ComputeIInv == IInv /\ Compute => IInv'
<1> SUFFICES ASSUME IInv, Compute PROVE IInv'
  OBVIOUS
<1> USE DEF IInv
<1>1. regs' \in Context /\ regs'.flow = regs.flow
  BY AdvancedType DEF Compute
<1> QED
  BY <1>1 DEF Compute, TypeOK, CurrentIsRunning, NoFlowTwice, FlowsCreated,
              KernelSaved, Queued, FlowAt

(* next_task saves the flow in its slot and resumes the next one.          *)
LEMMA YieldIInv == IInv /\ Yield => IInv'
<1> SUFFICES ASSUME IInv, Yield PROVE IInv'
  OBVIOUS
<1> USE TaskFifoAssumption DEF IInv
<1>1. /\ fifo_run \in Queued /\ fifo_size > 0
      /\ regs.flow = fifo[fifo_run].context.flow
  BY DEF Yield, CurrentIsRunning, Queued, FlowAt, TypeOK, Slots
<1>2. Advanced \in Context /\ Advanced.flow = regs.flow
  BY AdvancedType
<1>3. /\ fifo' \in [Slots -> Task]
      /\ \A i \in Slots : fifo'[i].context.flow = fifo[i].context.flow
  <2>1. fifo' = [fifo EXCEPT ![fifo_run].context = Advanced]
    BY DEF Yield
  <2> QED
    BY <1>1, <1>2, <2>1, QueuedTask DEF TypeOK, Task
<1>4. fifo_run' \in Queued /\ UNCHANGED <<fifo_size, save, mode, parsed, flows>>
  BY <1>1, SuccessorQueued DEF Yield, TypeOK
<1>5. /\ regs' = fifo'[fifo_run'].context /\ cr3' = fifo'[fifo_run'].pgt
      /\ mode = "user"
  BY DEF Yield, Resume
<1>6. TypeOK'
  BY <1>3, <1>4, <1>5 DEF TypeOK, Task, Queued, Slots
<1>7. CurrentIsRunning'
  BY <1>4, <1>5 DEF CurrentIsRunning, FlowAt, Queued, TypeOK
<1>8. NoFlowTwice' /\ FlowsCreated' /\ KernelSaved'
  <2>1. Queued' = Queued /\ \A i \in Queued : FlowAt(i)' = FlowAt(i)
    BY <1>3, <1>4, QueuedTask DEF Queued, FlowAt
  <2>2. NoFlowTwice' /\ FlowsCreated'
    BY <1>4, <2>1 DEF NoFlowTwice, FlowsCreated
  <2> QED
    BY <1>4, <1>5, <2>2 DEF KernelSaved
<1> QED
  BY <1>6, <1>7, <1>8

(* exit_task fills the slot left with the last task of the queue.          *)
LEMMA ExitIInv == IInv /\ Exit => IInv'
<1> SUFFICES ASSUME IInv, Exit PROVE IInv'
  OBVIOUS
<1> USE TaskFifoAssumption DEF IInv
<1> DEFINE last == fifo_size - 1
<1>1. /\ fifo_run \in Queued /\ fifo_size \in 1 .. TASK_FIFO_LEN
      /\ last \in Queued /\ fifo_size' = last /\ mode = "user"
      /\ UNCHANGED <<save, parsed, flows>>
  BY DEF Exit, CurrentIsRunning, Queued, TypeOK, Slots
<1>2. /\ fifo' \in [Slots -> Task] /\ fifo_run' \in Slots
      /\ fifo_run' < last \/ last = 0
      /\ \A i \in Queued' :
           IF i = fifo_run THEN fifo'[i] = fifo[last] ELSE fifo'[i] = fifo[i]
  <2>1. CASE fifo_run = last
    BY <1>1, <2>1 DEF Exit, TypeOK, Queued, Slots
  <2>2. CASE fifo_run # last
    <3>1. fifo' = [fifo EXCEPT ![fifo_run] = fifo[last]] /\ fifo_run' = fifo_run
      BY <1>1, <2>2 DEF Exit
    <3> QED
      BY <1>1, <2>2, <3>1, QueuedTask DEF TypeOK, Queued, Slots
  <2> QED
    BY <2>1, <2>2
<1>3. /\ regs' \in Context /\ cr3' \in Nat /\ mode' \in {"user", "done"}
      /\ mode' = "done" => regs' = save /\ last = 0
      /\ mode' = "user" => /\ regs' = fifo'[fifo_run'].context
                           /\ cr3' = fifo'[fifo_run'].pgt
                           /\ last # 0
  BY <1>1, <1>2 DEF Exit, LeaveTask, Resume, TypeOK, Task
<1>4. TypeOK'
  BY <1>1, <1>2, <1>3 DEF TypeOK, Slots
<1>5. CurrentIsRunning'
  BY <1>1, <1>2, <1>3 DEF CurrentIsRunning, FlowAt
<1>6. FlowsCreated' /\ NoFlowTwice'
  <2>1. \A i \in Queued' : i \in Queued /\ i # last
    BY <1>1 DEF Queued, TypeOK
  <2> QED
    BY <1>1, <1>2, <2>1 DEF FlowsCreated, NoFlowTwice, FlowAt
<1>7. KernelSaved'
  BY <1>1, <1>3 DEF KernelSaved
<1> QED
  BY <1>4, <1>5, <1>6, <1>7

(* fork_task fills the free slots with new flows.                          *)
LEMMA ForkIInv == IInv /\ Fork => IInv'
<1> SUFFICES ASSUME IInv, Fork PROVE IInv'
  OBVIOUS
<1> USE TaskFifoAssumption DEF IInv
<1> DEFINE copies == TASK_FIFO_LEN - fifo_size
<1>1. /\ fifo_run \in Queued /\ copies \in Nat
      /\ fifo_size' = TASK_FIFO_LEN /\ flows' = flows + copies
      /\ mode = "user" /\ UNCHANGED <<fifo_run, save, cr3, mode, parsed>>
  BY DEF Fork, CurrentIsRunning, Queued, TypeOK, Slots
<1>2. regs' \in Context /\ regs'.flow = regs.flow
  <2>1. regs' = [Advanced EXCEPT !.rax = IF copies = 0 THEN Error ELSE 0]
    BY DEF Fork
  <2> QED
    BY <2>1, AdvancedType DEF Context, Rax
<1>3. ASSUME NEW i \in Slots, i >= fifo_size
      PROVE  /\ ForkedTask(i) \in Task
             /\ ForkedTask(i).context.flow = flows + 1 + (i - fifo_size)
  <2>1. flows + 1 + (i - fifo_size) \in Nat
    BY <1>3 DEF TypeOK, Slots
  <2> QED
    BY <1>1, <2>1, NextPcType, QueuedTask DEF ForkedTask, Task, Context, Rax
<1>4. /\ fifo' \in [Slots -> Task]
      /\ \A i \in Slots :
           fifo'[i] = IF i < fifo_size THEN fifo[i] ELSE ForkedTask(i)
  <2>1. fifo' = [i \in Slots |->
                   IF i < fifo_size THEN fifo[i] ELSE ForkedTask(i)]
    BY DEF Fork
  <2>2. \A i \in Slots : i < fifo_size \/ i >= fifo_size
    BY DEF Slots, TypeOK
  <2> HIDE DEF copies
  <2> QED
    BY <1>3, <2>1, <2>2 DEF TypeOK
<1>5. TypeOK'
  BY <1>1, <1>2, <1>4 DEF TypeOK
<1>6. CurrentIsRunning'
  BY <1>1, <1>2, <1>4 DEF CurrentIsRunning, FlowAt, TypeOK, Queued
<1>7. \A i \in Queued' :
        /\ i \in Slots
        /\ IF i \in Queued
             THEN fifo'[i].context.flow = FlowAt(i)
             ELSE /\ i >= fifo_size
                  /\ fifo'[i].context.flow = flows + 1 + (i - fifo_size)
  BY <1>1, <1>3, <1>4 DEF Queued, Slots, TypeOK, FlowAt
<1>8. FlowsCreated' /\ NoFlowTwice'
  <2>1. \A i \in Queued' : FlowAt(i)' = fifo'[i].context.flow
    BY DEF FlowAt
  <2>2. \A i \in Queued : FlowAt(i) \in 1 .. flows
    BY DEF FlowsCreated
  <2>3. \A i \in Queued' : i \in Nat /\ i < TASK_FIFO_LEN
    BY <1>7 DEF Slots
  <2>4. FlowsCreated'
    BY <1>1, <1>7, <2>1, <2>2, <2>3 DEF FlowsCreated, TypeOK
  <2>5. NoFlowTwice'
    <3> SUFFICES ASSUME NEW i \in Queued', NEW j \in Queued',
                        FlowAt(i)' = FlowAt(j)'
                 PROVE  i = j
      BY DEF NoFlowTwice
    <3>1. CASE i \in Queued /\ j \in Queued
      BY <1>7, <2>1, <3>1 DEF NoFlowTwice
    <3>2. CASE i \notin Queued /\ j \notin Queued
      <4>1. flows + 1 + (i - fifo_size) = flows + 1 + (j - fifo_size)
        BY <1>7, <2>1, <3>2
      <4> QED
        BY <4>1, <2>3 DEF TypeOK
    <3>3. ASSUME NEW k \in Queued, NEW l \in Queued', l \notin Queued
          PROVE  FlowAt(k) # fifo'[l].context.flow
      BY <1>7, <2>2, <2>3, <3>3 DEF TypeOK
    <3> QED
      BY <1>7, <2>1, <3>1, <3>2, <3>3
  <2> QED
    BY <2>4, <2>5
<1>9. KernelSaved'
  BY <1>1 DEF KernelSaved
<1> QED
  BY <1>5, <1>6, <1>8, <1>9

(* Every step keeps the invariant.                                         *)
LEMMA NextIInv == IInv /\ [Next]_vars => IInv'
<1> SUFFICES ASSUME IInv, [Next]_vars PROVE IInv'
  OBVIOUS
<1>1. CASE ParseTask
  BY <1>1, ParseTaskIInv
<1>2. CASE LoadDone \/ NothingToRun
  BY <1>2, TaskFifoAssumption
     DEF LoadDone, NothingToRun, IInv, TypeOK, CurrentIsRunning, NoFlowTwice,
         FlowsCreated, KernelSaved, Queued, FlowAt
<1>3. CASE EnterTasks
  BY <1>3, EnterTasksIInv
<1>4. CASE Compute
  BY <1>4, ComputeIInv
<1>5. CASE Yield
  BY <1>5, YieldIInv
<1>6. CASE Exit
  BY <1>6, ExitIInv
<1>7. CASE Fork
  BY <1>7, ForkIInv
<1>8. CASE Die \/ UNCHANGED vars
  BY <1>8 DEF Die, vars, IInv, TypeOK, CurrentIsRunning, NoFlowTwice,
              FlowsCreated, KernelSaved, Queued, FlowAt
<1> QED
  BY <1>1, <1>2, <1>3, <1>4, <1>5, <1>6, <1>7, <1>8 DEF Next, Boot

(* The inductive invariant holds throughout every execution, whatever the  *)
(* length of the fifo, the modules and the bounds.                         *)
THEOREM Invariance == Spec => []IInv
BY InitIInv, NextIInv, PTL DEF Spec

(* Type correctness of the task table (task.c:25-28). *)
THEOREM TypeCorrect == Spec => []TypeOK
<1>1. IInv => TypeOK
  BY DEF IInv
<1> QED
  BY <1>1, Invariance, PTL

(* current() is the running flow's task (task.c:204-239): yields, exits    *)
(* and forks in any order never leave a handler with another flow's slot   *)
(* or page table.                                                          *)
THEOREM CurrentCorrect == Spec => []CurrentIsRunning
<1>1. IInv => CurrentIsRunning
  BY DEF IInv
<1> QED
  BY <1>1, Invariance, PTL

(* No flow of control is queued twice (task.c:223-260). *)
THEOREM FlowsDistinct == Spec => []NoFlowTwice
<1>1. IInv => NoFlowTwice
  BY DEF IInv
<1> QED
  BY <1>1, Invariance, PTL

(* The kernel comes back only when no task is left, with the registers it  *)
(* entered the tasks with (task.c:172, 233-234).                           *)
THEOREM KernelComesBack == Spec => []KernelResumes
<1>1. IInv => KernelResumes
  BY DEF IInv, KernelSaved, KernelResumes
<1> QED
  BY <1>1, Invariance, PTL
-------------------------------------------------------------------------------
(* Coroutines.  The mapping gives a process per flow that is queued; the   *)
(* proof looks at it slot by slot (ProcBySlot), where the effect of each   *)
(* handler is plain, and goes back from slots to flows by NoFlowTwice.     *)

(* What a task's registers and space are as Coroutines sees them.          *)
Entry(c, pgt) == [context |-> [pc |-> c.pc, rax |-> c.rax], space |-> pgt]

(* The mapping of Promise, by name.                                        *)
Proc == [f \in Alive |->
           LET c == IF Running(f) THEN regs ELSE fifo[SlotOf(f)].context
           IN [context |-> [pc |-> c.pc, rax |-> c.rax],
               space |-> IF Running(f) THEN cr3 ELSE fifo[SlotOf(f)].pgt]]
Owner == IF mode = "user" THEN regs.flow ELSE 0
Phase == CASE mode = "user" -> "tasks"
           [] mode = "done" -> "off"
           [] OTHER -> "boot"

(* The mapping, slot by slot.                                              *)
SlotEntry(i) ==
  IF mode = "user" /\ i = fifo_run THEN Entry(regs, cr3)
  ELSE Entry(fifo[i].context, fifo[i].pgt)

ProcBySlot ==
  /\ DOMAIN Proc = Alive
  /\ \A i \in Queued : FlowAt(i) \in Alive /\ Proc[FlowAt(i)] = SlotEntry(i)
  /\ mode = "user" => fifo_run \in Queued /\ Owner = FlowAt(fifo_run)

(* The inverse of FlowAt on the queue. *)
LEMMA SlotOfFlow ==
  ASSUME NoFlowTwice, NEW i \in Queued
  PROVE  SlotOf(FlowAt(i)) = i
BY DEF SlotOf, NoFlowTwice

(* The mapping gives slot i's flow the registers and page table of the     *)
(* slot, or those of the processor when it runs.                           *)
LEMMA ProcSlots == IInv => ProcBySlot
<1> SUFFICES ASSUME IInv PROVE ProcBySlot
  OBVIOUS
<1>1. ASSUME mode = "user"
      PROVE  fifo_run \in Queued /\ Owner = FlowAt(fifo_run)
  BY <1>1 DEF IInv, CurrentIsRunning, Queued, Owner, TypeOK, Slots
<1>2. ASSUME NEW i \in Queued
      PROVE  FlowAt(i) \in Alive /\ Proc[FlowAt(i)] = SlotEntry(i)
  <2>1. FlowAt(i) \in Alive /\ SlotOf(FlowAt(i)) = i
    BY SlotOfFlow DEF IInv, Alive
  <2>2. Running(FlowAt(i)) <=> mode = "user" /\ i = fifo_run
    BY <1>1 DEF Running, Owner, IInv, NoFlowTwice
  <2> QED
    BY <2>1, <2>2 DEF Proc, SlotEntry, Entry
<1> QED
  BY <1>1, <1>2 DEF ProcBySlot, Proc

(* The same after a step.                                                  *)
LEMMA ProcSlotsNext == IInv' => ProcBySlot'
BY ProcSlots, PTL
-------------------------------------------------------------------------------
(* Nothing Coroutines can see has changed.                                 *)
Same == Proc' = Proc /\ Owner' = Owner /\ Phase' = Phase

(* Processes are equal when they are so slot by slot.                      *)
LEMMA SameProcs ==
  ASSUME ProcBySlot, ProcBySlot', Queued' = Queued,
         \A i \in Queued : FlowAt(i)' = FlowAt(i) /\ SlotEntry(i)' = SlotEntry(i)
  PROVE  Proc' = Proc
<1>1. Alive' = Alive
  BY DEF Alive
<1>2. ASSUME NEW f \in Alive
      PROVE  Proc'[f] = Proc[f]
  <2>1. PICK i \in Queued : f = FlowAt(i)
    BY DEF Alive
  <2> QED
    BY <2>1 DEF ProcBySlot
<1> QED
  BY <1>1, <1>2 DEF Proc

(* The variables the mapping reads. *)
LEMMA SameState ==
  UNCHANGED <<fifo, fifo_size, fifo_run, regs, cr3, mode>> => Same
<1> SUFFICES ASSUME UNCHANGED <<fifo, fifo_size, fifo_run, regs, cr3, mode>>
             PROVE  Same
  OBVIOUS
<1>1. Queued' = Queued /\ Alive' = Alive
  BY DEF Queued, Alive, FlowAt
<1>2. \A f : SlotOf(f)' = SlotOf(f) /\ Running(f)' = Running(f)
  BY <1>1 DEF SlotOf, Running, FlowAt
<1>3. Proc' = Proc
  BY <1>1, <1>2 DEF Proc
<1> QED
  BY <1>3 DEF Same, Owner, Phase

(* parse_task creates a flow, or changes none.                             *)
LEMMA ParseTaskRefines ==
  ASSUME IInv, IInv', ParseTask
  PROVE  Promise!Spawn \/ Same
<1> USE TaskFifoAssumption
<1>1. ProcBySlot /\ ProcBySlot'
  BY ProcSlots, ProcSlotsNext
<1>2. mode = "load" /\ mode' = "load" /\ parsed + 1 \in 0 .. Len(Modules)
  BY DEF ParseTask, IInv, TypeOK
<1>3. PICK header \in Modules[parsed + 1] :
       IF fifo_size # TASK_FIFO_LEN /\ header
         THEN /\ fifo' = [fifo EXCEPT ![fifo_size] =
                   [pgt |-> parsed + 1,
                    context |-> [flow |-> flows + 1, pc |-> 0, rax |-> 0]]]
              /\ fifo_size' = fifo_size + 1
              /\ flows' = flows + 1
         ELSE UNCHANGED <<fifo, fifo_size, flows>>
  BY DEF ParseTask
<1>4. CASE fifo_size # TASK_FIFO_LEN /\ header
  <2> DEFINE new == flows + 1
  <2> PICK slot : slot = fifo_size
    OBVIOUS
  <2>1. /\ fifo_size \in Slots /\ fifo_size' = fifo_size + 1
        /\ fifo' = [fifo EXCEPT ![fifo_size] =
                     [pgt |-> parsed + 1, context |-> [flow |-> new, pc |-> 0, rax |-> 0]]]
    BY <1>3, <1>4 DEF IInv, TypeOK, Slots
  <2>2. /\ Queued' = Queued \cup {slot} /\ slot \notin Queued
        /\ \A i \in Queued : fifo'[i] = fifo[i]
        /\ fifo'[slot] = [pgt |-> parsed + 1,
                               context |-> [flow |-> new, pc |-> 0, rax |-> 0]]
    BY <2>1 DEF Queued, IInv, TypeOK, Slots
  <2>3. /\ \A i \in Queued : FlowAt(i)' = FlowAt(i)
        /\ FlowAt(slot)' = new
    BY <2>2 DEF FlowAt
  <2>4. /\ \A i \in Queued : SlotEntry(i)' = SlotEntry(i)
        /\ SlotEntry(slot)' = [context |-> [pc |-> 0, rax |-> 0], space |-> parsed + 1]
    BY <1>2, <2>2 DEF SlotEntry, Entry
  <2>5. Alive' = Alive \cup {new} /\ new \notin Alive /\ new \in Nat \ {0}
    <3>1. new \notin Alive
      BY DEF Alive, IInv, FlowsCreated, TypeOK
    <3>2. Alive' \subseteq Alive \cup {new}
      BY <2>2, <2>3 DEF Alive
    <3>3. Alive \cup {new} \subseteq Alive'
      <4>1. new \in Alive'
        BY <2>2, <2>3 DEF Alive
      <4>2. ASSUME NEW f \in Alive PROVE f \in Alive'
        <5>1. PICK i \in Queued : f = FlowAt(i)
          BY DEF Alive
        <5> QED
          BY <5>1, <2>2, <2>3 DEF Alive
      <4> QED
        BY <4>1, <4>2
    <3> QED
      BY <3>1, <3>2, <3>3 DEF IInv, TypeOK
  <2>6. \A f \in Alive : Proc'[f] = Proc[f]
    <3> TAKE f \in Alive
    <3>1. PICK i \in Queued : f = FlowAt(i)
      BY DEF Alive
    <3>2. Proc'[FlowAt(i)'] = SlotEntry(i)' /\ Proc[FlowAt(i)] = SlotEntry(i)
      BY <1>1, <2>2 DEF ProcBySlot
    <3> QED
      BY <3>1, <3>2, <2>3, <2>4
  <2>7. Proc'[new] = [context |-> [pc |-> 0, rax |-> 0], space |-> parsed + 1]
    <3>1. slot \in Queued'
      BY <2>2
    <3>2. Proc'[FlowAt(slot)'] = SlotEntry(slot)'
      BY <3>1, <1>1 DEF ProcBySlot
    <3> QED
      BY <3>2, <2>3, <2>4
  <2>8. Proc'[new] \in [context : [pc : 0 .. MaxPc, rax : Rax], space : 0 .. Len(Modules)]
    BY <1>2, <2>7 DEF Rax
  <2>9. DOMAIN Proc = Alive /\ DOMAIN Proc' = Alive'
    BY <1>1 DEF ProcBySlot
  <2>10. Owner' = Owner /\ Phase' = Phase /\ Phase = "boot"
    BY <1>2 DEF Owner, Phase
  <2>11. Promise!Spawn
    <3> DEFINE f == new
    <3>1. f \in DOMAIN Proc' \ DOMAIN Proc
      BY <2>5, <2>9
    <3>2. DOMAIN Proc' = DOMAIN Proc \cup {f}
      BY <2>5, <2>9
    <3> HIDE DEF new
    <3> QED
      BY <3>1, <3>2, <2>5, <2>6, <2>8, <2>9, <2>10
         DEF Promise!Spawn, Promise!Live, Promise!Flows, Promise!Idle, Promise!Proc,
             Promise!Keep, Proc, Owner, Phase
  <2> QED
    BY <2>11
<1>5. CASE ~(fifo_size # TASK_FIFO_LEN /\ header)
  BY <1>3, <1>5, SameState DEF ParseTask
<1> QED
  BY <1>4, <1>5

(* run_tasks starts a flow with its own registers and page table.          *)
LEMMA EnterTasksRefines ==
  ASSUME IInv, IInv', EnterTasks
  PROVE  Promise!Start
<1> USE TaskFifoAssumption
<1>1. ProcBySlot /\ ProcBySlot'
  BY ProcSlots, ProcSlotsNext
<1>2. /\ mode = "ready" /\ mode' = "user" /\ UNCHANGED <<fifo, fifo_size>>
      /\ regs' = fifo[fifo_run'].context /\ cr3' = fifo[fifo_run'].pgt
  BY DEF EnterTasks, Resume
<1>3. Queued' = Queued /\ Alive' = Alive
  BY <1>2 DEF Queued, Alive, FlowAt
<1>4. \A i \in Queued : FlowAt(i)' = FlowAt(i) /\ SlotEntry(i)' = SlotEntry(i)
  BY <1>2 DEF FlowAt, SlotEntry
<1>5. Proc' = Proc
  BY <1>1, <1>3, <1>4, SameProcs
<1>6. Owner' \in Alive'
  BY <1>1, <1>2 DEF ProcBySlot
<1>7. Phase = "boot" /\ Phase' = "tasks" /\ DOMAIN Proc = Alive
  BY <1>1, <1>2 DEF Phase, ProcBySlot
<1> QED
  BY <1>3, <1>5, <1>6, <1>7
     DEF Promise!Start, Promise!Live, Proc, Owner, Phase

(* run_tasks with an empty fifo ends the kernel's work.                    *)
LEMMA NothingToRunRefines ==
  ASSUME IInv, NothingToRun
  PROVE  Promise!StartNothing
<1>1. /\ mode = "ready" /\ mode' = "done" /\ fifo_size = 0
      /\ UNCHANGED <<fifo, fifo_size, fifo_run, regs, cr3>>
  BY DEF NothingToRun
<1>2. Queued = {} /\ Queued' = {}
  BY <1>1 DEF Queued
<1>3. Alive = {} /\ Alive' = {}
  BY <1>2 DEF Alive
<1>4. Proc' = Proc /\ DOMAIN Proc = {}
  BY <1>3 DEF Proc
<1>5. Owner' = Owner /\ Phase = "boot" /\ Phase' = "off"
  BY <1>1 DEF Owner, Phase
<1> QED
  BY <1>4, <1>5 DEF Promise!StartNothing, Promise!Live, Proc, Owner, Phase

(* A step in which only the running slot's registers move, by one          *)
(* instruction, is a RunningMoves of Coroutines.                           *)
LEMMA RunningSlotMoves ==
  ASSUME IInv, IInv', mode = "user", Queued' = Queued,
         NEW run, run = fifo_run,
         \A i \in Queued : FlowAt(i)' = FlowAt(i),
         \A i \in Queued \ {run} : SlotEntry(i)' = SlotEntry(i),
         SlotEntry(run)' = Entry(Advanced, cr3)
  PROVE  Promise!RunningMoves
<1> USE TaskFifoAssumption
<1>1. ProcBySlot /\ ProcBySlot'
  BY ProcSlots, ProcSlotsNext
<1>2. run \in Queued /\ Owner = FlowAt(run) /\ Owner # 0
  BY <1>1 DEF ProcBySlot, IInv, FlowsCreated
<1>3. Alive' = Alive /\ DOMAIN Proc = Alive /\ DOMAIN Proc' = Alive'
  BY <1>1 DEF Alive, ProcBySlot
<1>4. ASSUME NEW f \in Alive \ {Owner} PROVE Proc'[f] = Proc[f]
  <2>1. PICK i \in Queued : f = FlowAt(i)
    BY DEF Alive
  <2>2. i \in Queued \ {run} /\ i \in Queued'
    BY <1>2, <1>4, <2>1
  <2>3. Proc'[FlowAt(i)'] = SlotEntry(i)' /\ Proc[FlowAt(i)] = SlotEntry(i)
    BY <1>1, <2>2 DEF ProcBySlot
  <2> QED
    BY <2>1, <2>2, <2>3
<1>5. Proc[Owner] = Entry(regs, cr3) /\ Proc'[Owner] = Entry(Advanced, cr3)
  <2>1. Proc'[FlowAt(run)'] = SlotEntry(run)' /\ Proc[FlowAt(run)] = SlotEntry(run)
    BY <1>1, <1>2 DEF ProcBySlot
  <2> QED
    BY <1>2, <2>1 DEF SlotEntry
<1>6. /\ Proc'[Owner].space = Proc[Owner].space
      /\ Proc'[Owner].context \in AfterInstruction(Proc[Owner].context)
  BY <1>5 DEF Entry, Advanced, NextPc, AfterInstruction, IInv, TypeOK, Context
<1> QED
  BY <1>2, <1>3, <1>4, <1>6
     DEF Promise!RunningMoves, Promise!Live, Promise!Keep, Promise!Idle,
         AfterInstruction, Proc, Owner

(* An instruction changes the running flow only.                           *)
LEMMA ComputeRefines ==
  ASSUME IInv, IInv', Compute
  PROVE  Promise!Advance
<1> PICK run : run = fifo_run
  OBVIOUS
<1>1. /\ mode = "user" /\ regs' = Advanced
      /\ UNCHANGED <<fifo, fifo_size, fifo_run, cr3, mode>>
  BY DEF Compute
<1>2. Queued' = Queued /\ \A i \in Queued : FlowAt(i)' = FlowAt(i)
  BY <1>1 DEF Queued, FlowAt
<1>3. /\ \A i \in Queued \ {run} : SlotEntry(i)' = SlotEntry(i)
      /\ SlotEntry(run)' = Entry(Advanced, cr3)
  BY <1>1 DEF SlotEntry
<1>4. Promise!RunningMoves
  BY <1>1, <1>2, <1>3, RunningSlotMoves
<1>5. Owner' = Owner /\ Phase' = Phase
  BY <1>1, AdvancedType DEF Owner, Phase, IInv
<1> QED
  BY <1>4, <1>5 DEF Promise!Advance, Owner, Phase

(* next_task suspends a flow and resumes another as it left it.            *)
LEMMA YieldRefines ==
  ASSUME IInv, IInv', Yield
  PROVE  Promise!HandOver
<1> PICK run : run = fifo_run
  OBVIOUS
<1>1. /\ mode = "user" /\ mode' = "user" /\ UNCHANGED fifo_size
      /\ fifo' = [fifo EXCEPT ![run].context = Advanced]
      /\ regs' = fifo'[fifo_run'].context /\ cr3' = fifo'[fifo_run'].pgt
  BY DEF Yield, Resume
<1>2. run \in Queued /\ cr3 = fifo[run].pgt /\ regs.flow = FlowAt(run)
  BY <1>1 DEF IInv, CurrentIsRunning, Queued, TypeOK, Slots
<1>3. /\ \A i \in Queued \ {run} : fifo'[i] = fifo[i]
      /\ fifo'[run].context = Advanced /\ fifo'[run].pgt = cr3
  BY <1>1, <1>2, QueuedTask DEF IInv, TypeOK, Task
<1>4. Queued' = Queued /\ \A i \in Queued : FlowAt(i)' = FlowAt(i)
  BY <1>1, <1>2, <1>3, AdvancedType DEF Queued, FlowAt, IInv
<1>5. \A i \in Queued : SlotEntry(i)' = Entry(fifo'[i].context, fifo'[i].pgt)
  BY <1>1 DEF SlotEntry
<1>6. /\ \A i \in Queued \ {run} : SlotEntry(i)' = SlotEntry(i)
      /\ SlotEntry(run)' = Entry(Advanced, cr3)
  BY <1>2, <1>3, <1>5 DEF SlotEntry
<1>7. Promise!RunningMoves
  BY <1>1, <1>4, <1>6, RunningSlotMoves
<1>8. Owner' \in Alive' /\ DOMAIN Proc' = Alive' /\ Alive' = Alive /\ DOMAIN Proc = Alive
  BY <1>1, <1>4, ProcSlots, ProcSlotsNext DEF ProcBySlot, Alive
<1>9. Phase' = Phase
  BY <1>1 DEF Phase
<1> QED
  BY <1>7, <1>8, <1>9 DEF Promise!HandOver, Promise!Live, Proc, Owner, Phase

(* exit_task removes the running flow and no other.                        *)
LEMMA ExitRefines ==
  ASSUME IInv, IInv', Exit
  PROVE  Promise!Finish
<1> USE TaskFifoAssumption
<1> PICK run, last : run = fifo_run /\ last = fifo_size - 1
  OBVIOUS
<1>1. ProcBySlot /\ ProcBySlot'
  BY ProcSlots, ProcSlotsNext
<1>2. /\ run \in Queued /\ last \in Queued /\ mode = "user"
      /\ fifo_size' = last /\ Queued' = Queued \ {last}
      /\ Owner = FlowAt(run) /\ Owner # 0
  BY <1>1 DEF Exit, ProcBySlot, IInv, FlowsCreated, Queued, TypeOK
<1>3. /\ mode' \in {"user", "done"}
      /\ mode' = "done" => last = 0
      /\ mode' = "user" => /\ regs' = fifo'[fifo_run'].context
                           /\ cr3' = fifo'[fifo_run'].pgt
                           /\ last # 0
  BY <1>2 DEF Exit, LeaveTask, Resume
<1>4. \A i \in Queued' :
        SlotEntry(i)' = Entry(fifo'[i].context, fifo'[i].pgt)
  BY <1>3 DEF SlotEntry
<1>5. \A i \in Queued' : fifo'[i] = IF i = run THEN fifo[last] ELSE fifo[i]
  <2>1. CASE run = last
    BY <1>2, <2>1 DEF Exit
  <2>2. CASE run # last
    <3>1. fifo' = [fifo EXCEPT ![run] = fifo[last]]
      BY <1>2, <2>2 DEF Exit
    <3> QED
      BY <1>2, <3>1 DEF IInv, TypeOK, Queued, Slots
  <2> QED
    BY <2>1, <2>2
<1> DEFINE from(i) == IF i = run THEN last ELSE i
<1>6. ASSUME NEW i \in Queued'
      PROVE  /\ from(i) \in Queued \ {run}
             /\ FlowAt(i)' = FlowAt(from(i))
             /\ SlotEntry(i)' = SlotEntry(from(i))
  <2>1. from(i) \in Queued \ {run} /\ fifo'[i] = fifo[from(i)]
    BY <1>2, <1>5, <1>6
  <2> HIDE DEF from
  <2> QED
    BY <1>4, <1>6, <2>1 DEF FlowAt, SlotEntry
<1>7. \A j \in Queued \ {run} : \E i \in Queued' : j = from(i)
  BY <1>2
<1> HIDE DEF from
<1>8. \A j \in Queued \ {run} : FlowAt(j) # Owner
  BY <1>2 DEF IInv, NoFlowTwice
<1>9. Alive' = Alive \ {Owner}
  <2>1. ASSUME NEW f \in Alive' PROVE f \in Alive \ {Owner}
    <3>1. PICK i \in Queued' : f = FlowAt(i)'
      BY DEF Alive
    <3> QED
      BY <1>6, <1>8, <3>1 DEF Alive
  <2>2. ASSUME NEW f \in Alive \ {Owner} PROVE f \in Alive'
    <3>1. PICK j \in Queued : f = FlowAt(j)
      BY DEF Alive
    <3>2. j \in Queued \ {run}
      BY <1>2, <2>2, <3>1
    <3>3. PICK i \in Queued' : j = from(i)
      BY <1>7, <3>2
    <3> QED
      BY <1>6, <3>1, <3>3 DEF Alive
  <2> QED
    BY <2>1, <2>2
<1>10. ASSUME NEW f \in Alive' PROVE Proc'[f] = Proc[f]
  <2>1. PICK i \in Queued' : f = FlowAt(i)'
    BY DEF Alive
  <2>2. Proc'[FlowAt(i)'] = SlotEntry(i)'
    BY <1>1 DEF ProcBySlot
  <2>3. Proc[FlowAt(from(i))] = SlotEntry(from(i))
    BY <1>1, <1>6 DEF ProcBySlot
  <2> QED
    BY <1>6, <2>1, <2>2, <2>3
<1>11. DOMAIN Proc = Alive /\ DOMAIN Proc' = Alive' /\ Owner \in Alive
  BY <1>1, <1>2 DEF ProcBySlot
<1>12. CASE mode' = "user"
  <2>1. Owner' \in Alive' /\ Phase' = Phase
    BY <1>1, <1>2, <1>12 DEF ProcBySlot, Phase
  <2>2. Alive # {Owner}
    BY <1>9, <2>1
  <2> QED
    BY <1>2, <1>9, <1>10, <1>11, <2>1, <2>2
       DEF Promise!Finish, Promise!Live, Promise!Keep, Promise!Idle, Proc, Owner, Phase
<1>13. CASE mode' = "done"
  <2>1. Queued' = {}
    BY <1>2, <1>3, <1>13 DEF Queued
  <2>2. Alive' = {}
    BY <2>1 DEF Alive
  <2>3. Alive = {Owner}
    BY <1>9, <1>11, <2>2
  <2>4. Owner' = 0 /\ Phase' = "off"
    BY <1>13 DEF Owner, Phase
  <2> QED
    BY <1>2, <1>9, <1>10, <1>11, <2>3, <2>4
       DEF Promise!Finish, Promise!Live, Promise!Keep, Promise!Idle, Proc, Owner, Phase
<1> QED
  BY <1>3, <1>12, <1>13

(* The copies that fork_task makes are new flows with the caller's         *)
(* registers but rax.                                                      *)
LEMMA ForkRefines ==
  ASSUME IInv, IInv', Fork
  PROVE  Promise!Split
<1> USE TaskFifoAssumption
<1> PICK run : run = fifo_run
  OBVIOUS
<1>1. ProcBySlot /\ ProcBySlot'
  BY ProcSlots, ProcSlotsNext
<1>2. /\ run \in Queued /\ Owner = FlowAt(run) /\ Owner # 0
      /\ mode = "user" /\ mode' = "user" /\ fifo_run' = run /\ cr3' = cr3
      /\ fifo[run].pgt = cr3
  BY <1>1 DEF Fork, ProcBySlot, IInv, FlowsCreated, CurrentIsRunning
<1>3. /\ regs'.flow = regs.flow /\ regs'.pc = NextPc /\ regs'.rax \in Rax
  <2>1. regs' = [Advanced EXCEPT !.rax =
                   IF TASK_FIFO_LEN - fifo_size = 0 THEN Error ELSE 0]
    BY DEF Fork
  <2> QED
    BY <2>1, AdvancedType DEF IInv, Advanced, Context, TypeOK, Rax
<1>4. /\ Queued \subseteq Queued' /\ Queued' \subseteq Slots
      /\ \A i \in Queued : fifo'[i] = fifo[i]
      /\ \A i \in Queued' \ Queued : fifo'[i] = ForkedTask(i)
  BY DEF Fork, Queued, Slots, IInv, TypeOK
<1>5. \A i \in Queued : FlowAt(i)' = FlowAt(i)
  BY <1>4 DEF FlowAt
<1>6. \A i \in Queued \ {run} : SlotEntry(i)' = SlotEntry(i)
  BY <1>2, <1>4 DEF SlotEntry
<1>7. SlotEntry(run)' = Entry(regs', cr3) /\ SlotEntry(run) = Entry(regs, cr3)
  BY <1>2 DEF SlotEntry
<1>8. \A i \in Queued' \ Queued :
        /\ SlotEntry(i)'.space = cr3
        /\ SlotEntry(i)'.context \in AfterInstruction([pc |-> regs.pc, rax |-> regs.rax])
  <2> TAKE i \in Queued' \ Queued
  <2> DEFINE task == ForkedTask(i)
  <2>1. /\ task.pgt = cr3 /\ task.context.pc = NextPc /\ task.context.rax \in Rax
    BY <1>2 DEF ForkedTask, Rax
  <2> HIDE DEF task
  <2>2. i # run /\ fifo'[i] = task
    BY <1>2, <1>4 DEF task
  <2>3. SlotEntry(i)' = Entry(task.context, task.pgt)
    BY <1>2, <2>2 DEF SlotEntry
  <2> QED
    BY <2>1, <2>3 DEF Entry, AfterInstruction, NextPc
<1>9. /\ SlotEntry(run)'.space = cr3
      /\ SlotEntry(run)'.context \in AfterInstruction([pc |-> regs.pc, rax |-> regs.rax])
  BY <1>3, <1>7 DEF Entry, AfterInstruction, NextPc
<1>10. /\ DOMAIN Proc = Alive /\ DOMAIN Proc' = Alive'
       /\ \A i \in Queued : Proc[FlowAt(i)] = SlotEntry(i)
       /\ \A i \in Queued' : Proc'[FlowAt(i)'] = SlotEntry(i)'
  BY <1>1 DEF ProcBySlot
<1>11. Alive \subseteq Alive' /\ Alive' \subseteq Nat \ {0}
  <2>1. ASSUME NEW f \in Alive PROVE f \in Alive'
    BY <1>4, <1>5, <2>1 DEF Alive
  <2>2. ASSUME NEW f \in Alive' PROVE f \in Nat \ {0}
    BY <2>2 DEF Alive, IInv, FlowsCreated
  <2> QED
    BY <2>1, <2>2
<1>12. ASSUME NEW f \in Alive \ {Owner} PROVE Proc'[f] = Proc[f]
  <2>1. PICK i \in Queued : f = FlowAt(i)
    BY DEF Alive
  <2>2. i \in Queued \ {run}
    BY <1>2, <1>12, <2>1
  <2> QED
    BY <1>4, <1>5, <1>6, <1>10, <2>1, <2>2
<1>13. ASSUME NEW f \in (Alive' \ Alive) \cup {Owner}
       PROVE  /\ Proc'[f].context \in AfterInstruction(Proc[Owner].context)
              /\ Proc'[f].space = Proc[Owner].space
  <2>1. PICK i \in Queued' : f = FlowAt(i)' /\ (i = run \/ i \notin Queued)
    BY <1>2, <1>4, <1>5, <1>13 DEF Alive
  <2>2. Proc'[f] = SlotEntry(i)' /\ Proc[Owner] = Entry(regs, cr3)
    BY <1>2, <1>7, <1>10, <2>1
  <2>3. /\ SlotEntry(i)'.space = cr3
        /\ SlotEntry(i)'.context \in AfterInstruction([pc |-> regs.pc, rax |-> regs.rax])
    BY <1>8, <1>9, <2>1
  <2> QED
    BY <2>2, <2>3 DEF Entry
<1>14. Owner' = Owner /\ Phase' = Phase
  BY <1>2, <1>3 DEF Owner, Phase
<1> QED
  BY <1>2, <1>10, <1>11, <1>12, <1>13, <1>14
     DEF Promise!Split, Promise!Live, Promise!Keep, Promise!Idle, Promise!Flows,
         AfterInstruction, Proc, Owner, Phase
-------------------------------------------------------------------------------
(* Every step of the task table is one of Coroutines, or changes nothing   *)
(* it can see.                                                             *)
LEMMA NextRefines ==
  ASSUME IInv, IInv', [Next]_vars
  PROVE  Promise!AbstractNext \/ Same
<1>1. CASE ParseTask
  BY <1>1, ParseTaskRefines DEF Promise!AbstractNext
<1>2. CASE LoadDone
  <2>1. /\ UNCHANGED <<fifo, fifo_size, fifo_run, regs, cr3>>
        /\ mode = "load" /\ mode' = "ready"
    BY <1>2 DEF LoadDone
  <2>2. Queued' = Queued /\ \A i \in Queued : FlowAt(i)' = FlowAt(i)
    BY <2>1 DEF Queued, FlowAt
  <2>3. \A i \in Queued : SlotEntry(i)' = SlotEntry(i)
    BY <2>1 DEF SlotEntry
  <2>4. Proc' = Proc
    BY <2>2, <2>3, ProcSlots, ProcSlotsNext, SameProcs
  <2> QED
    BY <2>1, <2>4 DEF Same, Owner, Phase
<1>3. CASE EnterTasks
  BY <1>3, EnterTasksRefines DEF Promise!AbstractNext
<1>4. CASE NothingToRun
  BY <1>4, NothingToRunRefines DEF Promise!AbstractNext
<1>5. CASE Compute
  BY <1>5, ComputeRefines DEF Promise!AbstractNext
<1>6. CASE Yield
  BY <1>6, YieldRefines DEF Promise!AbstractNext
<1>7. CASE Exit
  BY <1>7, ExitRefines DEF Promise!AbstractNext
<1>8. CASE Fork
  BY <1>8, ForkRefines DEF Promise!AbstractNext
<1>9. CASE Die \/ UNCHANGED vars
  BY <1>9, SameState DEF Die, vars
<1> QED
  BY <1>1, <1>2, <1>3, <1>4, <1>5, <1>6, <1>7, <1>8, <1>9 DEF Next, Boot

(* No flow exists at first.                                                *)
LEMMA InitRefines == Init => Promise!AbstractInit
<1> SUFFICES ASSUME Init PROVE Promise!AbstractInit
  OBVIOUS
<1>1. Queued = {} /\ mode = "load"
  BY DEF Init, Queued
<1>2. Alive = {}
  BY <1>1 DEF Alive
<1>3. Proc = << >>
  BY <1>2 DEF Proc
<1>4. Owner = 0 /\ Phase = "boot"
  BY <1>1 DEF Owner, Phase
<1> QED
  BY <1>3, <1>4 DEF Promise!AbstractInit, Promise!Idle, Proc, Owner, Phase

(* The fifo of task.c implements Coroutines: in every execution, for every *)
(* length of the fifo and every list of modules, only the running flow's   *)
(* registers move, a suspended flow finds its registers and its page table *)
(* as it left them, and a flow disappears only by its own exit             *)
(* (task.c:204-282).                                                       *)
THEOREM PromiseKept == Spec => KeepsPromise
<1>1. IInv /\ IInv' /\ [Next]_vars => [Promise!AbstractNext]_(Promise!abstractVars)
  BY NextRefines DEF Same, Promise!abstractVars, Proc, Owner, Phase
<1> QED
  BY <1>1, InitRefines, Invariance, PTL DEF Spec, KeepsPromise, Promise!AbstractSpec
===============================================================================
