------------------------------- MODULE TaskFifo -------------------------------
(***************************************************************************)
(* The task table of tp-1/rackdoll/kernel/task.c: loading the multiboot    *)
(* modules into the fifo, entering user mode, and the three system calls   *)
(* that reorder the fifo (yield, exit, fork).  There is no timer (the LAPIC*)
(* is never set up): the processor changes hands only in these calls, so   *)
(* each handler is one step.                                               *)
(*                                                                         *)
(* What is abstracted.  The registers saved in an interrupt_context are a  *)
(* record [flow, pc, rax]: rax carries a system call's result, pc stands   *)
(* for everything else the program computes with, and flow names the flow  *)
(* of control these registers belong to (no code reads it; the properties  *)
(* do).  A page table is named by the rank of the module it was built for. *)
(***************************************************************************)
EXTENDS Integers, Sequences

CONSTANTS
  TASK_FIFO_LEN,   (* slots of the fifo, 32 in the code                    *)
  Modules,         (* the multiboot modules in order: whether each holds a *)
                   (* task header, {TRUE}, {FALSE}, or BOOLEAN for either  *)
  MaxPc,           (* bound: pc counts modulo MaxPc + 1                    *)
  MaxFlow          (* bound: flows of control ever created                 *)

ASSUME TaskFifoAssumption ==
  /\ TASK_FIFO_LEN \in Nat \ {0}
  /\ Modules \in Seq((SUBSET BOOLEAN) \ {{}})
  /\ MaxPc \in Nat
  /\ MaxFlow \in Nat

VARIABLES
  fifo,        (* the array of struct task                                 *)
  fifo_size,   (* amount of tasks in the fifo                              *)
  fifo_run,    (* index of the current task                                *)
  save,        (* the kernel's registers before the tasks run              *)
  regs,        (* the registers of the processor                           *)
  cr3,         (* the page table in use                                    *)
  mode,        (* "load", "ready", "user", "done": where the kernel is     *)
  parsed,      (* modules already parsed                                   *)
  flows        (* flows of control created so far                          *)

vars == <<fifo, fifo_size, fifo_run, save, regs, cr3, mode, parsed, flows>>
-------------------------------------------------------------------------------
Slots == 0 .. TASK_FIFO_LEN - 1
Queued == 0 .. fifo_size - 1

Error == -1                       (* uint64_t ret = -1 *)
Rax == {Error, 0, 1}
KernelFlow == 0
KernelPgt == 0

Context == [flow : Nat, pc : 0 .. MaxPc, rax : Rax]
Task == [pgt : Nat, context : Context]

KernelContext == [flow |-> KernelFlow, pc |-> 0, rax |-> 0]
ZeroTask == [pgt |-> KernelPgt, context |-> KernelContext]

TypeOK ==
  /\ fifo \in [Slots -> Task]
  /\ fifo_size \in 0 .. TASK_FIFO_LEN
  /\ fifo_run \in Slots
  /\ save \in Context
  /\ regs \in Context
  /\ cr3 \in Nat
  /\ mode \in {"load", "ready", "user", "done"}
  /\ parsed \in 0 .. Len(Modules)
  /\ flows \in Nat

Init ==
  /\ fifo = [i \in Slots |-> ZeroTask]
  /\ fifo_size = 0
  /\ fifo_run = 0
  /\ save = KernelContext
  /\ regs = KernelContext
  /\ cr3 = KernelPgt
  /\ mode = "load"
  /\ parsed = 0
  /\ flows = 0
-------------------------------------------------------------------------------
(* load_tasks: the next module of the multiboot list goes through          *)
(* parse_task, which ignores it when the fifo is full or the module has no *)
(* header, and otherwise fills the first free slot and builds a page table.*)
ParseTask ==
  /\ mode = "load" /\ parsed < Len(Modules)
  /\ parsed' = parsed + 1
  /\ \E header \in Modules[parsed + 1] :
       IF fifo_size # TASK_FIFO_LEN /\ header
         THEN /\ fifo' = [fifo EXCEPT ![fifo_size] =
                   [pgt |-> parsed + 1,
                    context |-> [flow |-> flows + 1, pc |-> 0, rax |-> 0]]]
              /\ fifo_size' = fifo_size + 1
              /\ flows' = flows + 1
         ELSE UNCHANGED <<fifo, fifo_size, flows>>
  /\ UNCHANGED <<fifo_run, save, regs, cr3, mode>>

(* The end of the list: the system call handlers are installed. *)
LoadDone ==
  /\ mode = "load" /\ parsed = Len(Modules)
  /\ mode' = "ready"
  /\ UNCHANGED <<fifo, fifo_size, fifo_run, save, regs, cr3, parsed, flows>>

\* Mutant of Successor: the last task of the queue is never reached.
SuccessorSkipsLast(i) == IF i + 1 >= fifo_size - 1 THEN 0 ELSE i + 1

(* The slot after i, back to the first one past the end of the queue. *)
Successor(i) == IF i + 1 >= fifo_size THEN 0 ELSE i + 1

\* Mutant of Resume: set_task is forgotten, the old page table stays.
ResumeKeepsCr3(task) == regs' = task.context /\ UNCHANGED cr3

(* set_task and the copy of its context over the interrupted registers. *)
Resume(task) ==
  /\ cr3' = task.pgt
  /\ regs' = task.context

(* run_tasks with at least one task, up to the end of enter_handler. *)
EnterTasks ==
  /\ mode = "ready" /\ fifo_size > 0
  /\ fifo_run' = Successor(fifo_run)
  /\ save' = regs
  /\ Resume(fifo[fifo_run'])
  /\ mode' = "user"
  /\ UNCHANGED <<fifo, fifo_size, parsed, flows>>

(* run_tasks with an empty fifo returns at once: the kernel says goodbye. *)
NothingToRun ==
  /\ mode = "ready" /\ fifo_size = 0
  /\ mode' = "done"
  /\ UNCHANGED <<fifo, fifo_size, fifo_run, save, regs, cr3, parsed, flows>>
-------------------------------------------------------------------------------
(* A user program executes an instruction. *)
NextPc == (regs.pc + 1) % (MaxPc + 1)
Advanced == [regs EXCEPT !.pc = NextPc]

Compute ==
  /\ mode = "user"
  /\ regs' = Advanced
  /\ UNCHANGED <<fifo, fifo_size, fifo_run, save, cr3, mode, parsed, flows>>

\* Mutant of Yield: the registers of the task that yields are not saved.
YieldUnsaved ==
  /\ mode = "user"
  /\ fifo_run' = Successor(fifo_run)
  /\ Resume(fifo[fifo_run'])
  /\ UNCHANGED <<fifo, fifo_size, save, mode, parsed, flows>>

(* SYSCALL_YIELD: next_task. *)
Yield ==
  /\ mode = "user"
  /\ fifo' = [fifo EXCEPT ![fifo_run].context = Advanced]
  /\ fifo_run' = Successor(fifo_run)
  /\ Resume(fifo'[fifo_run'])
  /\ UNCHANGED <<fifo_size, save, mode, parsed, flows>>

\* The end of exit_task: back to the kernel, or on with the current slot.
LeaveTask ==
  IF fifo_size' = 0
    THEN regs' = save /\ mode' = "done" /\ UNCHANGED cr3
    ELSE Resume(fifo'[fifo_run']) /\ UNCHANGED mode

\* Mutant of Exit: after the last slot left, the one before it goes on.
ExitStepsBack ==
  /\ mode = "user"
  /\ fifo_size' = fifo_size - 1
  /\ IF fifo_run = fifo_size - 1
       THEN fifo_run' = fifo_run - 1 /\ UNCHANGED fifo
       ELSE fifo' = [fifo EXCEPT ![fifo_run] = fifo[fifo_size']]
            /\ UNCHANGED fifo_run
  /\ LeaveTask
  /\ UNCHANGED <<save, parsed, flows>>

\* Mutant of Exit: the queue shrinks only when its last task leaves.
ExitKeepsSize ==
  /\ mode = "user"
  /\ IF fifo_run = fifo_size - 1
       THEN fifo_size' = fifo_size - 1 /\ fifo_run' = 0 /\ UNCHANGED fifo
       ELSE fifo' = [fifo EXCEPT ![fifo_run] = fifo[fifo_size - 1]]
            /\ UNCHANGED <<fifo_size, fifo_run>>
  /\ LeaveTask
  /\ UNCHANGED <<save, parsed, flows>>

\* Mutant of Exit: the first task to end brings the kernel back.
ExitToKernel ==
  /\ mode = "user"
  /\ fifo_size' = fifo_size - 1
  /\ fifo_run' = 0
  /\ regs' = save /\ mode' = "done"
  /\ UNCHANGED <<fifo, cr3, save, parsed, flows>>

\* Mutant of Exit: the last task is always moved into the slot that ends,
\* also when it is that slot, and the queue never becomes empty.
ExitNeverEmpty ==
  /\ mode = "user"
  /\ fifo_size' = IF fifo_size = 1 THEN 1 ELSE fifo_size - 1
  /\ IF fifo_run = fifo_size - 1
       THEN fifo_run' = 0 /\ UNCHANGED fifo
       ELSE fifo' = [fifo EXCEPT ![fifo_run] = fifo[fifo_size']]
            /\ UNCHANGED fifo_run
  /\ LeaveTask
  /\ UNCHANGED <<save, parsed, flows>>

(* SYSCALL_EXIT, or a fault outside the user addresses: exit_task.  The    *)
(* last task of the fifo takes the place of the one that leaves.           *)
Exit ==
  /\ mode = "user"
  /\ fifo_size' = fifo_size - 1
  /\ IF fifo_run = fifo_size - 1
       THEN fifo_run' = 0 /\ UNCHANGED fifo
       ELSE fifo' = [fifo EXCEPT ![fifo_run] = fifo[fifo_size']]
            /\ UNCHANGED fifo_run
  /\ LeaveTask
  /\ UNCHANGED <<save, parsed, flows>>

(* SYSCALL_FORK: fork_task and duplicate_task call each other.  The copy   *)
(* of the current task is forked in turn until the fifo is full; each call *)
(* then overwrites the 1 it had left in its copy's rax, with 0 when a      *)
(* further copy was made and with -1 in the copy that found the fifo full. *)
ForkedTask(i) ==
  [pgt |-> fifo[fifo_run].pgt,
   context |-> [flow |-> flows + 1 + (i - fifo_size),
                pc |-> NextPc,
                rax |-> IF i = TASK_FIFO_LEN - 1 THEN Error ELSE 0]]

Fork ==
  LET copies == TASK_FIFO_LEN - fifo_size IN
  /\ mode = "user"
  /\ flows + copies <= MaxFlow
  /\ fifo' = [i \in Slots |-> IF i < fifo_size THEN fifo[i] ELSE ForkedTask(i)]
  /\ fifo_size' = TASK_FIFO_LEN
  /\ flows' = flows + copies
  /\ regs' = [Advanced EXCEPT !.rax = IF copies = 0 THEN Error ELSE 0]
  /\ UNCHANGED <<fifo_run, save, cr3, mode, parsed>>
-------------------------------------------------------------------------------
(* main_multiboot2 after run_tasks: die(), the processor stays halted. *)
Die == mode = "done" /\ UNCHANGED vars

Boot == ParseTask \/ LoadDone \/ EnterTasks \/ NothingToRun
Next == Boot \/ Compute \/ Yield \/ Exit \/ Fork \/ Die

Spec == Init /\ [][Next]_vars

(* The kernel's own code runs to its end; a running program keeps giving   *)
(* the processor back, by a yield or by its exit (each of task/*.c does).  *)
Fairness == WF_vars(Boot) /\ WF_vars(Yield \/ Exit)
FairSpec == Spec /\ Fairness
-------------------------------------------------------------------------------
FlowAt(i) == fifo[i].context.flow

(* Invariant: while a task runs, the slot fifo_run is in the queue, the    *)
(* page table in use is that task's, and the registers are those of the    *)
(* flow of control the slot belongs to: current() never hands a handler    *)
(* the task of another flow, whatever was yielded, exited or forked.       *)
CurrentIsRunning ==
  mode = "user" =>
    /\ fifo_run < fifo_size
    /\ cr3 = fifo[fifo_run].pgt
    /\ regs.flow = FlowAt(fifo_run)

(* Invariant: no flow of control is queued twice; the swap of exit_task,   *)
(* the copies of fork_task and the slots left behind past the end never    *)
(* make one task run from two places.                                      *)
NoFlowTwice ==
  \A i, j \in Queued : FlowAt(i) = FlowAt(j) => i = j

(* Invariant: the kernel leaves user mode only when the fifo is empty, and *)
(* then with the registers it had when it entered it.                      *)
KernelResumes ==
  mode = "done" => fifo_size = 0 /\ regs = KernelContext

(* The flows that are queued, and the promise of Coroutines about them. *)
Alive == {FlowAt(i) : i \in Queued}
SlotOf(f) == CHOOSE i \in Queued : FlowAt(i) = f
Running(f) == mode = "user" /\ regs.flow = f

(* One instruction: pc moves on, a system call may set rax. *)
AfterInstruction(c) == [pc : {(c.pc + 1) % (MaxPc + 1)}, rax : Rax]

Promise == INSTANCE Coroutines WITH
  Contexts <- [pc : 0 .. MaxPc, rax : Rax],
  Executed <- AfterInstruction,
  Spaces <- 0 .. Len(Modules),
  proc <- [f \in Alive |->
             LET c == IF Running(f) THEN regs ELSE fifo[SlotOf(f)].context
             IN [context |-> [pc |-> c.pc, rax |-> c.rax],
                 space |-> IF Running(f) THEN cr3 ELSE fifo[SlotOf(f)].pgt]],
  running <- IF mode = "user" THEN regs.flow ELSE 0,
  phase <- CASE mode = "user" -> "tasks"
             [] mode = "done" -> "off"
             [] OTHER -> "boot"

(* Refinement: the fifo gives every flow what Coroutines promises: only    *)
(* the running flow's registers move, every other one finds its registers  *)
(* and page table as it left them, and a flow disappears only by exiting.  *)
KeepsPromise == Promise!AbstractSpec

(* Liveness: every queued flow gets the processor again, or is gone: no    *)
(* order of yields and exits of the others starves it.                     *)
NobodyStarves ==
  \A f \in 1 .. MaxFlow : (f \in Alive) ~> (Running(f) \/ f \notin Alive)

(* Liveness: if tasks keep ending, the last exit brings the kernel back,    *)
(* and it says goodbye.                                                    *)
SaysGoodbye == WF_vars(Exit) => <>(mode = "done")
===============================================================================
