------------------------------- MODULE Intercept -------------------------------
(***************************************************************************)
(* tp-3/janus/monitor/intercept.c with protect_low_memory and              *)
(* unprotect_low_memory of memory.c: each privileged instruction of the    *)
(* guest raises a signal whose handler emulates it on the virtual          *)
(* processor of GuestState, delivers one pending interrupt and lets the    *)
(* guest go on.  A handler runs alone: one action per instruction.         *)
(*                                                                         *)
(* The guest executes natively between two signals.  It is entry.S of      *)
(* janus, or any guest: pieces of code like those of entry.S in any order, *)
(* those that undo what entry.S set up included.  shadow.c is a set of     *)
(* stubs, so the model starts where main calls setup_state.                *)
(***************************************************************************)
EXTENDS GuestState

VARIABLES
  program,   (* "entry" for entry.S, "any" for an arbitrary guest          *)
  g,         (* guest_state                                                *)
  rip,       (* <<piece of code, position>>                                *)
  acc,       (* the register the guest computes flags in                   *)
  stack,     (* the guest's stack, its top first                           *)
  prot,      (* protection of each area of the low memory                  *)
  maps,      (* low_memory_maps: the protections that were recorded        *)
  status,    (* "boot", "running", "success", "failure" or "crash"         *)
  resume     (* where the guest was at each interrupt not yet returned from *)

vars == <<program, g, rip, acc, stack, prot, maps, status, resume>>
-------------------------------------------------------------------------------
Op(op, arg) == [op |-> op, arg |-> arg]
Or(c, flags) == <<Op("from_cr", c), Op("or", flags), Op("to_cr", c)>>
AndNot(c, flags) == <<Op("from_cr", c), Op("and_not", flags), Op("to_cr", c)>>
Lme(op) == <<Op("rdmsr", 0), Op(op, {"LME"}), Op("wrmsr", 0)>>
LoadCr3 == <<Op("or", {"pml4"}), Op("to_cr", 3)>>
Lgdt(entries, extra) == <<Op("lgdt", [entries |-> entries, extra |-> extra])>>
Lidt(size) == <<Op("lidt", [size |-> size, extra |-> 0])>>
Sel(s, index) == <<Op("to_sel", [s |-> s, index |-> index])>>

(* entry.S: orl $0x80000100 adds PG and, where the comment has WP, bit 8,  *)
(* which no flag has.                                                      *)
Entry ==
  Lgdt(Gdt32, 0) \o Sel("DS", 2) \o <<Op("ljmp", 1)>> \o LoadCr3
  \o Or(4, {"PAE", "PGE"}) \o Lme("or") \o Or(0, {"PG"}) \o Lgdt(Gdt64, 0)
  \o <<Op("ljmp", 1)>> \o Sel("DS", 2) \o Sel("ES", 2) \o Sel("FS", 2)
  \o Sel("GS", 2) \o Sel("SS", 2)

Code == [
  entry |-> Entry,
  main |-> <<Op("store", 0)>>,               (* clear() writes to the screen *)
  gp |-> <<Op("pop", 0), Op("iretq", 0)>>,  (* trap.pl, of GP: drops the code *)
  gdt32 |-> Lgdt(Gdt32, 0), gdt64 |-> Lgdt(Gdt64, 0), gdtOdd |-> Lgdt(Gdt64, 3),
  cs |-> <<Op("ljmp", 1)>>, ds |-> Sel("DS", 2), absent |-> Sel("DS", 0),
  past |-> Sel("ES", 3), cr3 |-> LoadCr3,
  pae |-> Or(4, {"PAE", "PGE"}), noPae |-> AndNot(4, {"PAE"}),
  lme |-> Lme("or"), noLme |-> Lme("and_not"), ne |-> Or(0, {"NE"}),
  pg |-> Or(0, {"PG"}), noPg |-> AndNot(0, {"PG"}), noPe |-> AndNot(0, {"PE"}),
  idt |-> Lidt(INTERRUPT_COUNT), shortIdt |-> Lidt(GP), out |-> <<Op("out", "pic")>>,
  outOther |-> <<Op("out", "other")>>, sti |-> <<Op("sti", 0)>>,
  invlpg |-> <<Op("invlpg", 0)>>, load |-> <<Op("load", 0)>>, hlt |-> <<Op("hlt", 0)>>, 
  bad |-> <<Op("int", 0)>>]

Pieces == DOMAIN Code \ {"entry", "main", "gp"}

Address0 == <<"null", 0>>
Running == status = "running" /\ rip # Address0
Ended == rip[2] > Len(Code[rip[1]])
Now(op) == Running /\ ~Ended /\ Code[rip[1]][rip[2]].op = op
Arg == Code[rip[1]][rip[2]].arg
NextRip == <<rip[1], rip[2] + 1>>
-------------------------------------------------------------------------------
(* The monitor's own segments, which its Makefile links at 0x10000.        *)
Segments == [text |-> {"R", "X"}, rodata |-> {"R"}, data |-> {"R", "W"}]

protect_low_memory(p) == [a \in DOMAIN p |-> p[a] \ {"W"}]

\* Mutant of unprotect_low_memory: nothing is given back.
unprotect_nothing(recorded, p) == p

unprotect_low_memory(recorded, p) == recorded

(* protect_low_memory records what it finds, then takes W away. *)
Protected(p) == maps' = p /\ prot' = protect_low_memory(p)

interrupt_entry(s, vec) == IF vec >= s.idt_size THEN Address0 ELSE <<"gp", 1>>

(* Of these only GP is ever raised: 9 and 16, which trap.pl's handlers take *)
(* to come without a code, are in the switch for nothing.                  *)
WithCode == 8 .. 14 \cup {16, 17}

\* Mutant of branch_interrupt: no error code is pushed.
frame_no_code(s, vec, from) ==
  <<from, <<"cs", s.selectors["CS"]>>, <<"flags", 0>>,
    <<"rsp", Len(stack)>>, <<"ss", s.selectors["SS"]>>>>

(* What branch_interrupt pushes. *)
Frame(s, vec, from) ==
  (IF vec \in WithCode THEN <<<<"code", 0>>>> ELSE <<>>)
  \o <<from, <<"cs", s.selectors["CS"]>>, <<"flags", 0>>,
       <<"rsp", Len(stack)>>, <<"ss", s.selectors["SS"]>>>>

branch_interrupt(s, vec, from) ==
  /\ rip' = interrupt_entry(s, vec)
  /\ stack' = Frame(s, vec, from) \o stack
  /\ resume' = <<[rip |-> from, depth |-> Len(stack)]>> \o resume

(* handler(): s is the processor after the instruction and next its rip. *)
handler(s, next) ==
  /\ UNCHANGED program
  /\ IF s.end # "no"
       THEN /\ g' = s /\ status' = s.end
            /\ prot' = unprotect_low_memory(maps, prot)
            /\ UNCHANGED <<rip, stack, resume, maps>>
       ELSE /\ UNCHANGED status
            /\ Protected(unprotect_low_memory(maps, prot))
            /\ IF s.itpending = {}
                 THEN g' = s /\ rip' = next /\ UNCHANGED <<stack, resume>>
                 ELSE LET p == pending_interrupt(s)
                      IN g' = p.g /\ branch_interrupt(p.g, p.vec, next)
-------------------------------------------------------------------------------
Init ==
  /\ program \in {"entry", "any"}
  /\ g = setup_state
  /\ rip = <<IF program = "entry" THEN "entry" ELSE "ne", 1>>
  /\ acc = {} /\ stack = <<>> /\ resume = <<>>
  /\ prot = Segments
  /\ maps = [a \in DOMAIN Segments |-> {}]
  /\ status = "boot"

(* The end of main. *)
Boot ==
  /\ status = "boot" /\ status' = "running"
  /\ Protected(prot)
  /\ UNCHANGED <<program, g, rip, acc, stack, resume>>

EmulateLgdt == Now("lgdt") /\ handler(lgdt(g, Arg), NextRip) /\ UNCHANGED acc
EmulateLidt == Now("lidt") /\ handler(lidt(g, Arg), NextRip) /\ UNCHANGED acc
EmulateRdmsr == Now("rdmsr") /\ handler(g, NextRip) /\ acc' = rdmsr(g)
EmulateWrmsr == Now("wrmsr") /\ handler(wrmsr(g, acc), NextRip) /\ UNCHANGED acc
EmulateOut == Now("out") /\ handler(out8(g, Arg), NextRip) /\ UNCHANGED acc
EmulateSti == Now("sti") /\ handler(g, NextRip) /\ UNCHANGED acc
EmulateInvlpg == Now("invlpg") /\ handler(g, NextRip) /\ UNCHANGED acc

(* The target of the jump, fault or not.  In 64 bits no instruction holds a *)
(* selector: the jump is unknown, or loads the null one, which is not long. *)
EmulateLjmp ==
  /\ Now("ljmp") /\ UNCHANGED acc
  /\ handler(IF g.mode = 64 THEN unsupported(g) ELSE mov_to_selector(g, Arg, "CS"), NextRip)

EmulateMovToSel ==
  /\ Now("to_sel")
  /\ handler(mov_to_selector(g, Arg.index, Arg.s), NextRip)
  /\ UNCHANGED acc

EmulateMovToCr ==
  Now("to_cr") /\ handler(mov_to_control(g, acc, Arg), NextRip) /\ UNCHANGED acc

EmulateMovFromCr ==
  Now("from_cr") /\ handler(g, NextRip) /\ acc' = mov_from_control(g, Arg)

(* A store to the low memory ends in trap_write, which exits; so does      *)
(* trap_read, for a load from what the monitor did not map.                *)
EmulateMovToMem == Now("store") /\ handler(unsupported(g), NextRip) /\ UNCHANGED acc
EmulateMovFromMem == Now("load") /\ handler(unsupported(g), NextRip) /\ UNCHANGED acc

(* The address comes from the stack, the stack pointer does not. *)
EmulateIretq ==
  /\ Now("iretq")
  /\ rip' = Head(stack)
  /\ stack' = SubSeq(stack, 6, Len(stack))
  /\ resume' = Tail(resume)
  /\ Protected(unprotect_low_memory(maps, prot))
  /\ UNCHANGED <<program, g, acc, status>>

EmulateHlt ==
  /\ Now("hlt") /\ status' = "success"
  /\ prot' = unprotect_low_memory(maps, prot)
  /\ UNCHANGED <<program, g, rip, acc, stack, maps, resume>>

EmulateOther == Now("int") /\ handler(unsupported(g), NextRip) /\ UNCHANGED acc

(* The fetch at address 0 faults, and the decoder reads address 0 again.   *)
FetchAtNull ==
  /\ status = "running" /\ rip = Address0 /\ status' = "crash"
  /\ prot' = unprotect_low_memory(maps, prot)
  /\ UNCHANGED <<program, g, rip, acc, stack, maps, resume>>

(* What the guest executes without the monitor. *)
GuestStep ==
  /\ \/ Now("or") /\ acc' = acc \cup Arg /\ rip' = NextRip /\ UNCHANGED stack
     \/ Now("and_not") /\ acc' = acc \ Arg /\ rip' = NextRip /\ UNCHANGED stack
     \/ Now("pop") /\ stack' = Tail(stack) /\ rip' = NextRip /\ UNCHANGED acc
     \/ /\ Running /\ Ended
        /\ rip' \in IF program = "entry" THEN {<<"main", 1>>}
                    ELSE {<<p, 1>> : p \in Pieces}
        /\ acc' = {} /\ UNCHANGED stack
  /\ UNCHANGED <<program, g, prot, maps, status, resume>>

Stopped == status \notin {"boot", "running"} /\ UNCHANGED vars

Trap == \/ EmulateLgdt \/ EmulateLidt \/ EmulateRdmsr \/ EmulateWrmsr \/ EmulateOut
        \/ EmulateSti \/ EmulateInvlpg \/ EmulateLjmp \/ EmulateMovToSel
        \/ EmulateMovToCr \/ EmulateMovFromCr \/ EmulateMovToMem
        \/ EmulateMovFromMem \/ EmulateIretq \/ EmulateHlt \/ EmulateOther \/ FetchAtNull

Next == Boot \/ Trap \/ GuestStep \/ Stopped

(* The process is scheduled: the guest and the handlers go on. *)
Fairness == WF_vars(Boot \/ Trap \/ GuestStep)
Spec == Init /\ [][Next]_vars /\ Fairness
-------------------------------------------------------------------------------
(* The registers, the stack and the recorded protections have their types. *)
TypeOK ==
  /\ g \in States
  /\ rip[1] \in DOMAIN Code \cup {"null"} /\ rip[2] \in Nat
  /\ acc \subseteq Flags
  /\ prot \in [DOMAIN Segments -> SUBSET {"R", "W", "X"}]
  /\ maps \in [DOMAIN Segments -> SUBSET {"R", "W", "X"}]
  /\ status \in {"boot", "running", "success", "failure", "crash"}

(* A guest enters 64 bits only with PE, PG, PAE and LMA, whatever it set   *)
(* and cleared before, though the calls of state.c make the change that    *)
(* they fault: a guest in 32 bits has no IDT, and goes to address 0.  LME  *)
(* is not claimed: clearing PG leaves LMA, and LME can then be cleared.    *)
(* Nor is it claimed after: a guest with an IDT clears PAE and goes on.    *)
LongModeEntered ==
  [][g.mode = 32 /\ g'.mode = 64 =>
       {"PE", "PG"} \subseteq g'.cr[0] /\ "PAE" \in g'.cr[4] /\ "LMA" \in g'.efer]_vars

(* handler() delivers one interrupt per signal, and an instruction raises  *)
(* no more than one: none is left behind.                                  *)
NothingPending == Running => g.itpending = {}

(* Between two signals the guest cannot write to the low memory, where the *)
(* monitor's own segments are, and the handler that comes next will get    *)
(* back the protections the segments were linked with.                     *)
MonitorGuarded ==
  status = "running" => maps = Segments /\ \A a \in DOMAIN prot : "W" \notin prot[a]

(* iretq goes back where the last general protection fault, the only       *)
(* interrupt ever raised, found the guest, with the stack it had: the      *)
(* handler drops the code that branch_interrupt pushed.                    *)
InterruptsReturn ==
  [][EmulateIretq => rip' = Head(resume).rip /\ Len(stack') = Head(resume).depth]_vars

(* entry.S ends in main_multiboot2, in 64 bits, without a fault. *)
EntersMain ==
  program = "entry" ~> (rip = <<"main", 1>> /\ g.mode = 64 /\ stack = <<>>)
===============================================================================
