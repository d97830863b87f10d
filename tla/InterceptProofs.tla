---------------------------- MODULE InterceptProofs ----------------------------
(***************************************************************************)
(* Theorems about Intercept, whatever the guest executes: the monitor's    *)
(* memory is guarded between two signals and no interrupt is left behind;  *)
(* a guest that enters 64 bits set up long mode first; iretq goes back     *)
(* where the interrupt found the guest.                                    *)
(*                                                                         *)
(* First part: each emulated instruction is one call of GuestState on a    *)
(* quiet processor (nothing pending, no reason to stop), and such a call   *)
(* leaves at most the one fault that handler() then delivers.              *)
(*                                                                         *)
(* Second part: whatever is written to CR0, CR4 and EFER, every call       *)
(* leaves a sound processor (in 32 bits there is no IDT, and LMA comes     *)
(* with PAE), or one whose fault goes to address 0.                        *)
(***************************************************************************)
EXTENDS Intercept, SequenceTheorems, TLAPS

(* A processor between two signals. *)
Quiet(s) ==
  /\ {"end", "itpending"} \subseteq DOMAIN s
  /\ s.end = "no" /\ s.itpending = {}

(* A processor after one instruction. *)
Emulated(s) ==
  /\ {"end", "itpending"} \subseteq DOMAIN s
  /\ s.end \in {"no", "failure", "crash"}
  /\ s.itpending \subseteq {GP}

(* The inductive invariant: before the boot the segments are as they were  *)
(* linked, and while the guest runs they are recorded and read-only.       *)
IInv ==
  /\ status = "boot" => prot = Segments
  /\ status = "running" => maps = Segments /\ prot = protect_low_memory(Segments)
  /\ status \in {"boot", "running"} => Quiet(g)

-------------------------------------------------------------------------------
(* A fault is the only interrupt an instruction raises (state.c:21-24).    *)
LEMMA FaultEmulated ==
  ASSUME NEW s, Quiet(s), NEW faults
  PROVE  Emulated(GpIf(s, faults)) /\ GpIf(s, faults).end = "no"
BY DEF Quiet, Emulated, GpIf, trigger_interrupt

(* Every call the handler makes is an instruction's work in this sense.    *)
LEMMA CallsEmulated ==
  ASSUME NEW s, Quiet(s), NEW val, NEW index, NEW sel
  PROVE  /\ Emulated(s) /\ Emulated(unsupported(s))
         /\ Emulated(lgdt(s, val)) /\ Emulated(lidt(s, val))
         /\ Emulated(mov_to_selector(s, index, sel))
         /\ Emulated(mov_to_control(s, val, index))
         /\ Emulated(wrmsr(s, val)) /\ Emulated(out8(s, val))
<1>1. Emulated(s) /\ Emulated(unsupported(s))
  BY DEF Quiet, Emulated, unsupported
<1>2. Emulated(lgdt(s, val))
  BY FaultEmulated DEF Emulated, lgdt
<1>3. Emulated(lidt(s, val))
  BY <1>1, FaultEmulated DEF Emulated, lidt
<1>4. Emulated(mov_to_selector(s, index, sel))
  <2>1. CASE s.gdt = <<>>
    BY <2>1 DEF Quiet, Emulated, mov_to_selector
  <2>2. CASE s.gdt # <<>>
    <3> DEFINE f == GpIf(s, index > Len(s.gdt) \/ Descriptor(s, index) = "absent")
    <3>1. Emulated(f)
      BY FaultEmulated
    <3> HIDE DEF f
    <3>2. Emulated([f EXCEPT !.selectors[sel] = index,
                             !.mode = IF sel = "CS" /\ LongModeReady(s) THEN 64 ELSE @])
      BY <3>1 DEF Emulated
    <3> QED
      BY <2>2, <1>1, <3>2 DEF mov_to_selector, f
  <2> QED
    BY <2>1, <2>2
<1>5. Emulated(mov_to_control(s, val, index))
  <2>1. Emulated(mov_to_cr0(s, val))
    <3> DEFINE long == "PG" \in val \ s.cr[0] /\ "LME" \in s.efer
               f == GpIf(s, long /\ "PAE" \notin s.cr[4])
    <3>1. Emulated(f)
      BY FaultEmulated
    <3> HIDE DEF f
    <3>2. Emulated([f EXCEPT !.efer = IF long THEN @ \cup {"LMA"} ELSE @,
                             !.cr[0] = val \cup {"ET"}])
      BY <3>1 DEF Emulated
    <3>3. Emulated([s EXCEPT !.end = "failure"])
      BY DEF Quiet, Emulated
    <3> QED
      BY <3>2, <3>3 DEF mov_to_cr0, f
  <2>2. Emulated(mov_to_cr4(s, val))
    BY FaultEmulated DEF Emulated, mov_to_cr4
  <2>3. Emulated([s EXCEPT !.cr[index] = val])
    BY DEF Quiet, Emulated
  <2> QED
    BY <2>1, <2>2, <2>3 DEF mov_to_control
<1>6. Emulated(wrmsr(s, val))
  BY FaultEmulated DEF Emulated, wrmsr
<1>7. Emulated(out8(s, val))
  BY <1>1 DEF out8
<1> QED
  BY <1>1, <1>2, <1>3, <1>4, <1>5, <1>6, <1>7

(* One pending interrupt is all there can be, and it is taken.             *)
LEMMA DeliveryQuiet ==
  ASSUME NEW s, Emulated(s), s.end = "no", s.itpending # {}
  PROVE  Quiet(pending_interrupt(s).g)
<1>1. s.itpending = {GP}
  BY DEF Emulated
<1>2. Lowest({GP}) = GP
  <2>1. GP \in {GP} /\ \A w \in {GP} : GP <= w
    BY DEF GP
  <2> QED
    BY <2>1 DEF Lowest
<1> QED
  BY <1>1, <1>2 DEF Emulated, Quiet, pending_interrupt

(* The end of handler() (intercept.c:488-502), after any instruction.      *)
LEMMA HandlerKeeps ==
  ASSUME IInv, status = "running", NEW s, Emulated(s), NEW next, handler(s, next)
  PROVE  IInv'
<1>1. maps = Segments /\ prot = protect_low_memory(Segments)
  BY DEF IInv
<1>2. CASE s.end # "no"
  <2>1. status' = s.end
    BY <1>2 DEF handler
  <2>2. status' \in {"failure", "crash"}
    BY <2>1, <1>2 DEF Emulated
  <2> QED
    BY <2>2 DEF IInv
<1>3. CASE s.end = "no"
  <2>1. status' = "running" /\ Protected(unprotect_low_memory(maps, prot))
    BY <1>3 DEF handler
  <2>2. maps' = Segments /\ prot' = protect_low_memory(Segments)
    BY <2>1, <1>1 DEF Protected, unprotect_low_memory
  <2>3. Quiet(g')
    <3>1. CASE s.itpending = {}
      BY <1>3, <3>1 DEF handler, Emulated, Quiet
    <3>2. CASE s.itpending # {}
      BY <1>3, <3>2, DeliveryQuiet DEF handler
    <3> QED
      BY <3>1, <3>2
  <2> QED
    BY <2>1, <2>2, <2>3 DEF IInv, protect_low_memory, Quiet
<1> QED
  BY <1>2, <1>3
-------------------------------------------------------------------------------
(* The invariant holds when the guest starts.                              *)
LEMMA InitIInv == Init => IInv
BY DEF Init, IInv, Quiet, setup_state

(* Every trap and every signal keeps the invariant.                        *)
LEMMA NextIInv == IInv /\ [Next]_vars => IInv'
<1> SUFFICES ASSUME IInv, [Next]_vars PROVE IInv'
  OBVIOUS
<1> USE DEF Now, Running
<1>1. CASE Boot
  <2>1. prot = Segments /\ Quiet(g)
    BY <1>1 DEF Boot, IInv
  <2>2. maps' = Segments /\ prot' = protect_low_memory(Segments) /\ g' = g /\ status' = "running"
    BY <1>1, <2>1 DEF Boot, Protected
  <2> QED
    BY <2>1, <2>2 DEF IInv, protect_low_memory, Quiet
<1>2. CASE Trap
  <2>1. CASE status = "running" /\ \E s, next : Emulated(s) /\ handler(s, next)
    BY <2>1, HandlerKeeps
  <2>2. CASE EmulateIretq
    <3>1. maps' = Segments /\ prot' = protect_low_memory(Segments) /\ g' = g /\ status' = status
      BY <2>2 DEF EmulateIretq, IInv, Protected, unprotect_low_memory
    <3>2. status = "running" /\ Quiet(g)
      BY <2>2 DEF EmulateIretq, IInv
    <3> QED
      BY <3>1, <3>2 DEF IInv, protect_low_memory, Quiet
  <2>3. CASE EmulateHlt \/ FetchAtNull
    BY <2>3 DEF EmulateHlt, FetchAtNull, IInv
  <2>4. CASE ~EmulateIretq /\ ~EmulateHlt /\ ~FetchAtNull
    <3>1. status = "running" /\ Quiet(g)
      BY <1>2, <2>4 DEF Trap, IInv, EmulateLgdt, EmulateLidt, EmulateRdmsr, EmulateWrmsr,
         EmulateOut, EmulateSti, EmulateInvlpg, EmulateLjmp, EmulateMovToSel, EmulateMovToCr,
         EmulateMovFromCr, EmulateMovToMem, EmulateMovFromMem, EmulateOther
    <3>2. \E s : Emulated(s) /\ handler(s, NextRip)
      <4>1. CASE EmulateRdmsr \/ EmulateSti \/ EmulateInvlpg \/ EmulateMovFromCr
        BY <4>1, <3>1, CallsEmulated
           DEF EmulateRdmsr, EmulateSti, EmulateInvlpg, EmulateMovFromCr
      <4>2. CASE EmulateMovToMem \/ EmulateMovFromMem \/ EmulateOther
        BY <4>2, <3>1, CallsEmulated DEF EmulateMovToMem, EmulateMovFromMem, EmulateOther
      <4>3. CASE EmulateLgdt \/ EmulateLidt
        BY <4>3, <3>1, CallsEmulated DEF EmulateLgdt, EmulateLidt
      <4>4. CASE EmulateWrmsr \/ EmulateOut
        BY <4>4, <3>1, CallsEmulated DEF EmulateWrmsr, EmulateOut
      <4>5. CASE EmulateLjmp \/ EmulateMovToSel
        <5>1. CASE EmulateMovToSel
          BY <5>1, <3>1, CallsEmulated DEF EmulateMovToSel
        <5>2. CASE EmulateLjmp
          BY <5>2, <3>1, CallsEmulated DEF EmulateLjmp
        <5> QED
          BY <4>5, <5>1, <5>2
      <4>6. CASE EmulateMovToCr
        BY <4>6, <3>1, CallsEmulated DEF EmulateMovToCr
      <4> QED
        BY <1>2, <2>4, <4>1, <4>2, <4>3, <4>4, <4>5, <4>6 DEF Trap
    <3> QED
      BY <3>1, <3>2, <2>1
  <2> QED
    BY <2>2, <2>3, <2>4
<1>3. CASE GuestStep
  <2>1. UNCHANGED <<g, prot, maps, status>>
    BY <1>3 DEF GuestStep
  <2> QED
    BY <2>1 DEF IInv, protect_low_memory, Quiet
<1>4. CASE UNCHANGED vars
  BY <1>4 DEF vars, IInv, protect_low_memory, Quiet
<1> QED
  BY <1>1, <1>2, <1>3, <1>4 DEF Next, Stopped

(* Theorem: the inductive invariant holds of every behaviour.              *)
THEOREM Invariance == Spec => []IInv
BY InitIInv, NextIInv, PTL DEF Spec

(* memory.c:128-172: whenever the guest runs its code, no area of the low  *)
(* memory can be written and the protections recorded are the linked ones. *)
THEOREM Guarded == Spec => []MonitorGuarded
<1>1. IInv => MonitorGuarded
  BY DEF IInv, MonitorGuarded, protect_low_memory, Segments
<1> QED
  BY <1>1, Invariance, PTL

(* intercept.c:488-502: handler() leaves no interrupt for a later signal.  *)
THEOREM Delivered == Spec => []NothingPending
<1>1. IInv => NothingPending
  BY DEF IInv, NothingPending, Running, Quiet
<1> QED
  BY <1>1, Invariance, PTL
-------------------------------------------------------------------------------
(* The instructions of the guest, with the types of their arguments.       *)
Instructions ==
  UNION {[op : {"from_cr", "to_cr"}, arg : Controls],
         [op : {"or", "and_not"}, arg : SUBSET Flags],
         [op : {"rdmsr", "wrmsr", "sti", "invlpg", "hlt", "int", "pop", "iretq", "store",
                "load"}, arg : {0}],
         [op : {"lgdt"}, arg : [entries : {Gdt32, Gdt64}, extra : Nat]],
         [op : {"lidt"}, arg : [size : 0 .. INTERRUPT_COUNT, extra : Nat]],
         [op : {"out"}, arg : {"pic", "other"}],
         [op : {"ljmp"}, arg : Nat],
         [op : {"to_sel"}, arg : [s : Selectors \ {"CS"}, index : Nat]]}

(* Code that is not of an interrupt handler. *)
Plain == {x \in Instructions : x.op \notin {"pop", "iretq"}}
Regular(code) == code \in Seq(Plain)

(* Regular pieces make regular code. *)
LEMMA RegularConcat ==
  ASSUME NEW a, NEW b, Regular(a), Regular(b)
  PROVE  Regular(a \o b)
BY ConcatProperties DEF Regular

(* The instructions that set or clear flags of a control register.         *)
LEMMA FlagsRegular ==
  ASSUME NEW c \in Controls, NEW f \in SUBSET Flags
  PROVE  Regular(Or(c, f)) /\ Regular(AndNot(c, f))
<1> DEFINE a == Op("from_cr", c)
           b == Op("or", f)
           e == Op("and_not", f)
           d == Op("to_cr", c)
<1>1. a \in Plain /\ b \in Plain /\ d \in Plain /\ e \in Plain
  BY DEF Plain, Instructions, Op
<1>2. Or(c, f) = <<a, b, d>> /\ AndNot(c, f) = <<a, e, d>>
  BY DEF Or, AndNot
<1> HIDE DEF a, b, d, e
<1> QED
  BY <1>1, <1>2 DEF Regular

(* LME is set or cleared, and CR3 loaded. *)
LEMMA LoadsRegular ==
  Regular(Lme("or")) /\ Regular(Lme("and_not")) /\ Regular(LoadCr3)
<1> DEFINE a == Op("rdmsr", 0)
           b == Op("or", {"LME"})
           n == Op("and_not", {"LME"})
           c == Op("wrmsr", 0)
           d == Op("or", {"pml4"})
           e == Op("to_cr", 3)
<1>1. /\ a \in Plain /\ b \in Plain /\ n \in Plain /\ c \in Plain
      /\ d \in Plain /\ e \in Plain
  BY DEF Plain, Instructions, Op, Flags, Controls
<1>2. Lme("or") = <<a, b, c>> /\ Lme("and_not") = <<a, n, c>> /\ LoadCr3 = <<d, e>>
  BY DEF Lme, LoadCr3
<1> HIDE DEF a, b, c, d, e, n
<1>3. <<a, b, c>> \in Seq(Plain) /\ <<a, n, c>> \in Seq(Plain) /\ <<d, e>> \in Seq(Plain)
  BY <1>1
<1> QED
  BY <1>2, <1>3 DEF Regular

(* The pieces of one instruction.                                          *)
LEMMA SmallRegular ==
  /\ \A t \in {Gdt32, Gdt64}, x \in Nat : Regular(Lgdt(t, x))
  /\ \A n \in 0 .. INTERRUPT_COUNT : Regular(Lidt(n))
  /\ \A s \in Selectors \ {"CS"}, i \in Nat : Regular(Sel(s, i))
  /\ \A o \in {"sti", "invlpg", "hlt", "int", "store", "load"} : Regular(<<Op(o, 0)>>)
  /\ \A p \in {"pic", "other"} : Regular(<<Op("out", p)>>)
  /\ \A n \in Nat : Regular(<<Op("ljmp", n)>>)
<1>1. ASSUME NEW t \in {Gdt32, Gdt64}, NEW x \in Nat PROVE Regular(Lgdt(t, x))
  <2> DEFINE o == Op("lgdt", [entries |-> t, extra |-> x])
  <2>1. o \in Plain /\ Lgdt(t, x) = <<o>>
    BY DEF Op, Plain, Instructions, Lgdt
  <2> HIDE DEF o
  <2> QED
    BY <2>1 DEF Regular
<1>2. ASSUME NEW n \in 0 .. INTERRUPT_COUNT PROVE Regular(Lidt(n))
  <2> DEFINE o == Op("lidt", [size |-> n, extra |-> 0])
  <2>1. o \in Plain /\ Lidt(n) = <<o>>
    BY DEF Op, Plain, Instructions, Lidt
  <2> HIDE DEF o
  <2> QED
    BY <2>1 DEF Regular
<1>3. ASSUME NEW s \in Selectors \ {"CS"}, NEW i \in Nat PROVE Regular(Sel(s, i))
  <2> DEFINE o == Op("to_sel", [s |-> s, index |-> i])
  <2>1. o \in Plain /\ Sel(s, i) = <<o>>
    BY DEF Op, Plain, Instructions, Sel
  <2> HIDE DEF o
  <2> QED
    BY <2>1 DEF Regular
<1>4. /\ \A o \in {"sti", "invlpg", "hlt", "int", "store", "load"} : Op(o, 0) \in Plain
      /\ \A p \in {"pic", "other"} : Op("out", p) \in Plain
      /\ \A n \in Nat : Op("ljmp", n) \in Plain
  BY DEF Op, Plain, Instructions
<1> QED
  BY <1>1, <1>2, <1>3, <1>4 DEF Regular

(* The code of entry.S. *)
LEMMA EntryRegular == Regular(Entry)
<1>1. /\ Regular(Lgdt(Gdt32, 0)) /\ Regular(Lgdt(Gdt64, 0)) /\ Regular(<<Op("ljmp", 1)>>)
      /\ \A s \in Selectors \ {"CS"} : Regular(Sel(s, 2))
  BY SmallRegular
<1>2. /\ Regular(LoadCr3) /\ Regular(Lme("or"))
      /\ Regular(Or(4, {"PAE", "PGE"})) /\ Regular(Or(0, {"PG"}))
  BY LoadsRegular, FlagsRegular DEF Flags, Controls
<1>3. Regular(Lgdt(Gdt32, 0) \o Sel("DS", 2) \o <<Op("ljmp", 1)>> \o LoadCr3)
  BY <1>1, <1>2, RegularConcat DEF Selectors
<1>4. Regular(Lgdt(Gdt32, 0) \o Sel("DS", 2) \o <<Op("ljmp", 1)>> \o LoadCr3
              \o Or(4, {"PAE", "PGE"}) \o Lme("or") \o Or(0, {"PG"}))
  BY <1>2, <1>3, RegularConcat
<1>5. Regular(Lgdt(Gdt32, 0) \o Sel("DS", 2) \o <<Op("ljmp", 1)>> \o LoadCr3
              \o Or(4, {"PAE", "PGE"}) \o Lme("or") \o Or(0, {"PG"}) \o Lgdt(Gdt64, 0)
              \o <<Op("ljmp", 1)>>)
  BY <1>1, <1>4, RegularConcat
<1> QED
  BY <1>1, <1>5, RegularConcat DEF Entry, Selectors

(* All code but the end of trap.pl is regular.                             *)
LEMMA CodeRegular ==
  /\ Code["gp"] = <<Op("pop", 0), Op("iretq", 0)>>
  /\ \A p \in DOMAIN Code \ {"gp"} : Regular(Code[p])
  /\ {"gp", "entry", "main", "ne"} \subseteq DOMAIN Code
  /\ "null" \notin DOMAIN Code
<1>1. Code["gp"] = <<Op("pop", 0), Op("iretq", 0)>>
  BY DEF Code
<1>2. {"gp", "entry", "main", "ne"} \subseteq DOMAIN Code /\ "null" \notin DOMAIN Code
  BY DEF Code
<1>3. ASSUME NEW p \in DOMAIN Code \ {"gp"} PROVE Regular(Code[p])
  <2>1. CASE p \in {"entry", "main"}
    BY <2>1, EntryRegular, SmallRegular DEF Code
  <2>2. CASE p \in {"gdt32", "gdt64", "gdtOdd", "cs", "ds", "absent", "past"}
    BY <2>2, SmallRegular DEF Code, Selectors
  <2>3. CASE p \in {"cr3", "lme", "noLme"}
    BY <2>3, LoadsRegular DEF Code
  <2>4. CASE p \in {"pae", "noPae", "pg", "noPg", "noPe", "ne"}
    BY <2>4, FlagsRegular DEF Code, Controls, Flags
  <2>5. CASE p \in {"idt", "shortIdt", "out", "outOther", "sti", "invlpg", "load", "hlt", "bad"}
    BY <2>5, SmallRegular DEF Code, INTERRUPT_COUNT, GP
  <2> QED
    BY <2>1, <2>2, <2>3, <2>4, <2>5 DEF Code
<1> QED
  BY <1>1, <1>2, <1>3
-------------------------------------------------------------------------------
(* The virtual processor between two signals: in 32 bits, no IDT, and long *)
(* mode active only with PAE.                                              *)
Sound(s) ==
  /\ s \in States
  /\ "PE" \in s.cr[0]
  /\ s.mode = 32 => s.idt_size = 0 /\ ("LMA" \in s.efer => "PAE" \in s.cr[4])

(* What an instruction leaves: a sound processor, or one whose fault will  *)
(* go to address 0 for want of an IDT.                                     *)
Lands(s) ==
  /\ s \in States
  /\ s.end = "no" => Sound(s) \/ (s.itpending # {} /\ s.idt_size = 0)

(* A fault changes nothing but what is pending (state.c:21-24).            *)
LEMMA FaultSound ==
  ASSUME NEW s, Sound(s), NEW faults
  PROVE  /\ Sound(GpIf(s, faults))
         /\ faults => GpIf(s, faults).itpending # {}
         /\ GpIf(s, faults).mode = s.mode /\ GpIf(s, faults).cr = s.cr
         /\ GpIf(s, faults).efer = s.efer /\ GpIf(s, faults).idt_size = s.idt_size
<1> DEFINE v == s.itpending \cup {GP}
           r == [s EXCEPT !.itpending = v]
<1>1. GpIf(s, faults) = IF faults THEN r ELSE s
  BY DEF GpIf, trigger_interrupt
<1>2. s.itpending \in SUBSET (0 .. INTERRUPT_COUNT - 1)
  BY DEF Sound, States
<1>3. v \in SUBSET (0 .. INTERRUPT_COUNT - 1) /\ v # {}
  BY <1>2 DEF GP, INTERRUPT_COUNT
<1> HIDE DEF v
<1>4. /\ r \in States /\ r.mode = s.mode /\ r.cr = s.cr /\ r.efer = s.efer
      /\ r.idt_size = s.idt_size /\ r.itpending = v
  BY <1>3 DEF Sound, States
<1> HIDE DEF r
<1> QED
  BY <1>1, <1>3, <1>4 DEF Sound

(* The end of the monitor lands (intercept.c: exit).                       *)
LEMMA EndLands ==
  ASSUME NEW s, Sound(s), NEW e \in {"failure", "crash"}
  PROVE  Lands([s EXCEPT !.end = e])
BY DEF Sound, Lands, States

(* state.c: the descriptor tables. *)
LEMMA TablesLand ==
  ASSUME NEW s, Sound(s), NEW t \in {Gdt32, Gdt64}, NEW x \in Nat,
         NEW n \in 0 .. INTERRUPT_COUNT
  PROVE  /\ Lands(lgdt(s, [entries |-> t, extra |-> x]))
         /\ lgdt(s, [entries |-> t, extra |-> x]).mode = s.mode
         /\ Lands(lidt(s, [size |-> n, extra |-> x]))
         /\ lidt(s, [size |-> n, extra |-> x]).mode = s.mode
<1> DEFINE f == GpIf(s, x # 0)
<1>1. Sound(f) /\ f.mode = s.mode
  BY FaultSound
<1>2. /\ lgdt(s, [entries |-> t, extra |-> x]) = [f EXCEPT !.gdt = t]
      /\ s.mode = 64 => lidt(s, [size |-> n, extra |-> x]) = [f EXCEPT !.idt_size = n]
      /\ s.mode # 64 => lidt(s, [size |-> n, extra |-> x]) = [s EXCEPT !.end = "failure"]
  BY DEF lgdt, lidt, unsupported
<1> HIDE DEF f
<1>3. Lands([f EXCEPT !.gdt = t]) /\ [f EXCEPT !.gdt = t].mode = s.mode
  BY <1>1 DEF Lands, Sound, States
<1>4. s.mode = 64 => Lands([f EXCEPT !.idt_size = n]) /\ [f EXCEPT !.idt_size = n].mode = s.mode
  <2> DEFINE r == [f EXCEPT !.idt_size = n]
  <2>1. /\ r \in States /\ r.mode = f.mode /\ r.cr = f.cr /\ r.efer = f.efer
        /\ r.itpending = f.itpending /\ r.idt_size = n
    BY <1>1 DEF Sound, States
  <2> HIDE DEF r
  <2>2. s.mode = 64 => Lands(r) /\ r.mode = s.mode
    BY <1>1, <2>1 DEF Lands, Sound
  <2> QED
    BY <2>2 DEF r
<1>5. Lands([s EXCEPT !.end = "failure"]) /\ [s EXCEPT !.end = "failure"].mode = s.mode
  BY EndLands DEF Sound, States
<1> QED
  BY <1>2, <1>3, <1>4, <1>5

(* state.c: a selector, and the switch to 64 bits, which only CS makes and *)
(* only when long mode is active: in a sound processor, with PAE.          *)
LEMMA SelectorLands ==
  ASSUME NEW s, Sound(s), NEW index \in Nat, NEW sel \in Selectors
  PROVE  LET n == mov_to_selector(s, index, sel)
         IN /\ Lands(n) /\ n.cr = s.cr /\ n.efer = s.efer
            /\ sel # "CS" => n.mode = s.mode
            /\ s.mode = 32 /\ n.mode = 64 => LongModeReady(s) /\ "PAE" \in s.cr[4]
<1> DEFINE f == GpIf(s, index > Len(s.gdt) \/ Descriptor(s, index) = "absent")
           m == IF sel = "CS" /\ LongModeReady(s) THEN 64 ELSE f.mode
           r == [f EXCEPT !.selectors[sel] = index, !.mode = m]
<1>1. Sound(f) /\ f.mode = s.mode /\ f.efer = s.efer /\ f.idt_size = s.idt_size /\ f.cr = s.cr
  BY FaultSound
<1>2. \/ mov_to_selector(s, index, sel) = [s EXCEPT !.end = "crash"]
      \/ mov_to_selector(s, index, sel) = [s EXCEPT !.end = "failure"]
      \/ mov_to_selector(s, index, sel) = r
  BY DEF mov_to_selector, unsupported
<1>3. /\ m \in {32, 64} /\ s.mode \in {32, 64}
      /\ m = 32 => f.mode = 32
      /\ sel # "CS" => m = s.mode
      /\ s.mode = 32 /\ m = 64 => LongModeReady(s)
  BY <1>1 DEF Sound, States
<1> HIDE DEF f, m
<1>4. Lands(r) /\ r.mode = m /\ r.cr = s.cr /\ r.efer = s.efer
  BY <1>1, <1>3 DEF Lands, Sound, States
<1>5. LongModeReady(s) /\ s.mode = 32 => "PAE" \in s.cr[4]
  BY DEF LongModeReady, Sound
<1> DEFINE q(e) == [s EXCEPT !.end = e]
<1>6. ASSUME NEW e \in {"crash", "failure"}
      PROVE  Lands(q(e)) /\ q(e).mode = s.mode /\ q(e).cr = s.cr /\ q(e).efer = s.efer
  BY EndLands DEF Sound, States
<1> DEFINE n == mov_to_selector(s, index, sel)
<1>7. n = q("crash") \/ n = q("failure") \/ n = r
  BY <1>2
<1> HIDE DEF r, q, n
<1>8. CASE n = r
  BY <1>3, <1>4, <1>5, <1>8 DEF n
<1>9. CASE n = q("crash") \/ n = q("failure")
  BY <1>6, <1>9, <1>3 DEF n
<1> QED
  BY <1>7, <1>8, <1>9

(* A control register is written. *)
Written(s, c, v) == [s EXCEPT !.cr[c] = v]

(* Nothing else changes then. *)
LEMMA RegisterWritten ==
  ASSUME NEW s \in States, NEW c \in Controls, NEW v \in SUBSET Flags,
         NEW r, r = Written(s, c, v)
  PROVE  /\ r \in States /\ r.mode = s.mode /\ r.idt_size = s.idt_size /\ r.efer = s.efer
         /\ r.itpending = s.itpending /\ r.end = s.end
         /\ r.cr[c] = v /\ \A d \in Controls \ {c} : r.cr[d] = s.cr[d]
<1> DEFINE q == [s.cr EXCEPT ![c] = v]
<1>1. s.cr \in [Controls -> SUBSET Flags]
  BY DEF States
<1>2. /\ q \in [Controls -> SUBSET Flags] /\ q[c] = v
      /\ \A d \in Controls \ {c} : q[d] = s.cr[d]
  BY <1>1
<1>3. r = [s EXCEPT !.cr = q]
  BY DEF Written
<1> HIDE DEF q
<1>4. /\ r \in States /\ r.mode = s.mode /\ r.idt_size = s.idt_size /\ r.efer = s.efer
      /\ r.itpending = s.itpending /\ r.end = s.end /\ r.cr = q
  BY <1>2, <1>3 DEF States
<1> QED
  BY <1>2, <1>4

(* state.c: a control register, whatever is written to it.  In 32 bits     *)
(* what takes PAE from an active long mode, or activates it without, is a  *)
(* fault.                                                                  *)
LEMMA ControlLands ==
  ASSUME NEW s, Sound(s), s.itpending = {}, NEW c \in Controls, NEW val \in SUBSET Flags
  PROVE  Lands(mov_to_control(s, val, c)) /\ mov_to_control(s, val, c).mode = s.mode
<1>1. CASE c = 0
  <2> DEFINE long == "PG" \in val \ s.cr[0] /\ "LME" \in s.efer
             f == GpIf(s, long /\ "PAE" \notin s.cr[4])
             e == IF long THEN f.efer \cup {"LMA"} ELSE f.efer
             v == val \cup {"ET"}
             h == [f EXCEPT !.efer = e]
             r == Written(h, 0, v)
  <2>1. /\ Sound(f) /\ f.mode = s.mode /\ f.efer = s.efer /\ f.idt_size = s.idt_size
        /\ f.cr = s.cr
        /\ long /\ "PAE" \notin s.cr[4] => f.itpending # {}
    BY FaultSound
  <2>2. mov_to_control(s, val, c) =
          IF "PE" \in s.cr[0] \ val THEN [s EXCEPT !.end = "failure"] ELSE r
    BY <1>1 DEF mov_to_control, mov_to_cr0, Written
  <2>3. v \in SUBSET Flags /\ e \in SUBSET Flags
    BY <2>1 DEF Sound, States, Flags
  <2>4. "LMA" \in e => long \/ "LMA" \in s.efer
    BY <2>1
  <2>5. "PE" \notin s.cr[0] \ val => "PE" \in v
    BY DEF Sound
  <2> HIDE DEF f, long, e, v
  <2>6. r.mode = s.mode /\ r.end = f.end /\ r.itpending = f.itpending /\ r.idt_size = f.idt_size
        /\ r.efer = e /\ r.cr[0] = v /\ r.cr[4] = f.cr[4] /\ r \in States
    <3>1. f \in States /\ 0 \in Controls /\ 4 \in Controls \ {0}
      BY <2>1 DEF Sound, Controls
    <3>2. /\ h \in States /\ h.mode = f.mode /\ h.idt_size = f.idt_size /\ h.efer = e
          /\ h.itpending = f.itpending /\ h.end = f.end /\ h.cr = f.cr
      BY <2>3, <3>1 DEF States
    <3> HIDE DEF h
    <3>3. r = Written(h, 0, v)
      OBVIOUS
    <3> HIDE DEF r
    <3> QED
      BY <2>1, <2>3, <3>1, <3>2, <3>3, RegisterWritten
  <2> HIDE DEF r
  <2>7. "PE" \notin s.cr[0] \ val => Lands(r)
    <3>1. CASE s.mode = 32 /\ long /\ "PAE" \notin s.cr[4]
      BY <2>1, <2>6, <3>1 DEF Lands, Sound
    <3>2. CASE ~(s.mode = 32 /\ long /\ "PAE" \notin s.cr[4])
      BY <2>1, <2>4, <2>5, <2>6, <3>2 DEF Lands, Sound
    <3> QED
      BY <3>1, <3>2
  <2>8. Lands([s EXCEPT !.end = "failure"]) /\ [s EXCEPT !.end = "failure"].mode = s.mode
    BY EndLands DEF Sound, States
  <2> QED
    BY <2>2, <2>6, <2>7, <2>8
<1>2. CASE c = 4
  <2> DEFINE f == GpIf(s, "PAE" \in s.cr[4] \ val /\ "LMA" \in s.efer)
             r == Written(f, 4, val)
  <2>1. /\ Sound(f) /\ f.mode = s.mode /\ f.efer = s.efer /\ f.idt_size = s.idt_size
        /\ f.cr = s.cr
        /\ "PAE" \in s.cr[4] \ val /\ "LMA" \in s.efer => f.itpending # {}
    BY FaultSound
  <2>2. mov_to_control(s, val, c) = r
    BY <1>2 DEF mov_to_control, mov_to_cr4, Written
  <2> HIDE DEF f
  <2>3. r.mode = s.mode /\ r.end = f.end /\ r.itpending = f.itpending /\ r.idt_size = f.idt_size
        /\ r.efer = s.efer /\ r.cr[0] = s.cr[0] /\ r.cr[4] = val /\ r \in States
    <3>1. f \in States /\ f.efer \in SUBSET Flags /\ 4 \in Controls /\ 0 \in Controls \ {4}
      BY <2>1 DEF Sound, States, Controls
    <3>2. r = Written(f, 4, val)
      OBVIOUS
    <3> HIDE DEF r
    <3> QED
      BY <2>1, <3>1, <3>2, RegisterWritten
  <2> HIDE DEF r
  <2>4. CASE s.mode = 32 /\ "PAE" \in s.cr[4] \ val /\ "LMA" \in s.efer
    BY <2>1, <2>2, <2>3, <2>4 DEF Lands, Sound
  <2>5. CASE ~(s.mode = 32 /\ "PAE" \in s.cr[4] \ val /\ "LMA" \in s.efer)
    BY <2>1, <2>2, <2>3, <2>5 DEF Lands, Sound
  <2> QED
    BY <2>4, <2>5
<1>3. CASE c = 3
  <2>1. mov_to_control(s, val, c) = Written(s, 3, val)
    BY <1>3 DEF mov_to_control, Written
  <2> DEFINE r == Written(s, 3, val)
  <2>2. r.mode = s.mode /\ r.end = s.end /\ r.idt_size = s.idt_size
        /\ r.efer = s.efer /\ r.cr[0] = s.cr[0] /\ r.cr[4] = s.cr[4] /\ r \in States
    <3>1. s \in States /\ s.efer \in SUBSET Flags /\ 3 \in Controls /\ {0, 4} \subseteq Controls \ {3}
      BY DEF Sound, States, Controls
    <3>2. r = Written(s, 3, val)
      OBVIOUS
    <3> HIDE DEF r
    <3> QED
      BY <3>1, <3>2, RegisterWritten
  <2> HIDE DEF r
  <2> QED
    BY <2>1, <2>2 DEF Lands, Sound, r
<1> QED
  BY <1>1, <1>2, <1>3 DEF Controls

(* state.c: EFER, where LMA is for the processor to set.                   *)
LEMMA EferLands ==
  ASSUME NEW s, Sound(s), s.itpending = {}, NEW val \in SUBSET Flags
  PROVE  Lands(wrmsr(s, val)) /\ wrmsr(s, val).mode = s.mode
<1> DEFINE turned == (val \ s.efer) \cup (s.efer \ val)
           bad == "LMA" \in val \ s.efer \/ ("LME" \in turned /\ "PG" \in s.cr[0])
           f == GpIf(s, bad)
           r == [f EXCEPT !.efer = val]
<1>1. /\ Sound(f) /\ f.mode = s.mode /\ f.idt_size = s.idt_size
      /\ f.cr = s.cr
      /\ bad => f.itpending # {}
  BY FaultSound
<1>2. wrmsr(s, val) = r
  BY DEF wrmsr
<1>3. ~bad => ("LMA" \in val => "LMA" \in s.efer)
  OBVIOUS
<1> HIDE DEF f, bad
<1>4. r.mode = s.mode /\ r.end = f.end /\ r.itpending = f.itpending /\ r.idt_size = f.idt_size
      /\ r.efer = val /\ r.cr = s.cr /\ r \in States
  BY <1>1 DEF Sound, States
<1> HIDE DEF r
<1>5. CASE bad /\ s.mode = 32
  BY <1>1, <1>2, <1>4, <1>5 DEF Lands, Sound
<1>6. CASE ~(bad /\ s.mode = 32)
  BY <1>1, <1>2, <1>3, <1>4, <1>6 DEF Lands, Sound
<1> QED
  BY <1>5, <1>6
-------------------------------------------------------------------------------
(* A place in the guest's own code, its end included.                      *)
At(r) ==
  /\ r[1] \in DOMAIN Code \ {"gp"}
  /\ r[2] \in 1 .. Len(Code[r[1]]) + 1

(* The guest executes its own code, with nothing on the stack.             *)
InCode(r, st, re) == At(r) /\ st = <<>> /\ re = <<>>

(* The guest is in its handler, called after r: the frame is that of       *)
(* branch_interrupt, with the code it pushed or without.                   *)
InHandler(r, from, st, re) ==
  /\ At(from) /\ re = <<[rip |-> from, depth |-> 0]>>
  /\ \E c, f, p, d :
       \/ r = <<"gp", 1>> /\ st = <<<<"code", 0>>, from, c, f, p, d>>
       \/ r = <<"gp", 2>> /\ st = <<from, c, f, p, d>>

GuestKept(r, st, re) ==
  \/ r = Address0
  \/ InCode(r, st, re)
  \/ \E from : InHandler(r, from, st, re)

(* The inductive invariant of the guest and its virtual processor.         *)
GInv ==
  /\ TypeOK
  /\ status \in {"boot", "running"} => GuestKept(rip, stack, resume)
  /\ status \in {"boot", "running"} /\ rip # Address0 => Sound(g)

(* A guest about to execute an instruction that is not of its handler is   *)
(* in its code.                                                            *)
LEMMA InstructionAt ==
  ASSUME GInv, Running, ~Ended, Code[rip[1]][rip[2]].op \notin {"pop", "iretq"}
  PROVE  /\ InCode(rip, stack, resume) /\ Sound(g)
         /\ Code[rip[1]][rip[2]] \in Instructions
         /\ At(NextRip) /\ NextRip[1] \in DOMAIN Code /\ NextRip[2] \in Nat
<1>1. GuestKept(rip, stack, resume) /\ Sound(g)
  BY DEF GInv, Running
<1>2. ~(rip = <<"gp", 1>> \/ rip = <<"gp", 2>>)
  BY CodeRegular DEF Op
<1>3. InCode(rip, stack, resume)
  BY <1>1, <1>2 DEF GuestKept, InHandler, Running
<1>4. rip[1] \in DOMAIN Code \ {"gp"} /\ rip[2] \in 1 .. Len(Code[rip[1]]) + 1
  BY <1>3 DEF InCode, At
<1>5. Code[rip[1]] \in Seq(Plain) /\ Len(Code[rip[1]]) \in Nat
  BY <1>4, CodeRegular, LenProperties DEF Regular
<1>6. rip[2] \in 1 .. Len(Code[rip[1]])
  BY <1>4, <1>5 DEF Ended
<1>7. Code[rip[1]][rip[2]] \in Instructions
  BY <1>5, <1>6, ElementOfSeq DEF Plain
<1>8. NextRip[1] = rip[1] /\ NextRip[2] = rip[2] + 1
  BY DEF NextRip
<1> QED
  BY <1>1, <1>3, <1>4, <1>5, <1>6, <1>7, <1>8 DEF At

(* Only the handler pops and returns.                                      *)
LEMMA HandlerAt ==
  ASSUME GInv, Running, ~Ended, NEW o \in {"pop", "iretq"}, Code[rip[1]][rip[2]].op = o
  PROVE  /\ Sound(g)
         /\ \E from : InHandler(rip, from, stack, resume)
         /\ rip = <<"gp", IF o = "pop" THEN 1 ELSE 2>>
<1>1. GuestKept(rip, stack, resume) /\ Sound(g)
  BY DEF GInv, Running
<1>2. ~InCode(rip, stack, resume)
  <2>1. SUFFICES ASSUME InCode(rip, stack, resume) PROVE FALSE
    OBVIOUS
  <2>2. rip[1] \in DOMAIN Code \ {"gp"} /\ rip[2] \in 1 .. Len(Code[rip[1]]) + 1
    BY <2>1 DEF InCode, At
  <2>3. Code[rip[1]] \in Seq(Plain)
    BY <2>2, CodeRegular DEF Regular
  <2>4. rip[2] \in 1 .. Len(Code[rip[1]])
    BY <2>2, <2>3, LenProperties DEF Ended
  <2> QED
    BY <2>3, <2>4, ElementOfSeq DEF Plain
<1>3. \E from : InHandler(rip, from, stack, resume)
  BY <1>1, <1>2 DEF GuestKept, Running
<1>4. rip = <<"gp", 1>> \/ rip = <<"gp", 2>>
  BY <1>3 DEF InHandler
<1>5. rip = <<"gp", IF o = "pop" THEN 1 ELSE 2>>
  BY <1>4, CodeRegular DEF Op
<1> QED
  BY <1>1, <1>3, <1>5
-------------------------------------------------------------------------------
(* The code pushed after the frame, on an empty stack. *)
LEMMA Pushed ==
  ASSUME NEW e, NEW n, NEW c, NEW f, NEW p, NEW d
  PROVE  (<<e>> \o <<n, c, f, p, d>>) \o << >> = <<e, n, c, f, p, d>>
<1> DEFINE S == {e, n, c, f, p, d}
           a == <<e>>
           b == <<n, c, f, p, d>>
           t == <<e, n, c, f, p, d>>
<1>1. /\ Len(a) = 1 /\ Len(b) = 5 /\ Len(t) = 6
      /\ a[1] = e /\ b[1] = n /\ b[2] = c /\ b[3] = f /\ b[4] = p /\ b[5] = d
      /\ t[1] = e /\ t[2] = n /\ t[3] = c /\ t[4] = f /\ t[5] = p /\ t[6] = d
      /\ t \in Seq(S) /\ a \in Seq(S) /\ b \in Seq(S)
  OBVIOUS
<1> HIDE DEF a, b, t, S
<1>2. /\ a \o b \in Seq(S) /\ Len(a \o b) = Len(a) + Len(b)
      /\ \A i \in 1 .. Len(a) + Len(b) :
           (a \o b)[i] = IF i <= Len(a) THEN a[i] ELSE b[i - Len(a)]
  BY <1>1, ConcatProperties
<1>3. Len(a \o b) = 6
  BY <1>1, <1>2
<1>4. ASSUME NEW i \in 1 .. 6 PROVE (a \o b)[i] = t[i]
  <2>1. i = 1 \/ i = 2 \/ i = 3 \/ i = 4 \/ i = 5 \/ i = 6
    OBVIOUS
  <2>2. (a \o b)[i] = IF i <= 1 THEN a[i] ELSE b[i - 1]
    BY <1>1, <1>2
  <2>3. i = 1 => (a \o b)[i] = t[i]
    BY <1>1, <2>2
  <2>4. i = 2 => (a \o b)[i] = t[i]
    BY <1>1, <2>2
  <2>5. i = 3 => (a \o b)[i] = t[i]
    BY <1>1, <2>2
  <2>6. i = 4 => (a \o b)[i] = t[i]
    BY <1>1, <2>2
  <2>7. i = 5 => (a \o b)[i] = t[i]
    BY <1>1, <2>2
  <2>8. i = 6 => (a \o b)[i] = t[i]
    BY <1>1, <2>2
  <2> QED
    BY <2>1, <2>3, <2>4, <2>5, <2>6, <2>7, <2>8
<1>5. a \o b = t
  BY <1>1, <1>2, <1>3, <1>4, SeqEqual
<1>6. (a \o b) \o << >> = t
  BY <1>1, <1>5, ConcatEmptySeq
<1> QED
  BY <1>6 DEF a, b, t

(* What branch_interrupt leaves for a protection fault found at next.      *)
LEMMA FaultDelivered ==
  ASSUME NEW s \in States, Emulated(s), s.end = "no", s.itpending # {}, NEW next,
         stack = <<>>, resume = <<>>,
         branch_interrupt(pending_interrupt(s).g, pending_interrupt(s).vec, next)
  PROVE  \/ rip' = Address0 /\ s.idt_size <= GP
         \/ /\ rip' = <<"gp", 1>> /\ ~(s.idt_size <= GP)
            /\ resume' = <<[rip |-> next, depth |-> 0]>>
            /\ \E c, f, p, d : stack' = <<<<"code", 0>>, next, c, f, p, d>>
<1> DEFINE q == pending_interrupt(s).g
<1>1. s.itpending = {GP}
  BY DEF Emulated
<1>2. Lowest({GP}) = GP
  <2>1. GP \in {GP} /\ \A w \in {GP} : GP <= w
    BY DEF GP
  <2> QED
    BY <2>1 DEF Lowest
<1>3. pending_interrupt(s).vec = GP
  BY <1>1, <1>2 DEF pending_interrupt
<1>4. q.idt_size = s.idt_size
  BY DEF pending_interrupt, States
<1> HIDE DEF q
<1>5. /\ rip' = interrupt_entry(q, GP) /\ stack' = Frame(q, GP, next) \o stack
      /\ resume' = <<[rip |-> next, depth |-> Len(stack)]>> \o resume
  BY <1>3 DEF branch_interrupt, q
<1>6. rip' = IF GP >= s.idt_size THEN Address0 ELSE <<"gp", 1>>
  BY <1>4, <1>5 DEF interrupt_entry
<1>7. resume' = <<[rip |-> next, depth |-> 0]>>
  <2>1. Len(stack) = 0
    OBVIOUS
  <2> QED
    BY <1>5, <2>1
<1>8. \E c, f, p, d : stack' = <<<<"code", 0>>, next, c, f, p, d>>
  <2>1. GP \in WithCode
    BY DEF GP, WithCode
  <2> DEFINE c == <<"cs", q.selectors["CS"]>>
             f == <<"flags", 0>>
             p == <<"rsp", Len(stack)>>
             d == <<"ss", q.selectors["SS"]>>
  <2>2. Frame(q, GP, next) = <<<<"code", 0>>>> \o <<next, c, f, p, d>>
    BY <2>1 DEF Frame
  <2> HIDE DEF c, f, p, d
  <2> DEFINE e == <<"code", 0>>
  <2> HIDE DEF e
  <2>3. (<<e>> \o <<next, c, f, p, d>>) \o << >> = <<e, next, c, f, p, d>>
    BY Pushed
  <2>4. stack' = <<<<"code", 0>>, next, c, f, p, d>>
    BY <1>5, <2>2, <2>3 DEF e
  <2> QED
    BY <2>4
<1> QED
  BY <1>6, <1>7, <1>8

(* The type of the protections of the low memory.                          *)
Typed(p) == p \in [DOMAIN Segments -> SUBSET {"R", "W", "X"}]

(* Taking W away keeps it. *)
LEMMA ProtectionsTyped ==
  ASSUME NEW p, Typed(p)
  PROVE  Typed(protect_low_memory(p))
BY DEF Typed, protect_low_memory

(* The end of handler() after an instruction of the guest's own code.      *)
LEMMA HandlerGuest ==
  ASSUME GInv, NEW o, Now(o), o \notin {"pop", "iretq"},
         NEW s, Emulated(s), Lands(s), handler(s, NextRip), acc' \subseteq Flags
  PROVE  GInv'
<1>1. /\ stack = <<>> /\ resume = <<>> /\ rip[1] \in DOMAIN Code /\ rip[2] \in Nat
  <2>1. At(rip) /\ stack = <<>> /\ resume = <<>>
    BY InstructionAt DEF InCode, Now
  <2>2. rip[1] \in DOMAIN Code /\ Len(Code[rip[1]]) \in Nat
    BY <2>1, CodeRegular, LenProperties DEF At, Regular
  <2> QED
    BY <2>1, <2>2 DEF At
<1>2. At(NextRip) /\ NextRip[1] \in DOMAIN Code /\ NextRip[2] \in Nat
  BY InstructionAt DEF Now
<1>3. Typed(prot) /\ Typed(maps) /\ Typed(protect_low_memory(maps))
  BY ProtectionsTyped DEF GInv, TypeOK, Typed
<1>4. status = "running" /\ s \in States
  BY DEF Running, Lands, Now
<1>6. CASE s.end # "no"
  <2>1. /\ g' = s /\ status' = s.end /\ prot' = maps /\ UNCHANGED <<rip, maps>>
    BY <1>6 DEF handler, unprotect_low_memory
  <2>2. status' \in {"failure", "crash"}
    BY <1>6, <2>1 DEF Emulated
  <2>3. TypeOK'
    BY <1>1, <1>3, <1>4, <2>1, <2>2 DEF TypeOK, Typed
  <2> QED
    BY <2>2, <2>3 DEF GInv
<1>7. CASE s.end = "no"
  <2>1. status' = "running" /\ maps' = maps /\ prot' = protect_low_memory(maps)
    BY <1>4, <1>7 DEF handler, Protected, unprotect_low_memory
  <2>2. CASE s.itpending = {}
    <3>1. g' = s /\ rip' = NextRip /\ stack' = stack /\ resume' = resume
      BY <1>7, <2>2 DEF handler
    <3>2. TypeOK'
      BY <1>2, <1>3, <1>4, <2>1, <3>1 DEF TypeOK, Typed
    <3>3. Sound(g')
      BY <1>7, <2>2, <3>1 DEF Lands
    <3>4. GuestKept(rip', stack', resume')
      BY <1>1, <1>2, <3>1 DEF GuestKept, InCode
    <3> QED
      BY <2>1, <3>2, <3>3, <3>4 DEF GInv
  <2>3. CASE s.itpending # {}
    <3>1. /\ g' = pending_interrupt(s).g
          /\ branch_interrupt(pending_interrupt(s).g, pending_interrupt(s).vec, NextRip)
      BY <1>7, <2>3 DEF handler
    <3>2. \/ rip' = Address0 /\ s.idt_size <= GP
          \/ /\ rip' = <<"gp", 1>> /\ ~(s.idt_size <= GP)
             /\ resume' = <<[rip |-> NextRip, depth |-> 0]>>
             /\ \E c, f, p, d : stack' = <<<<"code", 0>>, NextRip, c, f, p, d>>
      BY <1>1, <1>4, <1>7, <2>3, <3>1, FaultDelivered
    <3>3. g' = [s EXCEPT !.itpending = s.itpending \ {Lowest(s.itpending)}]
      BY <3>1 DEF pending_interrupt
    <3>4. /\ g' \in States /\ g'.mode = s.mode /\ g'.cr = s.cr /\ g'.efer = s.efer
          /\ g'.idt_size = s.idt_size
      <4> DEFINE v == s.itpending \ {Lowest(s.itpending)}
      <4>1. v \in SUBSET (0 .. INTERRUPT_COUNT - 1)
        BY <1>4 DEF States
      <4> HIDE DEF v
      <4>2. g' = [s EXCEPT !.itpending = v]
        BY <3>3 DEF v
      <4> QED
        BY <1>4, <4>1, <4>2 DEF States
    <3>5. TypeOK'
      <4>1. rip'[1] \in DOMAIN Code \cup {"null"} /\ rip'[2] \in Nat
        BY <3>2, CodeRegular DEF Address0
      <4> QED
        BY <1>3, <2>1, <3>4, <4>1 DEF TypeOK, Typed
    <3>6. CASE rip' = Address0
      BY <2>1, <3>5, <3>6 DEF GInv, GuestKept
    <3>7. CASE rip' # Address0
      <4>1. Sound(s)
        BY <1>7, <3>2, <3>7 DEF Lands, GP
      <4>2. Sound(g')
        BY <3>4, <4>1 DEF Sound
      <4>3. InHandler(rip', NextRip, stack', resume')
        BY <1>2, <3>2, <3>7 DEF InHandler
      <4> QED
        BY <2>1, <3>5, <4>2, <4>3 DEF GInv, GuestKept
    <3> QED
      BY <3>6, <3>7
  <2> QED
    BY <2>2, <2>3
<1> QED
  BY <1>6, <1>7
-------------------------------------------------------------------------------
(* An instruction that leaves the guest's register alone.                  *)
LEMMA CallKeeps ==
  ASSUME GInv, NEW o, Now(o), o \notin {"pop", "iretq"},
         NEW s, Emulated(s), Lands(s), handler(s, NextRip), acc' = acc
  PROVE  GInv'
BY HandlerGuest DEF GInv, TypeOK

(* The instructions whose argument is a table, and those the monitor       *)
(* ignores or does not know.                                               *)
LEMMA TablesKeep ==
  ASSUME IInv, GInv,
         EmulateLgdt \/ EmulateLidt \/ EmulateOut \/ EmulateSti \/ EmulateInvlpg
         \/ EmulateMovToMem \/ EmulateMovFromMem \/ EmulateOther
  PROVE  GInv'
<1>1. PICK o \in {"lgdt", "lidt", "out", "sti", "invlpg", "store", "load", "int"} : Now(o)
  BY DEF EmulateLgdt, EmulateLidt, EmulateOut, EmulateSti, EmulateInvlpg, EmulateMovToMem,
     EmulateMovFromMem, EmulateOther
<1>2. /\ Running /\ ~Ended /\ Code[rip[1]][rip[2]].op = o
      /\ Sound(g) /\ Code[rip[1]][rip[2]] \in Instructions
  BY <1>1, InstructionAt DEF Now
<1>3. Quiet(g) /\ acc' = acc
  BY <1>2 DEF IInv, Running, EmulateLgdt, EmulateLidt, EmulateOut, EmulateSti, EmulateInvlpg,
     EmulateMovToMem, EmulateMovFromMem, EmulateOther
<1>4. Emulated(g) /\ Lands(g)
  BY <1>2, <1>3, CallsEmulated DEF Lands, Sound
<1>5. Emulated(unsupported(g)) /\ Lands(unsupported(g))
  BY <1>2, <1>3, CallsEmulated, EndLands DEF unsupported
<1>6. CASE EmulateLgdt
  <2>1. o = "lgdt"
    BY <1>2, <1>6 DEF EmulateLgdt, Now
  <2>2. Arg \in [entries : {Gdt32, Gdt64}, extra : Nat]
    BY <1>2, <2>1 DEF Instructions, Arg
  <2>3. Lands(lgdt(g, Arg))
    <3>1. PICK t \in {Gdt32, Gdt64}, x \in Nat : Arg = [entries |-> t, extra |-> x]
      BY <2>2
    <3>2. 0 \in 0 .. INTERRUPT_COUNT
      BY DEF INTERRUPT_COUNT
    <3> QED
      BY <1>2, <3>1, <3>2, TablesLand
  <2>4. Emulated(lgdt(g, Arg)) /\ handler(lgdt(g, Arg), NextRip)
    BY <1>3, <1>6, CallsEmulated DEF EmulateLgdt
  <2> QED
    BY <1>1, <1>3, <2>3, <2>4, CallKeeps
<1>7. CASE EmulateLidt
  <2>1. o = "lidt"
    BY <1>2, <1>7 DEF EmulateLidt, Now
  <2>2. Arg \in [size : 0 .. INTERRUPT_COUNT, extra : Nat]
    BY <1>2, <2>1 DEF Instructions, Arg
  <2>3. Lands(lidt(g, Arg))
    <3>1. PICK n \in 0 .. INTERRUPT_COUNT, x \in Nat : Arg = [size |-> n, extra |-> x]
      BY <2>2
    <3> QED
      BY <1>2, <3>1, TablesLand
  <2>4. Emulated(lidt(g, Arg)) /\ handler(lidt(g, Arg), NextRip)
    BY <1>3, <1>7, CallsEmulated DEF EmulateLidt
  <2> QED
    BY <1>1, <1>3, <2>3, <2>4, CallKeeps
<1>8. CASE EmulateOut
  <2>1. /\ handler(out8(g, Arg), NextRip) /\ out8(g, Arg) \in {g, unsupported(g)}
    BY <1>8 DEF EmulateOut, out8
  <2> QED
    BY <1>1, <1>3, <1>4, <1>5, <2>1, CallKeeps
<1>9. CASE EmulateSti \/ EmulateInvlpg
  <2>1. handler(g, NextRip)
    BY <1>9 DEF EmulateSti, EmulateInvlpg
  <2> QED
    BY <1>1, <1>3, <1>4, <2>1, CallKeeps
<1>10. CASE EmulateMovToMem \/ EmulateMovFromMem \/ EmulateOther
  <2>1. handler(unsupported(g), NextRip)
    BY <1>10 DEF EmulateMovToMem, EmulateMovFromMem, EmulateOther
  <2> QED
    BY <1>1, <1>3, <1>5, <2>1, CallKeeps
<1> QED
  BY <1>6, <1>7, <1>8, <1>9, <1>10

(* The instructions that load a selector.                                  *)
LEMMA SelectorsKeep ==
  ASSUME IInv, GInv, EmulateLjmp \/ EmulateMovToSel
  PROVE  GInv'
<1>1. PICK o \in {"ljmp", "to_sel"} : Now(o)
  BY DEF EmulateLjmp, EmulateMovToSel
<1>2. /\ Running /\ ~Ended /\ Code[rip[1]][rip[2]].op = o
      /\ Sound(g) /\ Code[rip[1]][rip[2]] \in Instructions
  BY <1>1, InstructionAt DEF Now
<1>3. Quiet(g) /\ acc' = acc
  BY <1>2 DEF IInv, Running, EmulateLjmp, EmulateMovToSel
<1>4. CASE EmulateLjmp
  <2>1. o = "ljmp"
    BY <1>2, <1>4 DEF EmulateLjmp, Now
  <2>2. Arg \in Nat /\ "CS" \in Selectors
    BY <1>2, <2>1 DEF Instructions, Arg, Selectors
  <2> DEFINE r == IF g.mode = 64 THEN unsupported(g) ELSE mov_to_selector(g, Arg, "CS")
  <2>3. Emulated(r) /\ Lands(r)
    BY <1>2, <1>3, <2>2, CallsEmulated, SelectorLands, EndLands DEF unsupported
  <2>4. handler(r, NextRip)
    BY <1>4 DEF EmulateLjmp
  <2> HIDE DEF r
  <2> QED
    BY <1>1, <1>3, <2>3, <2>4, CallKeeps
<1>5. CASE EmulateMovToSel
  <2>1. o = "to_sel" /\ handler(mov_to_selector(g, Arg.index, Arg.s), NextRip)
    BY <1>2, <1>5 DEF EmulateMovToSel, Now
  <2>2. Arg \in [s : Selectors \ {"CS"}, index : Nat]
    BY <1>2, <2>1 DEF Instructions, Arg
  <2> DEFINE r == mov_to_selector(g, Arg.index, Arg.s)
  <2>3. Emulated(r) /\ Lands(r)
    BY <1>2, <1>3, <2>2, CallsEmulated, SelectorLands
  <2> HIDE DEF r
  <2>4. handler(r, NextRip)
    BY <2>1 DEF r
  <2> QED
    BY <1>1, <1>3, <2>3, <2>4, CallKeeps
<1> QED
  BY <1>4, <1>5

(* The instructions that read and write flags.                             *)
LEMMA FlagsKeep ==
  ASSUME IInv, GInv, EmulateMovFromCr \/ EmulateRdmsr \/ EmulateMovToCr \/ EmulateWrmsr
  PROVE  GInv'
<1>1. PICK o \in {"from_cr", "rdmsr", "to_cr", "wrmsr"} : Now(o)
  BY DEF EmulateMovFromCr, EmulateRdmsr, EmulateMovToCr, EmulateWrmsr
<1>2. /\ Running /\ ~Ended /\ Code[rip[1]][rip[2]].op = o
      /\ Sound(g) /\ Code[rip[1]][rip[2]] \in Instructions
      /\ Arg = Code[rip[1]][rip[2]].arg
  BY <1>1, InstructionAt DEF Now, Arg
<1>3. Quiet(g) /\ acc \in SUBSET Flags /\ g \in States
  BY <1>2 DEF IInv, Running, GInv, TypeOK
<1>4. Emulated(g) /\ Lands(g) /\ g.itpending = {}
  BY <1>2, <1>3, CallsEmulated DEF Lands, Quiet
<1>5. o \in {"from_cr", "to_cr"} => Arg \in Controls
  BY <1>2 DEF Instructions
<1>6. CASE EmulateMovFromCr
  <2>1. o = "from_cr" /\ handler(g, NextRip) /\ acc' = g.cr[Arg]
    BY <1>2, <1>6 DEF EmulateMovFromCr, Now, mov_from_control
  <2>2. acc' \subseteq Flags
    BY <1>3, <1>5, <2>1 DEF States
  <2> QED
    BY <1>1, <1>4, <2>1, <2>2, HandlerGuest
<1>7. CASE EmulateRdmsr
  <2>1. handler(g, NextRip) /\ acc' = g.efer
    BY <1>7 DEF EmulateRdmsr, rdmsr
  <2>2. acc' \subseteq Flags
    BY <1>3, <2>1 DEF States
  <2> QED
    BY <1>1, <1>4, <2>1, <2>2, HandlerGuest
<1>8. CASE EmulateMovToCr
  <2>1. o = "to_cr" /\ handler(mov_to_control(g, acc, Arg), NextRip) /\ acc' = acc
    BY <1>2, <1>8 DEF EmulateMovToCr, Now
  <2>2. Lands(mov_to_control(g, acc, Arg)) /\ Emulated(mov_to_control(g, acc, Arg))
    BY <1>2, <1>3, <1>4, <1>5, <2>1, ControlLands, CallsEmulated
  <2> QED
    BY <1>1, <2>1, <2>2, CallKeeps
<1>9. CASE EmulateWrmsr
  <2>1. handler(wrmsr(g, acc), NextRip) /\ acc' = acc
    BY <1>9 DEF EmulateWrmsr
  <2>2. Lands(wrmsr(g, acc)) /\ Emulated(wrmsr(g, acc))
    BY <1>2, <1>3, <1>4, EferLands, CallsEmulated
  <2> QED
    BY <1>1, <2>1, <2>2, CallKeeps
<1> QED
  BY <1>6, <1>7, <1>8, <1>9

(* The return from an interrupt finds the place and the stack again.       *)
LEMMA ReturnKeeps ==
  ASSUME IInv, GInv, EmulateIretq
  PROVE  GInv' /\ rip' = Head(resume).rip /\ Len(stack') = Head(resume).depth
<1>1. Running /\ ~Ended /\ Code[rip[1]][rip[2]].op = "iretq"
  BY DEF EmulateIretq, Now
<1>2. Sound(g) /\ rip = <<"gp", 2>> /\ \E from : InHandler(rip, from, stack, resume)
  BY <1>1, HandlerAt
<1>3. PICK r : InHandler(rip, r, stack, resume)
  BY <1>2
<1>4. At(r) /\ resume = <<[rip |-> r, depth |-> 0]>>
  BY <1>3 DEF InHandler
<1>5. PICK c, f, p, d : stack = <<r, c, f, p, d>>
  BY <1>2, <1>3 DEF InHandler
<1>6. Head(stack) = r /\ SubSeq(stack, 6, Len(stack)) = << >>
  BY <1>5
<1>7. Head(resume) = [rip |-> r, depth |-> 0] /\ Tail(resume) = << >>
  BY <1>4
<1>8. /\ rip' = r /\ stack' = << >> /\ resume' = << >>
      /\ UNCHANGED <<program, g, acc, status>>
      /\ maps' = maps /\ prot' = protect_low_memory(maps)
  BY <1>6, <1>7 DEF EmulateIretq, Protected, unprotect_low_memory
<1>9. TypeOK'
  <2>1. r[1] \in DOMAIN Code /\ r[2] \in Nat
    <3>1. r[1] \in DOMAIN Code \ {"gp"} /\ r[2] \in 1 .. Len(Code[r[1]]) + 1
      BY <1>4 DEF At
    <3>2. Len(Code[r[1]]) \in Nat
      BY <3>1, CodeRegular, LenProperties DEF Regular
    <3> QED
      BY <3>1, <3>2
  <2>2. Typed(maps) /\ Typed(protect_low_memory(maps))
    BY ProtectionsTyped DEF GInv, TypeOK, Typed
  <2> QED
    BY <1>8, <2>1, <2>2 DEF GInv, TypeOK, Typed
<1>10. InCode(rip', stack', resume')
  BY <1>4, <1>8 DEF InCode
<1> QED
  BY <1>1, <1>2, <1>7, <1>8, <1>9, <1>10 DEF GInv, GuestKept, Running

(* The guest moves on in its own code.                                     *)
LEMMA MovedKeeps ==
  ASSUME GInv, Running, Sound(g), stack = <<>>, resume = <<>>, At(rip'),
         UNCHANGED <<g, prot, maps, status, resume, stack>>, acc' \subseteq Flags
  PROVE  GInv'
<1>1. rip'[1] \in DOMAIN Code \ {"gp"} /\ rip'[2] \in 1 .. Len(Code[rip'[1]]) + 1
  BY DEF At
<1>2. Len(Code[rip'[1]]) \in Nat
  BY <1>1, CodeRegular, LenProperties DEF Regular
<1>3. TypeOK'
  BY <1>1, <1>2 DEF GInv, TypeOK
<1> QED
  BY <1>3 DEF GInv, GuestKept, InCode

(* What the guest executes without the monitor.                            *)
LEMMA GuestKeeps ==
  ASSUME IInv, GInv, GuestStep
  PROVE  GInv'
<1>1. UNCHANGED <<program, g, prot, maps, status, resume>>
  BY DEF GuestStep
<1>2. acc \subseteq Flags
  BY DEF GInv, TypeOK
<1>3. CASE /\ \/ Now("or") /\ acc' = acc \cup Arg
              \/ Now("and_not") /\ acc' = acc \ Arg
           /\ rip' = NextRip /\ UNCHANGED stack
  <2>1. PICK o \in {"or", "and_not"} : Now(o)
    BY <1>3
  <2>2. /\ Running /\ Sound(g) /\ Code[rip[1]][rip[2]] \in Instructions
        /\ Code[rip[1]][rip[2]].op = o
        /\ stack = <<>> /\ resume = <<>> /\ At(NextRip)
    BY <2>1, InstructionAt DEF InCode, Now
  <2>3. Arg \in SUBSET Flags
    BY <2>2 DEF Instructions, Arg
  <2> QED
    BY <1>1, <1>2, <1>3, <2>2, <2>3, MovedKeeps
<1>4. CASE Now("pop") /\ stack' = Tail(stack) /\ rip' = NextRip /\ UNCHANGED acc
  <2>1. Running /\ ~Ended /\ Code[rip[1]][rip[2]].op = "pop"
    BY <1>4 DEF Now
  <2>2. Sound(g) /\ rip = <<"gp", 1>> /\ \E from : InHandler(rip, from, stack, resume)
    BY <2>1, HandlerAt
  <2>3. PICK r : InHandler(rip, r, stack, resume)
    BY <2>2
  <2>4. PICK c, f, p, d : stack = <<<<"code", 0>>, r, c, f, p, d>>
    BY <2>2, <2>3 DEF InHandler
  <2>5. Tail(stack) = <<r, c, f, p, d>>
    BY <2>4
  <2>6. NextRip = <<"gp", 2>>
    BY <2>2 DEF NextRip
  <2>7. InHandler(rip', r, stack', resume')
    BY <1>1, <1>4, <2>3, <2>5, <2>6 DEF InHandler
  <2>8. TypeOK'
    BY <1>1, <1>4, <2>6, CodeRegular DEF GInv, TypeOK
  <2> QED
    BY <1>1, <2>2, <2>7, <2>8 DEF GInv, GuestKept
<1>5. CASE /\ Running /\ Ended
           /\ rip' \in IF program = "entry" THEN {<<"main", 1>>}
                       ELSE {<<p, 1>> : p \in Pieces}
           /\ acc' = {} /\ UNCHANGED stack
  <2>1. GuestKept(rip, stack, resume) /\ Sound(g) /\ rip # Address0
    BY <1>5 DEF GInv, Running
  <2>2. ~(rip = <<"gp", 1>> \/ rip = <<"gp", 2>>)
    BY <1>5, CodeRegular DEF Ended
  <2>3. InCode(rip, stack, resume)
    BY <2>1, <2>2 DEF GuestKept, InHandler
  <2>4. PICK p \in Pieces \cup {"main"} : rip' = <<p, 1>>
    BY <1>5
  <2>5. p \in DOMAIN Code \ {"gp"}
    BY <2>4, CodeRegular DEF Pieces
  <2>6. Len(Code[p]) \in Nat
    BY <2>5, CodeRegular, LenProperties DEF Regular
  <2>7. At(rip')
    BY <2>4, <2>5, <2>6 DEF At
  <2> QED
    BY <1>1, <1>5, <2>1, <2>3, <2>7, MovedKeeps DEF InCode
<1> QED
  BY <1>3, <1>4, <1>5 DEF GuestStep
-------------------------------------------------------------------------------
(* The guest starts at the beginning of its code, in 32 bits.              *)
LEMMA InitGInv == Init => GInv
<1> SUFFICES ASSUME Init PROVE GInv
  OBVIOUS
<1>1. PICK p \in {"entry", "ne"} : rip = <<p, 1>>
  BY DEF Init
<1>2. p \in DOMAIN Code \ {"gp"} /\ Len(Code[p]) \in Nat
  BY CodeRegular, LenProperties DEF Regular
<1>3. At(rip)
  BY <1>1, <1>2 DEF At
<1>4. /\ g \in States /\ g.mode = 32 /\ g.idt_size = 0 /\ "PE" \in g.cr[0] /\ g.efer = {}
  BY DEF Init, setup_state, States, Controls, Flags, INTERRUPT_COUNT, Selectors
<1>5. Sound(g)
  BY <1>4 DEF Sound
<1>6. InCode(rip, stack, resume)
  BY <1>3 DEF Init, InCode
<1>7. TypeOK
  BY <1>1, <1>2, <1>4 DEF Init, TypeOK, Segments
<1> QED
  BY <1>5, <1>6, <1>7 DEF GInv, GuestKept

(* Every step keeps it.                                                    *)
LEMMA NextGInv == IInv /\ GInv /\ [Next]_vars => GInv'
<1> SUFFICES ASSUME IInv, GInv, [Next]_vars PROVE GInv'
  OBVIOUS
<1>1. CASE Boot
  <2>1. Typed(prot) /\ Typed(protect_low_memory(prot))
    BY ProtectionsTyped DEF GInv, TypeOK, Typed
  <2> QED
    BY <1>1, <2>1 DEF Boot, Protected, GInv, TypeOK, Typed
<1>2. CASE Trap
  <2>1. CASE EmulateHlt \/ FetchAtNull
    BY <2>1 DEF EmulateHlt, FetchAtNull, GInv, TypeOK, unprotect_low_memory
  <2> QED
    BY <1>2, <2>1, TablesKeep, SelectorsKeep, FlagsKeep, ReturnKeeps DEF Trap
<1>3. CASE UNCHANGED vars
  BY <1>3 DEF vars, GInv, TypeOK
<1> QED
  BY <1>1, <1>2, <1>3, GuestKeeps DEF Next, Stopped

(* Theorem: the invariant of the guest holds of every behaviour.           *)
THEOREM GuestInvariance == Spec => [](IInv /\ GInv)
<1>1. Init => IInv /\ GInv
  BY InitIInv, InitGInv
<1>2. (IInv /\ GInv) /\ [Next]_vars => (IInv /\ GInv)'
  BY NextIInv, NextGInv
<1> QED
  BY <1>1, <1>2, PTL DEF Spec

(* state.c and intercept.c: registers, stack and protections keep their    *)
(* types, whatever the guest executes.                                     *)
THEOREM TypeCorrect == Spec => []TypeOK
<1>1. IInv /\ GInv => TypeOK
  BY DEF GInv
<1> QED
  BY <1>1, GuestInvariance, PTL

(* Only the far jump changes the mode.                                     *)
LEMMA EntryLegal ==
  ASSUME IInv, GInv, Next, g.mode = 32, g'.mode = 64
  PROVE  {"PE", "PG"} \subseteq g'.cr[0] /\ "PAE" \in g'.cr[4] /\ "LMA" \in g'.efer
<1>1. Trap
  BY DEF Next, Boot, GuestStep, Stopped, vars
<1>2. ~(EmulateIretq \/ EmulateHlt \/ FetchAtNull)
  BY DEF EmulateIretq, EmulateHlt, FetchAtNull
<1>3. PICK o : Now(o) /\ o \notin {"pop", "iretq"}
  BY <1>1, <1>2 DEF Trap, EmulateLgdt, EmulateLidt, EmulateRdmsr, EmulateWrmsr,
     EmulateOut, EmulateSti, EmulateInvlpg, EmulateLjmp, EmulateMovToSel, EmulateMovToCr,
     EmulateMovFromCr, EmulateMovToMem, EmulateMovFromMem, EmulateOther
<1>4. /\ Sound(g) /\ Code[rip[1]][rip[2]] \in Instructions /\ Code[rip[1]][rip[2]].op = o
      /\ Arg = Code[rip[1]][rip[2]].arg /\ Quiet(g) /\ acc \in SUBSET Flags
  BY <1>3, InstructionAt DEF Now, Arg, IInv, Running, GInv, TypeOK
<1>5. ASSUME NEW s, handler(s, NextRip)
      PROVE  \/ g'.mode = s.mode /\ g'.cr = s.cr /\ g'.efer = s.efer
             \/ ~Lands(s)
  <2>1. g' = s \/ g' = [s EXCEPT !.itpending = s.itpending \ {Lowest(s.itpending)}]
    BY <1>5 DEF handler, pending_interrupt
  <2> QED
    BY <2>1 DEF Lands, States
<1>6. CASE EmulateLjmp
  <2>1. handler(mov_to_selector(g, Arg, "CS"), NextRip)
    BY <1>6 DEF EmulateLjmp
  <2>2. Arg \in Nat /\ "CS" \in Selectors
    BY <1>3, <1>4, <1>6 DEF EmulateLjmp, Now, Instructions, Selectors
  <2> DEFINE n == mov_to_selector(g, Arg, "CS")
  <2>3. /\ Lands(n) /\ n.cr = g.cr /\ n.efer = g.efer
        /\ g.mode = 32 /\ n.mode = 64 => LongModeReady(g) /\ "PAE" \in g.cr[4]
    BY <1>4, <2>2, SelectorLands
  <2> HIDE DEF n
  <2>4. g'.mode = n.mode /\ g'.cr = n.cr /\ g'.efer = n.efer
    BY <1>5, <2>1, <2>3 DEF n
  <2> QED
    BY <2>3, <2>4 DEF LongModeReady
<1>7. CASE ~EmulateLjmp
  <2>1. \E s : handler(s, NextRip) /\ Lands(s) /\ s.mode = g.mode
    <3>1. Lands(g) /\ Lands(unsupported(g)) /\ unsupported(g).mode = g.mode
      BY <1>4, EndLands DEF Lands, unsupported, Sound, States
    <3>2. CASE EmulateRdmsr \/ EmulateSti \/ EmulateInvlpg \/ EmulateMovFromCr
      BY <3>1, <3>2 DEF EmulateRdmsr, EmulateSti, EmulateInvlpg, EmulateMovFromCr
    <3>3. CASE EmulateMovToMem \/ EmulateMovFromMem \/ EmulateOther
      BY <3>1, <3>3 DEF EmulateMovToMem, EmulateMovFromMem, EmulateOther
    <3>4. CASE EmulateOut
      BY <3>1, <3>4 DEF EmulateOut, out8
    <3>5. CASE EmulateLgdt
      <4>1. Arg \in [entries : {Gdt32, Gdt64}, extra : Nat]
        BY <1>3, <1>4, <3>5 DEF EmulateLgdt, Now, Instructions
      <4>2. PICK t \in {Gdt32, Gdt64}, x \in Nat : Arg = [entries |-> t, extra |-> x]
        BY <4>1
      <4>3. 0 \in 0 .. INTERRUPT_COUNT
        BY DEF INTERRUPT_COUNT
      <4> DEFINE n == lgdt(g, [entries |-> t, extra |-> x])
      <4>4. Lands(n) /\ n.mode = g.mode
        BY <1>4, <4>3, TablesLand
      <4>5. n = lgdt(g, Arg)
        BY <4>2
      <4>6. handler(n, NextRip)
        BY <3>5, <4>5 DEF EmulateLgdt
      <4> HIDE DEF n
      <4> QED
        BY <4>4, <4>6
    <3>6. CASE EmulateLidt
      <4>1. Arg \in [size : 0 .. INTERRUPT_COUNT, extra : Nat]
        BY <1>3, <1>4, <3>6 DEF EmulateLidt, Now, Instructions
      <4>2. PICK z \in 0 .. INTERRUPT_COUNT, x \in Nat : Arg = [size |-> z, extra |-> x]
        BY <4>1
      <4> DEFINE n == lidt(g, [size |-> z, extra |-> x])
      <4>3. Lands(n) /\ n.mode = g.mode
        BY <1>4, TablesLand
      <4>4. n = lidt(g, Arg)
        BY <4>2
      <4>5. handler(n, NextRip)
        BY <3>6, <4>4 DEF EmulateLidt
      <4> HIDE DEF n
      <4> QED
        BY <4>3, <4>5
    <3>7. CASE EmulateMovToSel
      <4>1. Arg \in [s : Selectors \ {"CS"}, index : Nat]
        BY <1>3, <1>4, <3>7 DEF EmulateMovToSel, Now, Instructions
      <4>2. Arg.s \in Selectors /\ Arg.s # "CS" /\ Arg.index \in Nat
        BY <4>1
      <4> QED
        BY <1>4, <3>7, <4>2, SelectorLands DEF EmulateMovToSel
    <3>8. CASE EmulateMovToCr
      <4>1. Arg \in Controls
        BY <1>3, <1>4, <3>8 DEF EmulateMovToCr, Now, Instructions
      <4> QED
        BY <1>4, <3>8, <4>1, ControlLands DEF EmulateMovToCr, Quiet
    <3>9. CASE EmulateWrmsr
      BY <1>4, <3>9, EferLands DEF EmulateWrmsr, Quiet
    <3> QED
      BY <1>1, <1>2, <1>7, <3>2, <3>3, <3>4, <3>5, <3>6, <3>7, <3>8, <3>9 DEF Trap
  <2> QED
    BY <1>5, <2>1
<1> QED
  BY <1>6, <1>7

(* state.c:94-207: a guest enters 64 bits only with PE, PG, PAE and LMA    *)
(* set, though a fault does not stop the call that raises it: before 64    *)
(* bits there is no IDT, so the fault goes to address 0.                   *)
THEOREM LongModeAlwaysEntered == Spec => LongModeEntered
<1>1. IInv /\ GInv /\ [Next]_vars
        => [g.mode = 32 /\ g'.mode = 64 =>
              {"PE", "PG"} \subseteq g'.cr[0] /\ "PAE" \in g'.cr[4] /\ "LMA" \in g'.efer]_vars
  BY EntryLegal
<1> QED
  BY <1>1, GuestInvariance, PTL DEF Spec, LongModeEntered

(* intercept.c:377-419: iretq goes back to the instruction after the one   *)
(* that raised a general protection fault, with the stack it had, since    *)
(* the guest drops the code that branch_interrupt pushed.                  *)
THEOREM InterruptsAlwaysReturn == Spec => InterruptsReturn
<1>1. IInv /\ GInv /\ [Next]_vars
        => [EmulateIretq => rip' = Head(resume).rip /\ Len(stack') = Head(resume).depth]_vars
  BY ReturnKeeps
<1> QED
  BY <1>1, GuestInvariance, PTL DEF Spec, InterruptsReturn
===============================================================================
