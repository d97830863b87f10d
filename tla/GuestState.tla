------------------------------ MODULE GuestState ------------------------------
(***************************************************************************)
(* tp-3/janus/monitor/state.c: the virtual processor, as operators on a    *)
(* state g.  A handler of the monitor makes several of these calls in one  *)
(* step, so each returns the new state instead of being an action.         *)
(*                                                                         *)
(* A control register and EFER are sets of flags (CR3 the set of the one   *)
(* table it points to), a selector is the index of its descriptor, a       *)
(* descriptor "absent" (P clear), "flat" (P) or "long" (P and L).  The     *)
(* mode of 16 bits is never entered.  The field end says how a call ended  *)
(* the monitor: "no", "failure" for exit, "crash" for a null pointer.      *)
(***************************************************************************)
EXTENDS Integers, Sequences

GP == 13
INTERRUPT_COUNT == 256
Selectors == {"CS", "DS", "ES", "FS", "GS", "SS"}
Controls == {0, 3, 4}
Flags == {"PE", "ET", "PG", "PAE", "PGE", "LME", "LMA", "NE", "pml4"}

(* The tables of guest/entry.S. *)
Gdt32 == <<"absent", "flat", "flat">>
Gdt64 == <<"absent", "long", "flat", "flat", "long", "flat", "absent">>

(* An entry of the table; the eight bytes after either table have a clear  *)
(* P bit.                                                                  *)
Descriptor(g, index) == IF index < Len(g.gdt) THEN g.gdt[index + 1] ELSE "absent"

States == [mode : {32, 64}, cr : [Controls -> SUBSET Flags], efer : SUBSET Flags,
           gdt : {<<>>, Gdt32, Gdt64}, idt_size : 0 .. INTERRUPT_COUNT,
           selectors : [Selectors -> Nat], itpending : SUBSET (0 .. INTERRUPT_COUNT - 1),
           end : {"no", "failure", "crash"}]

setup_state ==
  [mode |-> 32, cr |-> [c \in Controls |-> IF c = 0 THEN {"PE", "ET"} ELSE {}],
   efer |-> {}, gdt |-> <<>>, idt_size |-> 0, selectors |-> [s \in Selectors |-> 0],
   itpending |-> {}, end |-> "no"]
-------------------------------------------------------------------------------
unsupported(g) == [g EXCEPT !.end = "failure"]
trigger_interrupt(g, vec) == [g EXCEPT !.itpending = @ \cup {vec}]

(* A fault does not end the call that raises it. *)
GpIf(g, faults) == IF faults THEN trigger_interrupt(g, GP) ELSE g

(* A descriptor table register: its entries, and how many bytes the limit  *)
(* is off a whole number of them.                                          *)
lgdt(g, gdtr) == [GpIf(g, gdtr.extra # 0) EXCEPT !.gdt = gdtr.entries]

\* Mutant of lidt: an entry of the IDT is taken to be 8 bytes.
lidt_eight(g, idtr) == [g EXCEPT !.idt_size = 2 * idtr.size]

lidt(g, idtr) ==
  IF g.mode = 64
    THEN [GpIf(g, idtr.extra # 0) EXCEPT !.idt_size = idtr.size]
    ELSE unsupported(g)

LongModeReady(g) == {"PE", "PG"} \subseteq g.cr[0] /\ "LMA" \in g.efer

\* Mutant of mov_to_selector: CS does not change the mode.
mov_to_selector_no_mode(g, index, s) ==
  IF g.gdt = <<>> THEN [g EXCEPT !.end = "crash"] ELSE [g EXCEPT !.selectors[s] = index]

(* The null table is read before any lgdt. *)
mov_to_selector(g, index, s) ==
  LET faulted == GpIf(g, index > Len(g.gdt) \/ Descriptor(g, index) = "absent")
  IN IF g.gdt = <<>> THEN [g EXCEPT !.end = "crash"]
     ELSE IF s = "CS" /\ g.mode = 64 /\ Descriptor(g, index) # "long"
       THEN unsupported(g)
     ELSE [faulted EXCEPT !.selectors[s] = index,
                          !.mode = IF s = "CS" /\ LongModeReady(g) THEN 64 ELSE @]

\* Mutant of mov_to_cr0: long mode is activated without PAE.
mov_to_cr0_no_pae(g, val) ==
  [g EXCEPT !.cr[0] = val \cup {"ET"},
            !.efer = IF "PG" \in val \ g.cr[0] /\ "LME" \in g.efer
                       THEN @ \cup {"LMA"} ELSE @]

(* PG activates long mode when LME is set, PAE or not; set_page_table, a   *)
(* stub, reads CR3.                                                        *)
mov_to_cr0(g, val) ==
  LET paging == "PG" \in val \ g.cr[0]
      long == paging /\ "LME" \in g.efer
  IN IF "PE" \in g.cr[0] \ val THEN [g EXCEPT !.end = "failure"]
     ELSE [GpIf(g, long /\ "PAE" \notin g.cr[4])
             EXCEPT !.efer = IF long THEN @ \cup {"LMA"} ELSE @,
                    !.cr[0] = val \cup {"ET"}]

mov_to_cr4(g, val) ==
  [GpIf(g, "PAE" \in g.cr[4] \ val /\ "LMA" \in g.efer) EXCEPT !.cr[4] = val]

mov_to_control(g, val, c) ==
  CASE c = 0 -> mov_to_cr0(g, val)
    [] c = 4 -> mov_to_cr4(g, val)
    [] OTHER -> [g EXCEPT !.cr[c] = val]

mov_from_control(g, c) == g.cr[c]
rdmsr(g) == g.efer

wrmsr(g, val) ==
  LET turned == (val \ g.efer) \cup (g.efer \ val)
  IN [GpIf(g, "LMA" \in val \ g.efer \/ ("LME" \in turned /\ "PG" \in g.cr[0]))
        EXCEPT !.efer = val]

(* The VGA cursor and the PICs are ignored, any other port ends it. *)
is_ignorable(port) == port \in {"vga", "pic"}
out8(g, port) == IF is_ignorable(port) THEN g ELSE unsupported(g)
-------------------------------------------------------------------------------
(* The pending interrupt of the lowest vector, taken from the set. *)
Lowest(vecs) == CHOOSE v \in vecs : \A w \in vecs : v <= w

\* Mutant of pending_interrupt: it is not cleared.
pending_kept(g) == [vec |-> Lowest(g.itpending), g |-> g]

pending_interrupt(g) ==
  [vec |-> Lowest(g.itpending), g |-> [g EXCEPT !.itpending = @ \ {Lowest(@)}]]
===============================================================================
