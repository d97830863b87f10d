----------------------------- MODULE KernelMemory -----------------------------
(***************************************************************************)
(* tp-1/rackdoll/kernel/memory.c as operators on the machine's memory: the *)
(* first-fit page pool, the four-level page tables and the functions that  *)
(* combine them (load_task, mmap, munmap).  A handler makes several of     *)
(* these calls in one step, so each returns the new memory instead of      *)
(* being an action.                                                        *)
(*                                                                         *)
(* A memory m is a record: bits, the set of pool pages whose bit is set;   *)
(* ram, the words of every physical page; alive, FALSE once die() or an    *)
(* access outside the machine's pages stopped the kernel.                  *)
(*                                                                         *)
(* Pages are numbers, page 0 is physical address 0 (what alloc_page        *)
(* returns when the pool is empty).  A word is an integer as the MMU reads *)
(* it: bit 0 is P, bit 1 W, bit 2 U and the rest the page number, in pages *)
(* of PAGE_SIZE bytes.  A virtual page is its four indexes, level 4 first. *)
(***************************************************************************)
EXTENDS Integers, Sequences

CONSTANTS
  PHYSICAL_POOL_PAGES,  (* pages of the pool, 64 in the code               *)
  FirstPool,            (* physical page where the pool starts             *)
  LastPage,             (* physical pages of the machine: 0 .. LastPage    *)
  LastIndex             (* a table has the entries 0 .. LastIndex (511)    *)

ASSUME KernelMemoryAssumption ==
  /\ PHYSICAL_POOL_PAGES \in Nat \ {0}
  /\ FirstPool \in Nat \ {0}
  /\ LastPage \in Nat /\ FirstPool + PHYSICAL_POOL_PAGES - 1 <= LastPage
  /\ LastIndex \in Nat \ {0}

PAGE_SIZE == 8                (* 0x1000 in the code: a page's three flags *)
Pages == 0 .. LastPage
Pool == FirstPool .. FirstPool + PHYSICAL_POOL_PAGES - 1
Indexes == 0 .. LastIndex
NoPage == -1

Memory == [bits : SUBSET Pool, ram : [Pages -> [Indexes -> Nat]], alive : BOOLEAN]

ZeroContent == [i \in Indexes |-> 0]
Filled(val) == [i \in Indexes |-> val]
-------------------------------------------------------------------------------
Present(w) == w % 2 = 1
UserAllowed(w) == (w \div 4) % 2 = 1
PageOf(w) == w \div PAGE_SIZE                  (* w & ADDR_MASK *)
UserPte(page) == page * PAGE_SIZE + 7          (* page | U | W | P *)
KernelPte(page) == page * PAGE_SIZE + 3        (* page | W | P, no U *)
Index(v, lvl) == v[5 - lvl]

Word(m, page, i) == m.ram[page][i]
Put(m, page, i, w) ==
  IF page \in Pages THEN [m EXCEPT !.ram[page][i] = w] ELSE [m EXCEPT !.alive = FALSE]
Zero(m, page) ==
  IF page \in Pages THEN [m EXCEPT !.ram[page] = ZeroContent]
                    ELSE [m EXCEPT !.alive = FALSE]
-------------------------------------------------------------------------------
(* alloc_page: the first page whose bit is clear, not cleared; page 0 and  *)
(* a message when there is none.                                           *)
Free(m) == Pool \ m.bits
FirstFree(m) == CHOOSE p \in Free(m) : \A q \in Free(m) : p <= q

AllocPage(m) ==
  IF Free(m) = {}
    THEN [mem |-> m, page |-> 0]
    ELSE [mem |-> [m EXCEPT !.bits = @ \cup {FirstFree(m)}], page |-> FirstFree(m)]

\* Mutant of FreePage: the pool is taken to start one page earlier.
FreeShifted(m, page) ==
  IF page + 1 \in m.bits THEN [m EXCEPT !.bits = @ \ {page + 1}]
                         ELSE [m EXCEPT !.alive = FALSE]

(* free_page: a page whose bit is clear stops the kernel. *)
FreePage(m, page) ==
  IF page \in m.bits THEN [m EXCEPT !.bits = @ \ {page}] ELSE [m EXCEPT !.alive = FALSE]

\* Mutant of Descend: a new table at every level, whatever the P bit.
DescendAlways(s, v, lvl) ==
  LET new == AllocPage(s.mem)
  IN [mem |-> Put(new.mem, s.page, Index(v, lvl), UserPte(new.page)), page |-> new.page]

(* One level of map_page's walk: s is the memory and the table reached.  A *)
(* table that is missing is allocated, linked and used as it comes.        *)
Descend(s, v, lvl) ==
  LET i == Index(v, lvl)
      entry == Word(s.mem, s.page, i)
      new == AllocPage(s.mem)
  IN IF Present(entry)
       THEN [mem |-> s.mem, page |-> PageOf(entry)]
       ELSE [mem |-> Put(new.mem, s.page, i, UserPte(new.page)), page |-> new.page]

(* map_page: when the last entry is not present, the page its stale        *)
(* content points to is zeroed (page 0 for an entry that was never used).  *)
MapPage(m, pgt, v, page) ==
  LET s == Descend(Descend(Descend([mem |-> m, page |-> pgt], v, 4), v, 3), v, 2)
      entry == Word(s.mem, s.page, Index(v, 1))
      zeroed == IF Present(entry) THEN s.mem ELSE Zero(s.mem, PageOf(entry))
  IN Put(zeroed, s.page, Index(v, 1), UserPte(page))

(* The variable *cadre of load_task and mmap is never given a place; the   *)
(* build of the Makefile keeps it in the first word of physical page 0.    *)
Keep(m, page) == Put(m, 0, 0, page * PAGE_SIZE)

\* Mutant of Mmap: the page is mapped as it comes.
MmapDirty(m, pgt, v) ==
  LET a == AllocPage(m)
  IN MapPage(Keep(a.mem, a.page), pgt, v, a.page)

\* Mutant of Mmap: *cadre lies in the last page of the pool.
MmapInPool(m, pgt, v) ==
  LET a == AllocPage(m)
      kept == Put(a.mem, FirstPool + PHYSICAL_POOL_PAGES - 1, 0, a.page * PAGE_SIZE)
  IN MapPage(Zero(kept, a.page), pgt, v, a.page)

(* mmap: the page is zeroed, then mapped. *)
Mmap(m, pgt, v) ==
  LET a == AllocPage(m)
  IN MapPage(Zero(Keep(a.mem, a.page), a.page), pgt, v, a.page)

(* The entries of the four levels for v, followed whatever their P bits.   *)
Entry4(m, pgt, v) == Word(m, pgt, Index(v, 4))
Entry3(m, pgt, v) == Word(m, PageOf(Entry4(m, pgt, v)), Index(v, 3))
Entry2(m, pgt, v) == Word(m, PageOf(Entry3(m, pgt, v)), Index(v, 2))
Entry1(m, pgt, v) == Word(m, PageOf(Entry2(m, pgt, v)), Index(v, 1))

(* munmap, for a page of the user's addresses: the frame is freed and the  *)
(* entry stays as it is (invlpg is the caller's step).                     *)
Munmap(m, pgt, v) ==
  FreePage(m, PageOf(Entry1(m, pgt, v)))
-------------------------------------------------------------------------------
(* load_task: an image is [page, payload, bss]: its first physical page    *)
(* and the lengths in pages of its payload and of its bss, which follow    *)
(* each other from the virtual page Text(0) on.                            *)
Text(k) == <<0, 2, 0, k>>

\* Mutant of MapPayload: one page too far.
PayloadShifted(m, pgt, image) ==
  LET mapped[k \in 0 .. image.payload] ==
        IF k = 0 THEN m ELSE MapPage(mapped[k - 1], pgt, Text(k - 1), image.page + k)
  IN mapped[image.payload]

MapPayload(m, pgt, image) ==
  LET mapped[k \in 0 .. image.payload] ==
        IF k = 0 THEN m
        ELSE MapPage(mapped[k - 1], pgt, Text(k - 1), image.page + k - 1)
  IN mapped[image.payload]

(* The bss loop maps page k of the bss on the frame k pages after the one  *)
(* it allocated, and clears none.                                          *)
MapBss(m, pgt, image) ==
  LET mapped[k \in 0 .. image.bss] ==
        IF k = 0 THEN m
        ELSE LET a == AllocPage(mapped[k - 1])
             IN MapPage(Keep(a.mem, a.page), pgt, Text(image.payload + k - 1),
                        a.page + k - 1)
  IN mapped[image.bss]

ApicPage == LastPage + 1        (* 0xfee00000, outside the RAM *)

(* The four first tables, the kernel's huge page and the APIC page. *)
KernelTables(m) ==
  LET pml4 == AllocPage(m)
      pml3 == AllocPage(pml4.mem)
      pml2 == AllocPage(pml3.mem)
      pml1 == AllocPage(pml2.mem)
      m1 == Put(pml1.mem, pml4.page, 0, UserPte(pml3.page))
      m2 == Put(m1, pml3.page, 0, UserPte(pml2.page))
      m3 == Put(m2, pml2.page, 0, KernelPte(0))
      m4 == Put(m3, pml2.page, 1, KernelPte(pml1.page))
  IN [mem |-> Put(m4, pml1.page, 0, KernelPte(ApicPage)), page |-> pml4.page]

LoadTask(m, image) ==
  LET k == KernelTables(m)
  IN [mem |-> MapBss(MapPayload(k.mem, k.page, image), k.page, image),
      page |-> k.page]
-------------------------------------------------------------------------------
(* What the MMU finds for a user access to v: every level present and      *)
(* allowed to the user, or NoPage.                                         *)
Translate(m, pgt, v) ==
  LET path == {Entry4(m, pgt, v), Entry3(m, pgt, v),
               Entry2(m, pgt, v), Entry1(m, pgt, v)}
  IN IF \A w \in path : Present(w) /\ UserAllowed(w)
       THEN PageOf(Entry1(m, pgt, v)) ELSE NoPage
===============================================================================
