----------------------------- MODULE GuestPaging -----------------------------
(***************************************************************************)
(* The guest of tp-3/janus, memory.c and main.c: one program, in kernel    *)
(* mode, on the page tables entry.S built, that maps, unmaps and touches   *)
(* pages.  The machine is the one of KernelMemory; alloc_page, free_page   *)
(* and the walk that adds tables are those of rackdoll, whose memory.c     *)
(* this one started from.                                                  *)
(*                                                                         *)
(* The processor caches translations and may drop one at any time.  The    *)
(* operand of invlpg (x86.h) is the C variable that holds the address, so  *)
(* the page invalidated is one of the stack.                               *)
(***************************************************************************)
EXTENDS KernelMemory

VARIABLES
  mem,       (* the machine's memory                                       *)
  tlb,       (* tlb[v]: the cached page of v, or NoPage                    *)
  pc,        (* position in do_stuff                                       *)
  pa,        (* the C variables pa0 and pa1                                *)
  printed    (* printed[k]: what the read at position k returned           *)

vars == <<mem, tlb, pc, pa, printed>>
-------------------------------------------------------------------------------
(* entry.S: three tables outside the pool; the first entry of pml2 is the  *)
(* huge page of the kernel.                                                *)
Pml4 == 1
Pml3 == 2
Pml2 == 3

(* The pool is above the tables of entry.S; its pages and the entries of a *)
(* table are enough for main.c, which never meets the end of the pool.     *)
ASSUME GuestPagingAssumption ==
  FirstPool > Pml2 /\ PHYSICAL_POOL_PAGES >= 5 /\ LastIndex >= 4

BootMemory ==
  [bits |-> {}, alive |-> TRUE,
   ram |-> [p \in Pages |->
     CASE p = Pml4 -> [ZeroContent EXCEPT ![0] = UserPte(Pml3)]
       [] p = Pml3 -> [ZeroContent EXCEPT ![0] = UserPte(Pml2)]
       [] p = Pml2 -> [ZeroContent EXCEPT ![0] = KernelPte(0)]
       [] OTHER -> ZeroContent]]

(* The addresses of main.c; 4 GiB is entry 4 of pml3. *)
LOW_0 == <<0, 0, 1, 0>>
LOW_1 == <<0, 0, 1, 1>>
HIGH_0 == <<0, 4, 0, 0>>
HIGH_1 == <<0, 4, 0, 1>>
VPages == {LOW_0, LOW_1, HIGH_0, HIGH_1}

Automatic(v) == v[1] < 224 /\ (v[1] > 0 \/ v[2] >= 4)
-------------------------------------------------------------------------------
\* Mutant of alloc_page: the bit set is the one of the page before.
alloc_shifted(m) ==
  [mem |-> [m EXCEPT !.bits = @ \cup {FirstFree(m) - 1}], page |-> FirstFree(m)]

\* Mutant of alloc_page: the bit is tested and never set.
alloc_unmarked(m) == [mem |-> m, page |-> FirstFree(m)]

alloc_page(m) == AllocPage(m)
free_page(m, page) == FreePage(m, page)

(* A present entry is replaced; nothing is invalidated. *)
map_page(m, v, page) ==
  LET s == Descend(Descend(Descend([mem |-> m, page |-> Pml4], v, 4), v, 3), v, 2)
  IN Put(s.mem, s.page, Index(v, 1), UserPte(page))

Mapped(m, v) ==
  /\ Present(Entry4(m, Pml4, v))
  /\ Present(Entry3(m, Pml4, v))
  /\ Present(Entry2(m, Pml4, v))
  /\ Present(Entry1(m, Pml4, v))

(* The page that was mapped, 0 when there was none. *)
unmap_page(m, v) ==
  IF Mapped(m, v)
    THEN [mem |-> Put(m, PageOf(Entry2(m, Pml4, v)), Index(v, 1), 0),
          page |-> PageOf(Entry1(m, Pml4, v))]
    ELSE [mem |-> m, page |-> 0]

(* invlpg(vaddr): "m" (vaddr) is the address of the variable. *)
Invalidate(cache, v) == cache

\* Mutant of mmap: the page is not cleared.
mmap_dirty(m, v) == LET a == alloc_page(m) IN map_page(a.mem, v, a.page)

mmap(m, v) ==
  LET a == alloc_page(m) IN map_page(Zero(a.mem, a.page), v, a.page)

\* Mutant of munmap: the frame is not freed.
munmap_leaks(m, v) == unmap_page(m, v).mem

munmap(m, v) ==
  LET u == unmap_page(m, v)
  IN IF u.page = 0 THEN u.mem ELSE free_page(u.mem, u.page)

\* Mutant of pgfault: the low addresses are the automatic ones.
pgfault_low(m, v) ==
  IF ~Automatic(v) THEN mmap(m, v) ELSE [m EXCEPT !.alive = FALSE]

(* An address that is not mapped automatically is a segfault and die(). *)
pgfault(m, v) ==
  IF Automatic(v) THEN mmap(m, v) ELSE [m EXCEPT !.alive = FALSE]
-------------------------------------------------------------------------------
(* main.c.  The bytes 0, 1, 2, ... as a word: its P bit is clear, as in    *)
(* every 8 bytes of that filling.  A read carries what the mappings of its *)
(* moment say it returns: [op, page, arg].                                 *)
Pattern == 256
Do(op, v, arg) == [op |-> op, v |-> v, arg |-> arg]

do_mmap_munmap == <<
  Do("mmap", LOW_0, 0), Do("fill", LOW_0, Pattern), Do("read", LOW_0, Pattern),
  Do("munmap", LOW_0, 0), Do("mmap", LOW_0, 0), Do("read", LOW_0, 0),
  Do("munmap", LOW_0, 0)>>

do_double_map == <<
  Do("alloc", LOW_0, 0), Do("map", LOW_0, 0), Do("map", LOW_1, 0),
  Do("write", LOW_0, 42), Do("read", LOW_0, 42), Do("read", LOW_1, 42),
  Do("write", LOW_1, 18), Do("read", LOW_1, 18), Do("read", LOW_0, 18),
  Do("unmap", LOW_0, 0), Do("unmap", LOW_1, 0), Do("free", LOW_0, 0)>>

do_zero_copy == <<
  Do("alloc", LOW_0, 0), Do("alloc", LOW_1, 1), Do("map", LOW_0, 0),
  Do("fill", LOW_0, Pattern), Do("map", LOW_1, 1), Do("read", LOW_1, 0),
  Do("unmap", LOW_0, 0), Do("unmap", LOW_1, 0),
  Do("map", LOW_0, 1), Do("map", LOW_1, 0), Do("read", LOW_1, Pattern),
  Do("munmap", LOW_0, 0), Do("munmap", LOW_1, 0)>>

do_lazy_alloc == <<
  Do("read", HIGH_0, 0), Do("write", HIGH_1, 23), Do("read", HIGH_1, 23),
  Do("munmap", HIGH_1, 0), Do("read", HIGH_1, 0)>>

do_stuff == do_mmap_munmap \o do_double_map \o do_zero_copy \o do_lazy_alloc

Running == mem.alive /\ pc <= Len(do_stuff)
Now(op) == Running /\ do_stuff[pc].op = op
Page == do_stuff[pc].v
Arg == do_stuff[pc].arg
Done == pc' = pc + 1

Init ==
  /\ mem = BootMemory
  /\ tlb = [v \in VPages |-> NoPage]
  /\ pc = 1
  /\ pa = [i \in 0 .. 1 |-> 0]
  /\ printed = [k \in {} |-> 0]
-------------------------------------------------------------------------------
(* Calls of memory.c. *)
CallMmap == Now("mmap") /\ mem' = mmap(mem, Page) /\ Done /\ UNCHANGED <<tlb, pa, printed>>

CallMunmap ==
  /\ Now("munmap")
  /\ mem' = munmap(mem, Page)
  /\ tlb' = Invalidate(tlb, Page)
  /\ Done /\ UNCHANGED <<pa, printed>>

CallAlloc ==
  /\ Now("alloc")
  /\ mem' = alloc_page(mem).mem
  /\ pa' = [pa EXCEPT ![Arg] = alloc_page(mem).page]
  /\ Done /\ UNCHANGED <<tlb, printed>>

CallMap ==
  /\ Now("map")
  /\ mem' = map_page(mem, Page, pa[Arg])
  /\ Done /\ UNCHANGED <<tlb, pa, printed>>

CallUnmap ==
  /\ Now("unmap")
  /\ mem' = unmap_page(mem, Page).mem
  /\ tlb' = Invalidate(tlb, Page)
  /\ Done /\ UNCHANGED <<pa, printed>>

CallFree ==
  /\ Now("free")
  /\ mem' = free_page(mem, pa[Arg])
  /\ Done /\ UNCHANGED <<tlb, pa, printed>>

(* Touching a page: the cached translation first, the tables next; without *)
(* either, pgfault runs and the access is tried again.                     *)
Reached(v) ==
  IF tlb[v] # NoPage THEN tlb[v]
  ELSE IF Mapped(mem, v) THEN PageOf(Entry1(mem, Pml4, v)) ELSE NoPage

WithByte(word, byte) == (word - (word % 256)) + byte

Touching == Running /\ do_stuff[pc].op \in {"read", "write", "fill"}

PageFault ==
  /\ Touching /\ Reached(Page) = NoPage
  /\ mem' = pgfault(mem, Page)
  /\ UNCHANGED <<tlb, pc, pa, printed>>

Read ==
  /\ Now("read") /\ Reached(Page) # NoPage
  /\ printed' = [k \in DOMAIN printed \cup {pc} |->
                   IF k = pc THEN Word(mem, Reached(Page), 0) ELSE printed[k]]
  /\ tlb' = [tlb EXCEPT ![Page] = Reached(Page)]
  /\ Done /\ UNCHANGED <<mem, pa>>

Write ==
  /\ Now("write") /\ Reached(Page) # NoPage
  /\ mem' = Put(mem, Reached(Page), 0, WithByte(Word(mem, Reached(Page), 0), Arg))
  /\ tlb' = [tlb EXCEPT ![Page] = Reached(Page)]
  /\ Done /\ UNCHANGED <<pa, printed>>

Fill ==
  /\ Now("fill") /\ Reached(Page) # NoPage
  /\ mem' = [mem EXCEPT !.ram[Reached(Page)] = Filled(Arg)]
  /\ tlb' = [tlb EXCEPT ![Page] = Reached(Page)]
  /\ Done /\ UNCHANGED <<pa, printed>>

(* The processor forgets a translation. *)
Evict ==
  /\ Running
  /\ \E v \in VPages : tlb[v] # NoPage /\ tlb' = [tlb EXCEPT ![v] = NoPage]
  /\ UNCHANGED <<mem, pc, pa, printed>>

(* die(), after the last scenario or a fatal call. *)
Dead == ~Running /\ UNCHANGED vars

Step == \/ CallMmap \/ CallMunmap \/ CallAlloc \/ CallMap \/ CallUnmap \/ CallFree
        \/ PageFault \/ Read \/ Write \/ Fill
Next == Step \/ Evict \/ Dead

Fairness == WF_vars(Step)
Spec == Init /\ [][Next]_vars /\ Fairness
-------------------------------------------------------------------------------
(* The memory, the position and what was printed have their types. *)
TypeOK ==
  /\ mem \in Memory
  /\ tlb \in [VPages -> Pages \cup {NoPage}]
  /\ pc \in 1 .. Len(do_stuff) + 1
  /\ pa \in [0 .. 1 -> Pages]
  /\ printed \in [{k \in 1 .. pc - 1 : do_stuff[k].op = "read"} -> Nat]

(* The table of each level on the way to v, level 4 first, as far as the   *)
(* tables are present.                                                     *)
TablePath(v) ==
  LET t3 == PageOf(Entry4(mem, Pml4, v))
      t2 == PageOf(Entry3(mem, Pml4, v))
      t1 == PageOf(Entry2(mem, Pml4, v))
  IN IF ~Present(Entry4(mem, Pml4, v)) THEN <<Pml4>>
     ELSE IF ~Present(Entry3(mem, Pml4, v)) THEN <<Pml4, t3>>
     ELSE IF ~Present(Entry2(mem, Pml4, v)) THEN <<Pml4, t3, t2>>
     ELSE <<Pml4, t3, t2, t1>>

TablePages == UNION {{TablePath(v)[k] : k \in DOMAIN TablePath(v)} : v \in VPages}
MappedPages == {v \in VPages : Mapped(mem, v)}
MappedFrames == {PageOf(Entry1(mem, Pml4, v)) : v \in MappedPages}

(* No frame a program can write is a page table, and two addresses share a *)
(* table only when their indexes lead them there: a page of the pool has   *)
(* one role, however frames are freed, remapped and taken again.           *)
TablesSeparate ==
  /\ TablePages \cap MappedFrames = {}
  /\ \A v, w \in VPages : \A k \in DOMAIN TablePath(v) \cap DOMAIN TablePath(w) :
       TablePath(v)[k] = TablePath(w)[k] <=> \A i \in 1 .. k - 1 : v[i] = w[i]

(* The bit set of the pool and the page tables tell the same story: what   *)
(* is mapped or serves as a table is allocated, and what is allocated is   *)
(* mapped, a table, or held in pa0 or pa1 by a scenario; when the scenarios *)
(* are over only the tables and the two automatic pages are left, no frame *)
(* leaked on the way.                                                      *)
PoolAccounted ==
  /\ (TablePages \cap Pool) \cup MappedFrames \subseteq mem.bits
  /\ mem.bits \subseteq TablePages \cup MappedFrames \cup {pa[0], pa[1]}
  /\ pc > Len(do_stuff) => mem.bits = (TablePages \cap Pool) \cup MappedFrames

(* No legal sequence of calls ends in the die() of free_page or pgfault.   *)
KernelStaysUp == mem.alive

PrintsExpected(ks) == \A k \in ks \cap DOMAIN printed : printed[k] = do_stuff[k].arg

(* Whatever translations are cached: a page mapped again is read as zeros, *)
(* two addresses of one frame see each other's writes (do_double_map), and *)
(* a page mapped by a fault holds zeros, then what was written.  The reads *)
(* left out are the ones after an unmap that gave the address another      *)
(* frame.                                                                  *)
FreshAndShared == PrintsExpected(DOMAIN do_stuff \ {25, 30, 37})

(* An address never reads a frame that is no longer mapped there: every    *)
(* line do_zero_copy and do_lazy_alloc print follows the page tables.      *)
PrintsFollowTables == PrintsExpected(DOMAIN do_stuff)

(* The guest reaches "Goodbye!": no access faults for ever. *)
SaysGoodbye == <>(pc > Len(do_stuff))
===============================================================================
