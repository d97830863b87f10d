---------------------------- MODULE RackdollProps ----------------------------
(***************************************************************************)
(* What the kernel of Rackdoll must keep true of frames, tables, cached    *)
(* translations and address spaces.                                        *)
(***************************************************************************)
EXTENDS Rackdoll, FiniteSets

Built == {s \in Ranks : root[s] # 0}

(* The frame a task of space s reaches at v, as the processor would: the   *)
(* cached translation comes first.                                         *)
View(s, v) ==
  IF s \notin Built \/ (s = cr3 /\ v = pending) THEN NoPage
  ELSE IF s = cr3 /\ v \in DOMAIN tlb THEN tlb[v]
  ELSE Translate(mem, root[s], v)

(* The pages of level lvl - 1 the tables ts of level lvl lead to. *)
Entries(ts) == {e \in ts \X Indexes : Present(Word(mem, e[1], e[2]))}
Target(e) == PageOf(Word(mem, e[1], e[2]))
Below(ts) == {Target(e) : e \in Entries(ts)} \cap Pool

(* Who refers to a pool page: an entry of a table, or a task's pgt. *)
References ==
  LET l4 == {root[s] : s \in Built}
      l3 == Below(l4)
      l2 == Below(l3)
      l1 == Below(l2)
  IN Entries(l4 \cup l3 \cup l2 \cup l1) \cup {<<NoPage, root[s]>> : s \in Built}
Held(e) == IF e[1] = NoPage THEN e[2] ELSE Target(e)

(* The page whose last mapping is about to be replaced. *)
PendingPage == IF pending = None THEN NoPage ELSE Translate(mem, Pgt, pending)

(* Invariant: a frame of the pool is marked allocated exactly when one     *)
(* page table entry, or one task's pgt, refers to it, and never two: no    *)
(* frame is at once a table and a page, shared by two tasks, or lost.      *)
OneOwnerPerFrame ==
  LET held == [e \in References |-> Held(e)]
      holders(p) == Cardinality({e \in DOMAIN held : held[e] = p})
  IN \A p \in Pool \ {PendingPage} : holders(p) = IF p \in mem.bits THEN 1 ELSE 0

(* Invariant: alloc_page promises nothing of a page's content and map_page *)
(* uses it as a table as it is (memory.c:19-20, 119-124); this is sound    *)
(* because every free page is all zeros whenever a table may be needed.    *)
FreeFramesClean ==
  pending = None => \A p \in Free(mem) : mem.ram[p] = ZeroContent

(* Invariant: a translation in the TLB is the one of the page table in     *)
(* use; switches flush, munmap invalidates, and no other handler changes   *)
(* an entry that may be cached.                                            *)
TlbCoherent ==
  Running => \A v \in DOMAIN tlb : tlb[v] = Translate(mem, Pgt, v)

(* Invariant: no legal sequence of calls makes munmap free a page twice    *)
(* and stop the kernel.                                                    *)
KernelStaysUp == mem.alive

(* Refinement: every task has a private memory: a page just mapped (by     *)
(* mmap, a stack fault, or as bss) holds zeros, a write reaches one page   *)
(* of the writer's own space, a read returns the last write, and nothing   *)
(* else ever changes a page, whatever tasks ran or ended in between.       *)
FreshContent(s, v) ==
  CASE s \notin Ranks -> None
    [] s \in Ranks /\ v \in Payload(s) -> PayloadContent
    [] s \in Ranks /\ v \in Bss(s) -> ZeroContent
    [] OTHER -> None

Private == INSTANCE AddressSpaces WITH
  Spaces <- 0 .. Len(Modules),
  Contents <- {Filled(val) : val \in Values},
  Zeros <- ZeroContent,
  Unmapped <- None,
  Fresh <- FreshContent,
  view <- [s \in 0 .. Len(Modules) |-> [v \in VPages |->
             IF View(s, v) = NoPage THEN None ELSE mem.ram[View(s, v)]]],
  active <- cr3

PrivateMemory == Private!SpacesSpec

(* "permet de supprimer le mapping d'une adresse virtuelle donnée pour une *)
(* tâche donnée" (memory.c:232-233): after munmap the page is not mapped.  *)
MunmapRemovesMapping ==
  [][\A v \in VPages : SysMunmap(v) => Translate(mem', Pgt, v) = NoPage]_vars

(* "Toute faute à une adresse en dehors de la pile doit causer une faute   *)
(* de segmentation de la tâche courante" (memory.c:284-285): a fault off   *)
(* the stack takes the task out of the fifo.                               *)
OnlyStackFaultsServed ==
  [][\A v \in Strays : Fault(v) => fifo_size' = fifo_size - 1]_vars

(* "map une nouvelle page physique sur le debut du bss" (memory.c:187):    *)
(* each page of a bss is mapped on a frame allocated for it.               *)
BssFramesAllocated ==
  \A s \in Built : \A v \in Bss(s) : Translate(mem, root[s], v) \in mem.bits
===============================================================================
