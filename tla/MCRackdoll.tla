------------------------------ MODULE MCRackdoll ------------------------------
(* Instances of Rackdoll for TLC: a machine of a few pages and tables of   *)
(* three entries.                                                          *)
EXTENDS RackdollProps

MCModules == <<BOOLEAN, BOOLEAN>>
MCOneModule == <<{TRUE}>>

(* The first task has one page of bss, as every task of task/ would if its *)
(* bss fitted a page; the second one has none, as hash and sieve.          *)
MCImages == <<[page |-> 22, payload |-> 1, bss |-> 1],
              [page |-> 23, payload |-> 1, bss |-> 0]>>
MCOneImage == <<[page |-> 22, payload |-> 1, bss |-> 1]>>
(* adversary and mylittlefork: one page of payload, two of bss. *)
MCAdversary == <<[page |-> 22, payload |-> 1, bss |-> 2]>>

StackTop == <<0, 1, 2, 2>>
StackBelow == <<0, 1, 1, 2>>
HeapPage == <<0, 2, 0, 2>>
NullPage == <<0, 0, 0, 0>>

MCStack == {StackTop, StackBelow}
MCStackTop == {StackTop}

(* Only the first program uses the heap. *)
MCHeap == <<{HeapPage}, {}>>
MCHeapOfOne == <<{HeapPage}>>
MCHeapAfterBss == <<{<<0, 2, 1, 2>>}>>

MCNull == {NullPage}
MCHeapStray == {HeapPage}
===============================================================================
