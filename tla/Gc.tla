---------------------------------- MODULE Gc ----------------------------------
(***************************************************************************)
(* TP_GC_NMV: the mutator threads on the allocator (GcHeap) and the list   *)
(* of threads (ThreadList).  allocate_internal changes the heap under its  *)
(* mutex, in one step; the statistics and the header are written after the *)
(* unlock, and threads interleave there.                                   *)
(*                                                                         *)
(* The collector is left to be written in the source: what it will do with *)
(* this interface, pre_free of an object nobody uses any more, is taken to *)
(* happen while no thread is inside the mutex, which pre_free needs since  *)
(* it takes no lock.                                                       *)
(***************************************************************************)
EXTENDS GcHeap, ThreadList

CONSTANTS
  MaxAllocated,   (* bound on the calls of pre_malloc                      *)
  MaxFree         (* bound on the calls of pre_free                        *)

ASSUME GcAssumption == MaxAllocated \in Nat /\ MaxFree \in Nat

VARIABLES
  heap,          (* the state of alloc.c                                   *)
  list,          (* all_threads                                            *)
  pc,            (* where each thread is                                   *)
  req, res,      (* its size and res in allocate_internal                  *)
  loaded,        (* the value of nb_allocated it read                      *)
  nb_allocated, nb_free,
  live,          (* objects returned and not freed: [at, size]             *)
  calls,         (* calls of pre_malloc so far                             *)
  failed         (* the assertion of _writeBarrier stopped the program     *)

vars == <<heap, list, pc, req, res, loaded, nb_allocated, nb_free, live, calls, failed>>

Init ==
  /\ heap = EmptyHeap
  /\ list = initialise_gc
  /\ pc = [t \in Threads |-> "new"]
  /\ req = [t \in Threads |-> 0] /\ res = [t \in Threads |-> NULL]
  /\ loaded = [t \in Threads |-> 0]
  /\ nb_allocated = 0 /\ nb_free = 0 /\ calls = 0
  /\ live = {} /\ failed = FALSE

Goto(t, from, to) == ~failed /\ pc[t] = from /\ pc' = [pc EXCEPT ![t] = to]
-------------------------------------------------------------------------------
Attach(t) ==
  /\ Goto(t, "new", "mutator")
  /\ list' = attach_thread(list, t)
  /\ UNCHANGED <<heap, req, res, loaded, nb_allocated, nb_free, live, calls, failed>>

Detach(t) ==
  /\ Goto(t, "mutator", "gone")
  /\ list' = detach_thread(list, t)
  /\ UNCHANGED <<heap, req, res, loaded, nb_allocated, nb_free, live, calls, failed>>

(* pre_malloc, up to the unlock. *)
Allocate(t) ==
  /\ calls < MaxAllocated /\ calls' = calls + 1
  /\ Goto(t, "mutator", "unlocked")
  /\ \E size \in Sizes :
       /\ Fits(heap, size)
       /\ heap' = Take(heap, size).h
       /\ req' = [req EXCEPT ![t] = size]
       /\ res' = [res EXCEPT ![t] = Take(heap, size).res]
  /\ UNCHANGED <<list, loaded, nb_allocated, nb_free, live, failed>>

LoadStatistics(t) ==
  /\ Goto(t, "unlocked", "loaded")
  /\ loaded' = [loaded EXCEPT ![t] = nb_allocated]
  /\ UNCHANGED <<heap, list, req, res, nb_allocated, nb_free, live, calls, failed>>

\* Mutant of StoreStatistics: the object is counted with the one before.
store_twice(t) ==
  /\ Goto(t, "loaded", "counted")
  /\ nb_allocated' = loaded[t] + 2 /\ loaded' = [loaded EXCEPT ![t] = 0]
  /\ UNCHANGED <<heap, list, req, res, nb_free, live, calls, failed>>

StoreStatistics(t) ==
  /\ Goto(t, "loaded", "counted")
  /\ nb_allocated' = loaded[t] + 1 /\ loaded' = [loaded EXCEPT ![t] = 0]
  /\ UNCHANGED <<heap, list, req, res, nb_free, live, calls, failed>>

Return(t) ==
  /\ Goto(t, "counted", "mutator")
  /\ heap' = [heap EXCEPT !.ram[res[t]] = req[t]]
  /\ live' = live \cup {[at |-> res[t], size |-> req[t]]}
  /\ req' = [req EXCEPT ![t] = 0] /\ res' = [res EXCEPT ![t] = NULL]
  /\ UNCHANGED <<list, loaded, nb_allocated, nb_free, calls, failed>>

Object(o) == o.at + 1 .. o.at + Words(o.size)

(* The objects with a field for a pointer, 8 bytes, and their last one.    *)
Fielded == {o \in live : o.size >= 8}
Field(o) == o.at + o.size \div 4 - 1

(* doWriteRef: the barrier on the field and on the object it will point    *)
(* to, then the store of the pointer: 1 stands for each half of it.        *)
DoWriteRef(t) ==
  /\ ~failed /\ pc[t] = "mutator"
  /\ \E o \in Fielded, target \in live :
       IF toHeader(heap, Field(o)) # NULL /\ toHeader(heap, toObject(target.at)) # NULL
         THEN /\ heap' = [heap EXCEPT !.ram[Field(o)] = 1, !.ram[Field(o) + 1] = 1]
              /\ UNCHANGED failed
         ELSE failed' = TRUE /\ UNCHANGED heap
  /\ UNCHANGED <<list, pc, req, res, loaded, nb_allocated, nb_free, live, calls>>

(* pre_free by the collector. *)
Free ==
  /\ ~failed /\ nb_free < MaxFree /\ nb_free' = nb_free + 1
  /\ \E o \in live :
       /\ toHeader(heap, toObject(o.at)) # NULL
       /\ heap' = pre_free(heap, toObject(o.at))
       /\ live' = live \ {o}
  /\ UNCHANGED <<list, pc, req, res, loaded, nb_allocated, calls, failed>>

Step(t) == \/ Attach(t) \/ Detach(t) \/ Allocate(t) \/ LoadStatistics(t)
           \/ StoreStatistics(t) \/ Return(t) \/ DoWriteRef(t)

Next == Free \/ \E t \in Threads : Step(t)

Spec == Init /\ [][Next]_vars
-------------------------------------------------------------------------------
(* The heap, the list and the threads have their types. *)
TypeOK ==
  /\ heap \in Heaps /\ list \in Lists
  /\ pc \in [Threads -> {"new", "mutator", "unlocked", "loaded", "counted", "gone"}]
  /\ req \in [Threads -> Sizes \cup {0}] /\ res \in [Threads -> Addresses \cup {NULL}]
  /\ loaded \in [Threads -> 0 .. MaxAllocated]
  /\ nb_allocated \in 0 .. MaxAllocated /\ nb_free \in 0 .. MaxFree
  /\ live \subseteq [at : Addresses, size : Sizes]

(* The objects freed and not given out again, by following the list of     *)
(* each class.  Their size is 0 by then: one of their class stands for it. *)
SizeOf(c) == CHOOSE s \in SmallSizes : Class(s) = c
FreeList(c) ==
  LET chain[k \in 0 .. MaxFree] ==
        IF k = 0 THEN heap.first[c]
        ELSE IF chain[k - 1] = NULL THEN NULL ELSE Chain(heap, chain[k - 1])
  IN {[at |-> chain[k], size |-> SizeOf(c)] : k \in {k \in 0 .. MaxFree : chain[k] # NULL}}
Freed == UNION {FreeList(c) : c \in Classes}

Taken == {[at |-> res[t], size |-> req[t]] : t \in {t \in Threads : res[t] # NULL}}
Chunk(o) == o.at .. o.at + total_size(o.size) - 1

(* Two objects never share a word, whether they are in use, being returned *)
(* by a thread, or on a free list, and all of them lie in mapped zones.    *)
ObjectsDisjoint ==
  /\ \A o, q \in live \cup Taken \cup Freed : o # q => Chunk(o) \cap Chunk(q) = {}
  /\ \A t, u \in Threads : t # u /\ res[t] # NULL => res[t] # res[u]
  /\ \A o \in live \cup Taken \cup Freed : \A a \in Chunk(o) : PageNumber(a) \in heap.mapped

(* The collector's contract: any pointer into an object in use leads to    *)
(* its header, in the first page of its zone or a later one.               *)
InteriorFound == \A o \in live : \A p \in Object(o) : toHeader(heap, p) = o.at

(* A pointer into an object that was freed, or to a page given back, leads *)
(* to no header: freeing twice ends in an error, not in a list that loops. *)
FreedForgotten ==
  /\ \A o \in Freed : \A p \in Chunk(o) \ {o.at} : toHeader(heap, p) = NULL
  /\ \A a \in Addresses : PageNumber(a) \notin heap.mapped => toHeader(heap, a) = NULL

(* What pre_malloc returns is zeroed, recycled or not. *)
ReturnedZeroed ==
  \A t \in Threads : res[t] # NULL =>
    \A a \in res[t] + 1 .. res[t] + Words(req[t]) : heap.ram[a] = 0

(* Concurrent updates of the statistics may be lost, never counted twice. *)
NeverOvercounted ==
  nb_allocated <= calls - Cardinality({t \in Threads : pc[t] \in {"unlocked", "loaded"}})

(* The circular list holds the attached threads, in both directions.  *)
ThreadsListed ==
  LET attached == {t \in Threads : pc[t] \notin {"new", "gone"}}
  IN /\ {Walk(list.next)[k] : k \in DOMAIN Walk(list.next)} = attached \cup {all_threads}
     /\ \A d \in attached \cup {all_threads} : list.prev[list.next[d]] = d

(* Only the program writes inside an object: no allocation and no free of  *)
(* another one changes it.                                                 *)
ContentsKept ==
  [][\A o \in live \cap live' : \A p \in Object(o) :
       heap'.ram[p] = heap.ram[p] \/ \E t \in Threads : DoWriteRef(t)]_vars

(* The assertion of _writeBarrier, which the source says holds: pointers   *)
(* to objects in use have a header.                                        *)
BarrierHolds == ~failed
===============================================================================
