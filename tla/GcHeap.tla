-------------------------------- MODULE GcHeap --------------------------------
(***************************************************************************)
(* TP_GC_NMV/alloc.c as operators on a heap h.  The size of an object is   *)
(* in bytes; addresses and the room an object takes are in words of 4      *)
(* bytes, the size of an object header, since every element is a multiple  *)
(* of 8 bytes.  The last word of an object stands for those of its bytes   *)
(* the object has.  The addresses mmap returns are High + offset, where    *)
(* High is a multiple of WIDTH, the span of the low half of a pointer      *)
(* (2^32 bytes in the code); the page table heap_desc is indexed by the    *)
(* page number of that low half.                                           *)
(*                                                                         *)
(* h.desc[n]: words of an element in the zone of page n, or minus the      *)
(* pages since its start, or 0.  h.ram: the word at each address; the      *)
(* chain pointer of a free object is 8 bytes long, the two words after its *)
(* header.  h.first, h.current_zone and h.end_zone: the object_allocator   *)
(* of each class.                                                          *)
(***************************************************************************)
EXTENDS Integers, Sequences, FiniteSets

CONSTANTS
  PAGE_SIZE,     (* words of a page                                        *)
  NbPages,       (* pages mmap can give                                    *)
  WIDTH, High,   (* the span of a low half, and the high half in use       *)
  ZONE_OBJECTS,  (* objects a new zone has room for: 32 in the code        *)
  NB_ZONES,      (* classes of small objects: 2048 in the code             *)
  Sizes          (* the sizes the program asks for, in bytes               *)

ASSUME GcHeapAssumption ==
  /\ {PAGE_SIZE, NbPages, WIDTH, ZONE_OBJECTS, NB_ZONES} \subseteq Nat \ {0}
  /\ High \in Nat \ {0} /\ High % WIDTH = 0
  /\ NbPages * PAGE_SIZE <= WIDTH
  /\ PAGE_SIZE % 2 = 0 /\ Sizes \subseteq Nat

PageNumbers == 0 .. NbPages - 1
Addresses == High .. High + NbPages * PAGE_SIZE - 1
NULL == 0
OBJECT_ALIGN == 8

align(size, a) == ((size + a - 1) \div a) * a

(* The words of an object with its header; one of size 0 has 8 bytes.      *)
total_size(size) == align((IF size = 0 THEN 8 ELSE size) + 4, OBJECT_ALIGN) \div 4
Words(size) == (size + 3) \div 4

(* get_object_allocator is given the size without header and rounding.     *)
Small(size) == size < NB_ZONES * 4
Class(size) == size \div 4
SmallSizes == {s \in Sizes : Small(s)}
Classes == {Class(s) : s \in SmallSizes}
PageNumber(p) == (p % WIDTH) \div PAGE_SIZE

Word(h, a) == IF a \in Addresses THEN h.ram[a] ELSE 0

(* The chain pointer after the header at a, of two halves.                 *)
Chain(h, a) == Word(h, a + 1) + WIDTH * Word(h, a + 2)

Heaps == [desc : [PageNumbers -> Int], ram : [Addresses -> Int],
          first : [Classes -> Addresses \cup {NULL}],
          current_zone : [Classes -> Nat], end_zone : [Classes -> Nat],
          mapped : SUBSET PageNumbers]

EmptyHeap ==
  [desc |-> [n \in PageNumbers |-> 0], ram |-> [a \in Addresses |-> 0],
   first |-> [c \in Classes |-> NULL],
   current_zone |-> [c \in Classes |-> NULL],
   end_zone |-> [c \in Classes |-> NULL], mapped |-> {}]
-------------------------------------------------------------------------------
(* hash_zone: the value of the first page, then depl, 2 depl, ... *)
hash_zone(h, zone, size, elmt, depl) ==
  LET n == PageNumber(zone)
      last == n + (size + PAGE_SIZE - 1) \div PAGE_SIZE - 1
  IN [h EXCEPT !.desc = [k \in PageNumbers |->
        IF k = n THEN elmt ELSE IF k \in n + 1 .. last THEN (k - n) * depl ELSE @[k]]]

PagesAt(n, size) == n .. n + size \div PAGE_SIZE - 1

(* mmap: the lowest pages free in a row, zeroed. *)
Room(h, size) ==
  {n \in PageNumbers : n + size \div PAGE_SIZE <= NbPages
                       /\ PagesAt(n, size) \cap h.mapped = {}}

\* Mutant of new_zone: only the first page is hashed.
new_zone_first_page(h, size, elmt) ==
  LET n == CHOOSE k \in Room(h, size) : \A j \in Room(h, size) : k <= j
      zone == High + n * PAGE_SIZE
  IN [h |-> hash_zone([h EXCEPT !.mapped = @ \cup PagesAt(n, size)],
                      zone, PAGE_SIZE, elmt, -1), zone |-> zone]

new_zone(h, size, elmt) ==
  LET n == CHOOSE k \in Room(h, size) : \A j \in Room(h, size) : k <= j
      zone == High + n * PAGE_SIZE
  IN [h |-> hash_zone([h EXCEPT !.mapped = @ \cup PagesAt(n, size)], zone, size, elmt, -1),
      zone |-> zone]

\* Mutant of Pop: the object is not cleared.
pop_dirty(h, size) ==
  [h |-> [h EXCEPT !.first[Class(size)] = Chain(h, @)], res |-> h.first[Class(size)]]

(* The head of the list of freed objects, cleared. *)
Pop(h, size) ==
  LET res == h.first[Class(size)]
  IN [h |-> [h EXCEPT !.first[Class(size)] = Chain(h, res),
                      !.ram = [a \in Addresses |->
                                 IF a \in res + 1 .. res + Words(size) THEN 0 ELSE @[a]]],
      res |-> res]

\* Mutant of Bump: the zone is left one object too late.
bump_late(h, size) ==
  LET tot == total_size(size)
      c == Class(size)
      room == align(tot * ZONE_OBJECTS, PAGE_SIZE)
      z == new_zone(h, room, tot)
  IN IF h.current_zone[c] # NULL /\ h.current_zone[c] < h.end_zone[c]
       THEN [h |-> [h EXCEPT !.current_zone[c] = @ + tot], res |-> h.current_zone[c]]
       ELSE [h |-> [z.h EXCEPT !.current_zone[c] = z.zone + tot, !.end_zone[c] = z.zone + room],
             res |-> z.zone]

(* The next object of the current zone, or the first of a new one.  A      *)
(* class that has no zone yet has both pointers null.                      *)
Bump(h, size) ==
  LET tot == total_size(size)
      c == Class(size)
      room == align(tot * ZONE_OBJECTS, PAGE_SIZE)
      z == new_zone(h, room, tot)
  IN IF h.current_zone[c] + tot <= h.end_zone[c]
       THEN [h |-> [h EXCEPT !.current_zone[c] = @ + tot], res |-> h.current_zone[c]]
       ELSE [h |-> [z.h EXCEPT !.current_zone[c] = z.zone + tot, !.end_zone[c] = z.zone + room],
             res |-> z.zone]

Large(h, size) ==
  LET z == new_zone(h, align(total_size(size), PAGE_SIZE), total_size(size))
  IN [h |-> z.h, res |-> z.zone]

(* What allocate_internal does under the mutex. *)
Take(h, size) ==
  IF ~Small(size) THEN Large(h, size)
  ELSE IF h.first[Class(size)] # NULL THEN Pop(h, size)
  ELSE Bump(h, size)

(* Whether mmap can serve it; error() ends the program otherwise. *)
Fits(h, size) ==
  LET room == align(total_size(size) * (IF Small(size) THEN ZONE_OBJECTS ELSE 1), PAGE_SIZE)
      c == Class(size)
  IN \/ Small(size) /\ h.first[c] # NULL
     \/ Small(size) /\ h.current_zone[c] + total_size(size) <= h.end_zone[c]
     \/ Room(h, room) # {}

toObject(header) == header + 1

(* The header of the object p points into, or NULL.  The page address lost *)
(* the high half, p keeps it: the division counts elements from there.  In *)
(* an object of size 0 no pointer finds the header.                        *)
toHeader(h, p) ==
  LET entry == h.desc[PageNumber(p)]
      n == IF entry < 0 THEN PageNumber(p) + entry ELSE PageNumber(p)
      elmt == h.desc[n]
      page_addr == n * PAGE_SIZE
      header == page_addr + elmt * ((p - page_addr) \div elmt)
  IN IF elmt = 0 THEN NULL
     ELSE IF p - toObject(header) \in 0 .. Words(Word(h, header)) - 1 THEN header ELSE NULL

Unmap(h, header, tot) ==
  [hash_zone(h, header, tot, 0, 0)
     EXCEPT !.mapped = @ \ PagesAt(PageNumber(header), tot),
            !.ram = [a \in Addresses |->
                       IF a \in header .. header + tot - 1 THEN 0 ELSE @[a]]]

\* Mutant of pre_free: the size stays in the header.
pre_free_size_kept(h, p) ==
  LET header == toHeader(h, p)
      size == Word(h, header)
      next == h.first[Class(size)]
  IN IF Small(size)
       THEN [h EXCEPT !.ram[header + 1] = next % WIDTH, !.ram[header + 2] = next \div WIDTH,
                      !.first[Class(size)] = header]
       ELSE Unmap(h, header, align(total_size(size), PAGE_SIZE))

(* A small object goes to the list of its class, a large one is unmapped. *)
pre_free(h, p) ==
  LET header == toHeader(h, p)
      size == Word(h, header)
      next == h.first[Class(size)]
  IN IF Small(size)
       THEN [h EXCEPT !.ram[header] = 0, !.ram[header + 1] = next % WIDTH,
                      !.ram[header + 2] = next \div WIDTH, !.first[Class(size)] = header]
       ELSE Unmap(h, header, align(total_size(size), PAGE_SIZE))
===============================================================================
