-------------------------- MODULE GuestPagingProofs --------------------------
(***************************************************************************)
(* Theorems about GuestPaging, whatever the size of the machine and of the *)
(* pool, whatever translations the processor keeps: tables and frames stay *)
(* apart, the pool's bits tell what the tables tell, nothing leaks, no     *)
(* call is fatal, and an address that kept its frame reads what main.c     *)
(* expects.                                                                *)
(*                                                                         *)
(* The invariant follows main.c: Stage says, for each position, which page *)
(* of the pool has which role and what the data pages hold.  First part:   *)
(* what each function of memory.c does to tables Laid out that way.        *)
(* Second part: each position's call brings the Stage of the next one.     *)
(* Third part: the actions, with the cached translations, the variables    *)
(* and what was printed.                                                   *)
(***************************************************************************)
EXTENDS GuestPaging, KernelMemoryProofs, SequenceTheorems

(* The calls of main.c. *)
Ops == {"mmap", "munmap", "alloc", "map", "unmap", "free", "read", "write", "fill"}
Calls == {Do(op, v, arg) : op \in Ops, v \in VPages, arg \in Nat}

(* A sequence after another one.                                           *)
LEMMA Joined ==
  ASSUME NEW S, NEW s1 \in Seq(S), NEW s2 \in Seq(S), NEW s, s = s1 \o s2
  PROVE  /\ s \in Seq(S) /\ Len(s) = Len(s1) + Len(s2)
         /\ \A k \in 1 .. Len(s1) + Len(s2) :
              s[k] = IF k <= Len(s1) THEN s1[k] ELSE s2[k - Len(s1)]
BY ConcatProperties

(* main.c's calls, one by one.                                             *)
LEMMA ProgramText ==
  /\ Len(do_stuff) = 37
  /\ do_stuff[1] = Do("mmap", LOW_0, 0) /\ do_stuff[2] = Do("fill", LOW_0, Pattern)
  /\ do_stuff[3] = Do("read", LOW_0, Pattern) /\ do_stuff[4] = Do("munmap", LOW_0, 0)
  /\ do_stuff[5] = Do("mmap", LOW_0, 0) /\ do_stuff[6] = Do("read", LOW_0, 0)
  /\ do_stuff[7] = Do("munmap", LOW_0, 0)
  /\ do_stuff[8] = Do("alloc", LOW_0, 0) /\ do_stuff[9] = Do("map", LOW_0, 0)
  /\ do_stuff[10] = Do("map", LOW_1, 0) /\ do_stuff[11] = Do("write", LOW_0, 42)
  /\ do_stuff[12] = Do("read", LOW_0, 42) /\ do_stuff[13] = Do("read", LOW_1, 42)
  /\ do_stuff[14] = Do("write", LOW_1, 18) /\ do_stuff[15] = Do("read", LOW_1, 18)
  /\ do_stuff[16] = Do("read", LOW_0, 18) /\ do_stuff[17] = Do("unmap", LOW_0, 0)
  /\ do_stuff[18] = Do("unmap", LOW_1, 0) /\ do_stuff[19] = Do("free", LOW_0, 0)
  /\ do_stuff[20] = Do("alloc", LOW_0, 0) /\ do_stuff[21] = Do("alloc", LOW_1, 1)
  /\ do_stuff[22] = Do("map", LOW_0, 0) /\ do_stuff[23] = Do("fill", LOW_0, Pattern)
  /\ do_stuff[24] = Do("map", LOW_1, 1) /\ do_stuff[25] = Do("read", LOW_1, 0)
  /\ do_stuff[26] = Do("unmap", LOW_0, 0) /\ do_stuff[27] = Do("unmap", LOW_1, 0)
  /\ do_stuff[28] = Do("map", LOW_0, 1) /\ do_stuff[29] = Do("map", LOW_1, 0)
  /\ do_stuff[30] = Do("read", LOW_1, Pattern) /\ do_stuff[31] = Do("munmap", LOW_0, 0)
  /\ do_stuff[32] = Do("munmap", LOW_1, 0)
  /\ do_stuff[33] = Do("read", HIGH_0, 0) /\ do_stuff[34] = Do("write", HIGH_1, 23)
  /\ do_stuff[35] = Do("read", HIGH_1, 23) /\ do_stuff[36] = Do("munmap", HIGH_1, 0)
  /\ do_stuff[37] = Do("read", HIGH_1, 0)
<1>0. \A op \in Ops, v \in VPages, arg \in Nat : Do(op, v, arg) \in Calls
  BY DEF Calls
<1>1. /\ LOW_0 \in VPages /\ LOW_1 \in VPages /\ HIGH_0 \in VPages /\ HIGH_1 \in VPages
      /\ Pattern \in Nat
      /\ "mmap" \in Ops /\ "munmap" \in Ops /\ "alloc" \in Ops /\ "map" \in Ops
      /\ "unmap" \in Ops /\ "free" \in Ops /\ "read" \in Ops /\ "write" \in Ops
      /\ "fill" \in Ops
  BY DEF VPages, Pattern, Ops
<1>2. do_mmap_munmap \in Seq(Calls)
  BY <1>0, <1>1 DEF do_mmap_munmap
<1>3. do_double_map \in Seq(Calls)
  BY <1>0, <1>1 DEF do_double_map
<1>4. do_zero_copy \in Seq(Calls)
  BY <1>0, <1>1 DEF do_zero_copy
<1>5. do_lazy_alloc \in Seq(Calls)
  BY <1>0, <1>1 DEF do_lazy_alloc
<1>6. /\ Len(do_mmap_munmap) = 7 /\ Len(do_double_map) = 12
      /\ Len(do_zero_copy) = 13 /\ Len(do_lazy_alloc) = 5
  BY DEF do_mmap_munmap, do_double_map, do_zero_copy, do_lazy_alloc
<1>7. PICK ab, abc : /\ ab = do_mmap_munmap \o do_double_map
                     /\ abc = ab \o do_zero_copy
                     /\ do_stuff = abc \o do_lazy_alloc
  BY DEF do_stuff
<1>8. /\ ab \in Seq(Calls) /\ Len(ab) = Len(do_mmap_munmap) + Len(do_double_map)
      /\ \A k \in 1 .. Len(do_mmap_munmap) + Len(do_double_map) :
           ab[k] = IF k <= Len(do_mmap_munmap) THEN do_mmap_munmap[k] ELSE do_double_map[k - Len(do_mmap_munmap)]
  BY <1>2, <1>3, <1>7, Joined
<1>9. ab \in Seq(Calls)
  BY <1>8
<1>10. /\ abc \in Seq(Calls) /\ Len(abc) = Len(ab) + Len(do_zero_copy)
      /\ \A k \in 1 .. Len(ab) + Len(do_zero_copy) :
           abc[k] = IF k <= Len(ab) THEN ab[k] ELSE do_zero_copy[k - Len(ab)]
  BY <1>4, <1>9, <1>7, Joined
<1>11. abc \in Seq(Calls)
  BY <1>10
<1>12. /\ do_stuff \in Seq(Calls) /\ Len(do_stuff) = Len(abc) + Len(do_lazy_alloc)
      /\ \A k \in 1 .. Len(abc) + Len(do_lazy_alloc) :
           do_stuff[k] = IF k <= Len(abc) THEN abc[k] ELSE do_lazy_alloc[k - Len(abc)]
  BY <1>5, <1>11, <1>7, Joined
<1>13. /\ Len(ab) = 19
      /\ \A k \in 1 .. 19 : ab[k] = IF k <= 7 THEN do_mmap_munmap[k] ELSE do_double_map[k - 7]
  BY <1>6, <1>8
<1>14. /\ Len(abc) = 32
      /\ \A k \in 1 .. 32 : abc[k] = IF k <= 19 THEN ab[k] ELSE do_zero_copy[k - 19]
  BY <1>6, <1>10, <1>13
<1>15. /\ Len(do_stuff) = 37
      /\ \A k \in 1 .. 37 : do_stuff[k] = IF k <= 32 THEN abc[k] ELSE do_lazy_alloc[k - 32]
  BY <1>6, <1>12, <1>14
<1>16. /\ do_stuff[1] = do_mmap_munmap[1] /\ do_stuff[2] = do_mmap_munmap[2]
       /\ do_stuff[3] = do_mmap_munmap[3] /\ do_stuff[4] = do_mmap_munmap[4]
       /\ do_stuff[5] = do_mmap_munmap[5] /\ do_stuff[6] = do_mmap_munmap[6]
       /\ do_stuff[7] = do_mmap_munmap[7]
  BY <1>13, <1>14, <1>15
<1>17. /\ do_stuff[8] = do_double_map[1] /\ do_stuff[9] = do_double_map[2]
       /\ do_stuff[10] = do_double_map[3] /\ do_stuff[11] = do_double_map[4]
       /\ do_stuff[12] = do_double_map[5] /\ do_stuff[13] = do_double_map[6]
       /\ do_stuff[14] = do_double_map[7] /\ do_stuff[15] = do_double_map[8]
       /\ do_stuff[16] = do_double_map[9] /\ do_stuff[17] = do_double_map[10]
       /\ do_stuff[18] = do_double_map[11] /\ do_stuff[19] = do_double_map[12]
  BY <1>13, <1>14, <1>15
<1>18. /\ do_stuff[20] = do_zero_copy[1] /\ do_stuff[21] = do_zero_copy[2]
       /\ do_stuff[22] = do_zero_copy[3] /\ do_stuff[23] = do_zero_copy[4]
       /\ do_stuff[24] = do_zero_copy[5] /\ do_stuff[25] = do_zero_copy[6]
       /\ do_stuff[26] = do_zero_copy[7] /\ do_stuff[27] = do_zero_copy[8]
       /\ do_stuff[28] = do_zero_copy[9] /\ do_stuff[29] = do_zero_copy[10]
       /\ do_stuff[30] = do_zero_copy[11] /\ do_stuff[31] = do_zero_copy[12]
       /\ do_stuff[32] = do_zero_copy[13]
  BY <1>13, <1>14, <1>15
<1>19. /\ do_stuff[33] = do_lazy_alloc[1] /\ do_stuff[34] = do_lazy_alloc[2]
       /\ do_stuff[35] = do_lazy_alloc[3] /\ do_stuff[36] = do_lazy_alloc[4]
       /\ do_stuff[37] = do_lazy_alloc[5]
  BY <1>13, <1>14, <1>15
<1> QED
  BY <1>15, <1>16, <1>17, <1>18, <1>19
     DEF do_mmap_munmap, do_double_map, do_zero_copy, do_lazy_alloc


(* Where main.c makes each call, with what.                                *)
LEMMA Positions ==
  ASSUME NEW k \in 1 .. 37
  PROVE  /\ do_stuff[k].op = "mmap" => k \in {1, 5} /\ do_stuff[k].v = LOW_0
         /\ do_stuff[k].op = "munmap" =>
              \/ k \in {4, 7, 31} /\ do_stuff[k].v = LOW_0
              \/ k = 32 /\ do_stuff[k].v = LOW_1
              \/ k = 36 /\ do_stuff[k].v = HIGH_1
         /\ do_stuff[k].op = "alloc" =>
              \/ k \in {8, 20} /\ do_stuff[k].arg = 0
              \/ k = 21 /\ do_stuff[k].arg = 1
         /\ do_stuff[k].op = "map" =>
              \/ k \in {9, 22} /\ do_stuff[k].v = LOW_0 /\ do_stuff[k].arg = 0
              \/ k \in {10, 29} /\ do_stuff[k].v = LOW_1 /\ do_stuff[k].arg = 0
              \/ k = 24 /\ do_stuff[k].v = LOW_1 /\ do_stuff[k].arg = 1
              \/ k = 28 /\ do_stuff[k].v = LOW_0 /\ do_stuff[k].arg = 1
         /\ do_stuff[k].op = "unmap" =>
              \/ k \in {17, 26} /\ do_stuff[k].v = LOW_0
              \/ k \in {18, 27} /\ do_stuff[k].v = LOW_1
         /\ do_stuff[k].op = "free" => k = 19 /\ do_stuff[k].arg = 0
         /\ do_stuff[k].op = "fill" =>
              k \in {2, 23} /\ do_stuff[k].v = LOW_0 /\ do_stuff[k].arg = 256
         /\ do_stuff[k].op = "write" =>
              \/ k = 11 /\ do_stuff[k].v = LOW_0 /\ do_stuff[k].arg = 42
              \/ k = 14 /\ do_stuff[k].v = LOW_1 /\ do_stuff[k].arg = 18
              \/ k = 34 /\ do_stuff[k].v = HIGH_1 /\ do_stuff[k].arg = 23
         /\ do_stuff[k].op = "read" =>
              \/ k = 3 /\ do_stuff[k].v = LOW_0 /\ do_stuff[k].arg = 256
              \/ k = 6 /\ do_stuff[k].v = LOW_0 /\ do_stuff[k].arg = 0
              \/ k = 12 /\ do_stuff[k].v = LOW_0 /\ do_stuff[k].arg = 42
              \/ k = 13 /\ do_stuff[k].v = LOW_1 /\ do_stuff[k].arg = 42
              \/ k = 15 /\ do_stuff[k].v = LOW_1 /\ do_stuff[k].arg = 18
              \/ k = 16 /\ do_stuff[k].v = LOW_0 /\ do_stuff[k].arg = 18
              \/ k \in {25, 30} /\ do_stuff[k].v = LOW_1
              \/ k = 33 /\ do_stuff[k].v = HIGH_0 /\ do_stuff[k].arg = 0
              \/ k = 35 /\ do_stuff[k].v = HIGH_1 /\ do_stuff[k].arg = 23
              \/ k = 37 /\ do_stuff[k].v = HIGH_1
<1>1. CASE k \in 1 .. 7
  BY <1>1, ProgramText DEF Do, Pattern
<1>2. CASE k \in 8 .. 19
  BY <1>2, ProgramText DEF Do, Pattern
<1>3. CASE k \in 20 .. 32
  BY <1>3, ProgramText DEF Do, Pattern
<1>4. CASE k \in 33 .. 37
  BY <1>4, ProgramText DEF Do, Pattern
<1> QED
  BY <1>1, <1>2, <1>3, <1>4
-------------------------------------------------------------------------------
(* Page k of the pool; the entry that maps a page, 0 for none; the table   *)
(* of level 1 that maps an address.                                        *)
F(k) == FirstPool + k
Pte(page) == IF page = 0 THEN 0 ELSE UserPte(page)
Leaf(v) == IF v \in {LOW_0, LOW_1} THEN F(1) ELSE F(3)

(* The tables as main.c leaves them at any time: the pages of B are        *)
(* allocated, page 1 is the level 1 table of the low addresses, pages 2    *)
(* and 3 are the tables of the high ones once both are allocated, and e    *)
(* maps each address to its frame, or 0.                                   *)
Laid(m, e, B) ==
  /\ m \in Memory /\ m.alive /\ m.bits = B
  /\ Word(m, Pml4, 0) = UserPte(Pml3) /\ Word(m, Pml3, 0) = UserPte(Pml2)
  /\ Word(m, Pml2, 1) = Pte(IF F(1) \in B THEN F(1) ELSE 0)
  /\ Word(m, Pml3, 4) = Pte(IF F(3) \in B THEN F(2) ELSE 0)
  /\ Word(m, F(2), 0) = Pte(IF F(3) \in B THEN F(3) ELSE 0)
  /\ \A v \in VPages : Word(m, Leaf(v), v[4]) = Pte(e[v])

Frames == [VPages -> Nat]

(* The pages and the entries main.c uses are the machine's, and differ.    *)
LEMMA Places ==
  /\ Pml4 \in Pages /\ Pml3 \in Pages /\ Pml2 \in Pages
  /\ \A k \in 0 .. 4 : F(k) \in Pool /\ F(k) \in Pages /\ F(k) \in Nat \ {0}
  /\ \A k \in 0 .. 4 : F(k) # Pml4 /\ F(k) # Pml3 /\ F(k) # Pml2
  /\ \A j, k \in 0 .. 4 : F(j) = F(k) => j = k
  /\ Pml4 # Pml3 /\ Pml4 # Pml2 /\ Pml3 # Pml2
  /\ 0 \in Indexes /\ 1 \in Indexes /\ 4 \in Indexes
BY KernelMemoryAssumption, GuestPagingAssumption
   DEF Pml4, Pml3, Pml2, F, Pool, Pages, Indexes

(* The four addresses, index by index.                                     *)
LEMMA Addresses ==
  /\ LOW_0 \in VPages /\ LOW_1 \in VPages /\ HIGH_0 \in VPages /\ HIGH_1 \in VPages
  /\ \A v \in VPages : v \in {LOW_0, LOW_1, HIGH_0, HIGH_1}
  /\ \A v \in {LOW_0, LOW_1} : v[1] = 0 /\ v[2] = 0 /\ v[3] = 1 /\ Leaf(v) = F(1)
  /\ \A v \in {HIGH_0, HIGH_1} : v[1] = 0 /\ v[2] = 4 /\ v[3] = 0 /\ Leaf(v) = F(3)
  /\ LOW_0[4] = 0 /\ LOW_1[4] = 1 /\ HIGH_0[4] = 0 /\ HIGH_1[4] = 1
  /\ \A v \in VPages : v[1] \in Indexes /\ v[2] \in Indexes /\ v[3] \in Indexes /\ v[4] \in Indexes
  /\ \A v \in VPages : Leaf(v) \in Pages
  /\ \A v, w \in VPages : Leaf(v) = Leaf(w) /\ v[4] = w[4] => v = w
  /\ LOW_0 # LOW_1 /\ HIGH_0 # HIGH_1
  /\ {LOW_0, LOW_1} \cap {HIGH_0, HIGH_1} = {}
<1>1. LOW_0 \notin {HIGH_0, HIGH_1} /\ LOW_1 \notin {HIGH_0, HIGH_1}
  BY DEF LOW_0, LOW_1, HIGH_0, HIGH_1
<1>2. F(1) # F(3) /\ F(1) \in Pages /\ F(3) \in Pages
  BY Places
<1>3. /\ LOW_0[1] = 0 /\ LOW_0[2] = 0 /\ LOW_0[3] = 1 /\ LOW_0[4] = 0
      /\ LOW_1[1] = 0 /\ LOW_1[2] = 0 /\ LOW_1[3] = 1 /\ LOW_1[4] = 1
      /\ HIGH_0[1] = 0 /\ HIGH_0[2] = 4 /\ HIGH_0[3] = 0 /\ HIGH_0[4] = 0
      /\ HIGH_1[1] = 0 /\ HIGH_1[2] = 4 /\ HIGH_1[3] = 0 /\ HIGH_1[4] = 1
  BY DEF LOW_0, LOW_1, HIGH_0, HIGH_1
<1>4. 0 \in Indexes /\ 1 \in Indexes /\ 4 \in Indexes
  BY Places
<1>5. /\ Leaf(LOW_0) = F(1) /\ Leaf(LOW_1) = F(1) /\ Leaf(HIGH_0) = F(3) /\ Leaf(HIGH_1) = F(3)
  BY <1>1 DEF Leaf
<1> QED
  BY <1>1, <1>2, <1>3, <1>4, <1>5 DEF VPages
-------------------------------------------------------------------------------
(* An entry's flags and page.                                              *)
LEMMA PteFacts ==
  ASSUME NEW page \in Nat
  PROVE  /\ Pte(page) \in Nat /\ PageOf(Pte(page)) = page
         /\ Present(Pte(page)) <=> page # 0
<1>1. /\ UserPte(page) \in Nat /\ Present(UserPte(page)) /\ PageOf(UserPte(page)) = page
      /\ ~Present(0) /\ PageOf(0) = 0
  BY Ptes
<1> QED
  BY <1>1 DEF Pte

(* The entries the processor meets on the way to an address.               *)
LEMMA EntriesLaid ==
  ASSUME NEW m, NEW e \in Frames, NEW B, Laid(m, e, B), NEW v \in VPages
  PROVE  /\ Entry4(m, Pml4, v) = UserPte(Pml3)
         /\ v \in {LOW_0, LOW_1} =>
              /\ Entry3(m, Pml4, v) = UserPte(Pml2)
              /\ Entry2(m, Pml4, v) = Pte(IF F(1) \in B THEN F(1) ELSE 0)
         /\ v \in {HIGH_0, HIGH_1} =>
              /\ Entry3(m, Pml4, v) = Pte(IF F(3) \in B THEN F(2) ELSE 0)
              /\ F(3) \in B => Entry2(m, Pml4, v) = Pte(F(3))
         /\ Leaf(v) \in B => Entry1(m, Pml4, v) = Pte(e[v])
<1>1. /\ Index(v, 4) = v[1] /\ Index(v, 3) = v[2] /\ Index(v, 2) = v[3] /\ Index(v, 1) = v[4]
  BY DEF Index
<1>2. /\ Pml3 \in Nat /\ Pml2 \in Nat /\ F(1) \in Nat \ {0} /\ F(2) \in Nat \ {0}
      /\ F(3) \in Nat \ {0}
  BY Places DEF Pml3, Pml2
<1>3. /\ PageOf(UserPte(Pml3)) = Pml3 /\ PageOf(UserPte(Pml2)) = Pml2
      /\ PageOf(Pte(F(1))) = F(1) /\ PageOf(Pte(F(2))) = F(2) /\ PageOf(Pte(F(3))) = F(3)
  BY <1>2, Ptes, PteFacts
<1>4. Entry4(m, Pml4, v) = UserPte(Pml3)
  BY <1>1, Addresses DEF Entry4, Laid
<1>5. Entry3(m, Pml4, v) = Word(m, Pml3, v[2])
  BY <1>1, <1>3, <1>4 DEF Entry3
<1>6. ASSUME v \in {LOW_0, LOW_1}
      PROVE  /\ Entry3(m, Pml4, v) = UserPte(Pml2)
             /\ Entry2(m, Pml4, v) = Pte(IF F(1) \in B THEN F(1) ELSE 0)
             /\ Leaf(v) \in B => Entry1(m, Pml4, v) = Pte(e[v])
  <2>1. v[2] = 0 /\ v[3] = 1 /\ Leaf(v) = F(1)
    BY <1>6, Addresses
  <2>2. Entry3(m, Pml4, v) = UserPte(Pml2)
    BY <1>5, <2>1 DEF Laid
  <2>3. Entry2(m, Pml4, v) = Pte(IF F(1) \in B THEN F(1) ELSE 0)
    BY <1>1, <1>3, <2>1, <2>2 DEF Entry2, Laid
  <2>4. Leaf(v) \in B => Entry1(m, Pml4, v) = Pte(e[v])
    BY <1>1, <1>3, <2>1, <2>3 DEF Entry1, Laid
  <2> QED
    BY <2>2, <2>3, <2>4
<1>7. ASSUME v \in {HIGH_0, HIGH_1}
      PROVE  /\ Entry3(m, Pml4, v) = Pte(IF F(3) \in B THEN F(2) ELSE 0)
             /\ F(3) \in B => Entry2(m, Pml4, v) = Pte(F(3))
             /\ Leaf(v) \in B => Entry1(m, Pml4, v) = Pte(e[v])
  <2>1. v[2] = 4 /\ v[3] = 0 /\ Leaf(v) = F(3)
    BY <1>7, Addresses
  <2>2. Entry3(m, Pml4, v) = Pte(IF F(3) \in B THEN F(2) ELSE 0)
    BY <1>5, <2>1 DEF Laid
  <2>3. F(3) \in B => Entry2(m, Pml4, v) = Pte(F(3))
    BY <1>1, <1>3, <2>1, <2>2 DEF Entry2, Laid
  <2>4. Leaf(v) \in B => Entry1(m, Pml4, v) = Pte(e[v])
    BY <1>1, <1>3, <2>1, <2>3 DEF Entry1, Laid
  <2> QED
    BY <2>2, <2>3, <2>4
<1> QED
  BY <1>4, <1>6, <1>7, Addresses

(* An address is mapped when its table is there and its entry is not 0.    *)
LEMMA MappedLaid ==
  ASSUME NEW m, NEW e \in Frames, NEW B, Laid(m, e, B), NEW v \in VPages
  PROVE  /\ Mapped(m, v) <=> Leaf(v) \in B /\ e[v] # 0
         /\ Leaf(v) \in B => /\ PageOf(Entry2(m, Pml4, v)) = Leaf(v)
                             /\ PageOf(Entry1(m, Pml4, v)) = e[v]
<1>1. /\ Pml3 \in Nat /\ Pml2 \in Nat /\ F(1) \in Nat \ {0} /\ F(2) \in Nat \ {0}
      /\ F(3) \in Nat \ {0} /\ e[v] \in Nat
  BY Places DEF Pml3, Pml2, Frames
<1>2. /\ Present(UserPte(Pml3)) /\ Present(UserPte(Pml2)) /\ ~Present(Pte(0))
      /\ Present(Pte(F(1))) /\ Present(Pte(F(2))) /\ Present(Pte(F(3)))
      /\ PageOf(Pte(F(1))) = F(1) /\ PageOf(Pte(F(3))) = F(3)
      /\ PageOf(Pte(e[v])) = e[v] /\ (Present(Pte(e[v])) <=> e[v] # 0)
  BY <1>1, Ptes, PteFacts
<1>3. v \in {LOW_0, LOW_1} \/ v \in {HIGH_0, HIGH_1}
  BY Addresses
<1>4. CASE v \in {LOW_0, LOW_1}
  <2>1. Leaf(v) = F(1)
    BY <1>4, Addresses
  <2>2. /\ Entry4(m, Pml4, v) = UserPte(Pml3) /\ Entry3(m, Pml4, v) = UserPte(Pml2)
        /\ Entry2(m, Pml4, v) = Pte(IF F(1) \in B THEN F(1) ELSE 0)
        /\ F(1) \in B => Entry1(m, Pml4, v) = Pte(e[v])
    BY <1>4, <2>1, EntriesLaid
  <2> QED
    BY <1>2, <1>4, <2>1, <2>2 DEF Mapped
<1>5. CASE v \in {HIGH_0, HIGH_1}
  <2>1. Leaf(v) = F(3)
    BY <1>5, Addresses
  <2> QED
    BY <1>2, <1>5, <2>1, EntriesLaid DEF Mapped
<1> QED
  BY <1>3, <1>4, <1>5

(* A store in the entry of an address, while its table is there.           *)
LEMMA EntryStored ==
  ASSUME NEW m, NEW e \in Frames, NEW B, Laid(m, e, B), NEW v \in VPages,
         NEW page \in Nat, NEW m2, m2 = Put(m, Leaf(v), v[4], Pte(page))
  PROVE  /\ Laid(m2, [e EXCEPT ![v] = page], B)
         /\ \A p \in Pages \ {F(1), F(3)} : m2.ram[p] = m.ram[p]
<1>1. Pte(page) \in Nat
  BY PteFacts
<1>2. /\ m2 \in Memory /\ m2.bits = m.bits /\ m2.alive = m.alive
      /\ Word(m2, Leaf(v), v[4]) = Pte(page)
      /\ \A p \in Pages, j \in Indexes :
           ~(p = Leaf(v) /\ j = v[4]) => Word(m2, p, j) = Word(m, p, j)
      /\ \A p \in Pages : p # Leaf(v) => m2.ram[p] = m.ram[p]
  <2>1. m \in Memory /\ Leaf(v) \in Pages /\ v[4] \in Indexes
    BY Addresses DEF Laid
  <2> QED
    BY <1>1, <2>1, PutWords
<1>3. Leaf(v) \in {F(1), F(3)}
  BY DEF Leaf
<1>4. /\ F(1) \in Pages /\ F(2) \in Pages /\ F(3) \in Pages
      /\ {Pml4, Pml3, Pml2, F(2)} \cap {F(1), F(3)} = {}
  BY Places
<1>5. /\ Word(m2, Pml4, 0) = Word(m, Pml4, 0) /\ Word(m2, Pml3, 0) = Word(m, Pml3, 0)
      /\ Word(m2, Pml2, 1) = Word(m, Pml2, 1) /\ Word(m2, Pml3, 4) = Word(m, Pml3, 4)
      /\ Word(m2, F(2), 0) = Word(m, F(2), 0)
  BY <1>2, <1>3, <1>4, Places
<1>6. ASSUME NEW w \in VPages
      PROVE  Word(m2, Leaf(w), w[4]) = Pte([e EXCEPT ![v] = page][w])
  <2>1. CASE w = v
    BY <1>2, <2>1 DEF Frames
  <2>2. CASE w # v
    <3>1. ~(Leaf(w) = Leaf(v) /\ w[4] = v[4])
      BY <2>2, Addresses
    <3>2. Word(m2, Leaf(w), w[4]) = Word(m, Leaf(w), w[4])
      BY <1>2, <3>1, Addresses
    <3> QED
      BY <2>2, <3>2 DEF Laid, Frames
  <2> QED
    BY <2>1, <2>2
<1>7. \A p \in Pages \ {F(1), F(3)} : m2.ram[p] = m.ram[p]
  BY <1>2, <1>3
<1> QED
  BY <1>2, <1>5, <1>6, <1>7 DEF Laid


(* What happens to the data pages, and to the bits of other pages than     *)
(* tables, leaves the tables as they are.                                  *)
LEMMA DataLaid ==
  ASSUME NEW m, NEW e \in Frames, NEW B, Laid(m, e, B),
         NEW m2 \in Memory, m2.alive, NEW B2, m2.bits = B2,
         F(1) \in B2 <=> F(1) \in B, F(3) \in B2 <=> F(3) \in B,
         \A p \in Pages \ {F(0), F(4)} : m2.ram[p] = m.ram[p]
  PROVE  Laid(m2, e, B2)
<1>1. /\ {Pml4, Pml3, Pml2, F(1), F(2), F(3)} \subseteq Pages \ {F(0), F(4)}
  BY Places
<1>2. \A v \in VPages : Leaf(v) \in {F(1), F(3)}
  BY DEF Leaf
<1>3. \A p \in {Pml4, Pml3, Pml2, F(1), F(2), F(3)} : \A i : Word(m2, p, i) = Word(m, p, i)
  BY <1>1 DEF Word
<1> QED
  BY <1>2, <1>3 DEF Laid

(* Page k of the pool is the first one that is not in B. *)
NextFree(B, k) ==
  k \in 0 .. 4 /\ F(k) \notin B /\ \A j \in 0 .. 4 : j < k => F(j) \in B

(* alloc_page finds page k of the pool when the pages before it are taken. *)
LEMMA AllocNth ==
  ASSUME NEW m \in Memory, NEW k, NextFree(m.bits, k),
         NEW a, a = AllocPage(m)
  PROVE  /\ a.page = F(k) /\ a.mem \in Memory /\ a.mem.alive = m.alive
         /\ a.mem.bits = m.bits \cup {F(k)} /\ a.mem.ram = m.ram
<1>0. /\ k \in 0 .. 4 /\ F(k) \notin m.bits
      /\ \A j \in 0 .. 4 : j < k => F(j) \in m.bits
  BY DEF NextFree
<1>1. F(k) \in Pool \ m.bits
  BY <1>0, Places
<1>2. /\ a.mem \in Memory /\ a.mem.ram = m.ram /\ a.mem.alive = m.alive
      /\ a.mem.bits = m.bits \cup {a.page}
      /\ a.page \in Pool \ m.bits /\ \A q \in Pool \ m.bits : a.page <= q
  <2>1. Free(m) # {}
    BY <1>1 DEF Free
  <2> QED
    BY <2>1, AllocNew
<1>3. a.page <= F(k)
  BY <1>1, <1>2
<1>4. a.page \in Int /\ FirstPool <= a.page /\ FirstPool \in Nat
  BY <1>2, KernelMemoryAssumption DEF Pool
<1>5. ~(a.page < F(k))
  <2> SUFFICES ASSUME a.page < F(k) PROVE FALSE
    OBVIOUS
  <2>1. PICK j \in 0 .. 4 : j < k /\ a.page = FirstPool + j
    <3>1. a.page - FirstPool \in 0 .. 4 /\ a.page - FirstPool < k
      BY <1>0, <1>4 DEF F
    <3> QED
      BY <1>4, <3>1
  <2>2. a.page \in m.bits
    BY <1>0, <2>1 DEF F
  <2> QED
    BY <1>2, <2>2
<1>6. F(k) \in Int
  BY <1>0, <1>4 DEF F
<1>7. a.page = F(k)
  BY <1>3, <1>4, <1>5, <1>6
<1> QED
  BY <1>2, <1>7

(* One level of map_page's walk, through a table that is there and through *)
(* one that alloc_page gives.                                              *)
LEMMA StepDown ==
  ASSUME NEW m, NEW p, NEW v, NEW l, Present(Word(m, p, Index(v, l))), NEW q,
         PageOf(Word(m, p, Index(v, l))) = q
  PROVE  Descend([mem |-> m, page |-> p], v, l) = [mem |-> m, page |-> q]
BY DEF Descend

(* Descend, when the entry is empty: a table is allocated and entered.     *)
LEMMA StepNew ==
  ASSUME NEW m, NEW p, NEW v, NEW l, ~Present(Word(m, p, Index(v, l))),
         NEW a, a = AllocPage(m), NEW q, a.page = q,
         NEW m2, m2 = Put(a.mem, p, Index(v, l), UserPte(q))
  PROVE  Descend([mem |-> m, page |-> p], v, l) = [mem |-> m2, page |-> q]
BY DEF Descend

(* map_page (janus memory.c), when the tables are there.                   *)
LEMMA MapLaid ==
  ASSUME NEW m, NEW e \in Frames, NEW B, Laid(m, e, B), NEW v \in VPages, Leaf(v) \in B,
         NEW page \in Nat \ {0}, NEW m2, m2 = map_page(m, v, page)
  PROVE  /\ Laid(m2, [e EXCEPT ![v] = page], B)
         /\ \A p \in Pages \ {F(1), F(3)} : m2.ram[p] = m.ram[p]
<1>1. /\ Pml3 \in Nat /\ Pml2 \in Nat /\ F(1) \in Nat \ {0} /\ F(2) \in Nat \ {0}
      /\ F(3) \in Nat \ {0}
  BY Places DEF Pml3, Pml2
<1>2. /\ Present(UserPte(Pml3)) /\ Present(UserPte(Pml2))
      /\ Present(Pte(F(1))) /\ Present(Pte(F(2))) /\ Present(Pte(F(3)))
      /\ PageOf(UserPte(Pml3)) = Pml3 /\ PageOf(UserPte(Pml2)) = Pml2
      /\ PageOf(Pte(F(1))) = F(1) /\ PageOf(Pte(F(2))) = F(2) /\ PageOf(Pte(F(3))) = F(3)
  BY <1>1, Ptes, PteFacts
<1>3. /\ Index(v, 4) = v[1] /\ Index(v, 3) = v[2] /\ Index(v, 2) = v[3] /\ Index(v, 1) = v[4]
  BY DEF Index
<1>4. Descend([mem |-> m, page |-> Pml4], v, 4) = [mem |-> m, page |-> Pml3]
  <2>1. v[1] = 0
    BY Addresses
  <2>2. Word(m, Pml4, Index(v, 4)) = UserPte(Pml3)
    BY <1>3, <2>1 DEF Laid
  <2> QED
    BY <1>2, <2>2, StepDown
<1>5. Descend(Descend([mem |-> m, page |-> Pml3], v, 3), v, 2) = [mem |-> m, page |-> Leaf(v)]
  <2>1. CASE v \in {LOW_0, LOW_1}
    <3>1. v[2] = 0 /\ v[3] = 1 /\ Leaf(v) = F(1)
      BY <2>1, Addresses
    <3>2. /\ Word(m, Pml3, Index(v, 3)) = UserPte(Pml2)
          /\ Word(m, Pml2, Index(v, 2)) = Pte(F(1))
      BY <1>3, <3>1 DEF Laid
    <3>3. Descend([mem |-> m, page |-> Pml3], v, 3) = [mem |-> m, page |-> Pml2]
      BY <1>2, <3>2, StepDown
    <3>4. Descend([mem |-> m, page |-> Pml2], v, 2) = [mem |-> m, page |-> F(1)]
      BY <1>2, <3>2, StepDown
    <3> QED
      BY <3>1, <3>3, <3>4
  <2>2. CASE v \in {HIGH_0, HIGH_1}
    <3>1. v[2] = 4 /\ v[3] = 0 /\ Leaf(v) = F(3)
      BY <2>2, Addresses
    <3>2. /\ Word(m, Pml3, Index(v, 3)) = Pte(F(2))
          /\ Word(m, F(2), Index(v, 2)) = Pte(F(3))
      BY <1>3, <3>1 DEF Laid
    <3>3. Descend([mem |-> m, page |-> Pml3], v, 3) = [mem |-> m, page |-> F(2)]
      BY <1>2, <3>2, StepDown
    <3>4. Descend([mem |-> m, page |-> F(2)], v, 2) = [mem |-> m, page |-> F(3)]
      BY <1>2, <3>2, StepDown
    <3> QED
      BY <3>1, <3>3, <3>4
  <2> QED
    BY <2>1, <2>2, Addresses
<1>6. m2 = Put(m, Leaf(v), v[4], Pte(page))
  BY <1>3, <1>4, <1>5 DEF map_page, Pte
<1> QED
  BY <1>6, EntryStored

(* unmap_page (janus memory.c) clears the entry of a mapped address and    *)
(* returns its frame.                                                      *)
LEMMA UnmapLaid ==
  ASSUME NEW m, NEW e \in Frames, NEW B, Laid(m, e, B), NEW v \in VPages, Leaf(v) \in B,
         e[v] # 0, NEW u, u = unmap_page(m, v)
  PROVE  /\ u.page = e[v]
         /\ Laid(u.mem, [e EXCEPT ![v] = 0], B)
         /\ \A p \in Pages \ {F(1), F(3)} : u.mem.ram[p] = m.ram[p]
<1>1. Mapped(m, v) /\ PageOf(Entry2(m, Pml4, v)) = Leaf(v) /\ PageOf(Entry1(m, Pml4, v)) = e[v]
  BY MappedLaid
<1>2. Index(v, 1) = v[4] /\ Pte(0) = 0
  BY DEF Index, Pte
<1>3. u.page = e[v] /\ u.mem = Put(m, Leaf(v), v[4], Pte(0))
  BY <1>1, <1>2 DEF unmap_page
<1> QED
  BY <1>3, EntryStored


(* map_page gives the low addresses their table, page 1 of the pool.       *)
LEMMA MapFirstLow ==
  ASSUME NEW m, NEW e \in Frames, NEW B, Laid(m, e, B), F(0) \in B, F(1) \notin B,
         NEW page \in Nat \ {0}, NEW m2, m2 = map_page(m, LOW_0, page)
  PROVE  /\ Laid(m2, [e EXCEPT ![LOW_0] = page], B \cup {F(1)})
         /\ \A p \in {F(0), F(4)} : m2.ram[p] = m.ram[p]
<1> DEFINE v == LOW_0
<1>1. /\ v \in VPages /\ v \in {LOW_0, LOW_1}
      /\ v[1] = 0 /\ v[2] = 0 /\ v[3] = 1 /\ v[4] = 0 /\ Leaf(v) = F(1)
  BY Addresses
<1>2. /\ Index(v, 4) = 0 /\ Index(v, 3) = 0 /\ Index(v, 2) = 1 /\ Index(v, 1) = 0
  BY <1>1 DEF Index
<1> HIDE DEF v
<1>3. /\ Pml3 \in Nat /\ Pml2 \in Nat /\ F(1) \in Nat \ {0} /\ Pml2 \in Pages
      /\ 1 \in Indexes /\ 1 \in 0 .. 4
  BY Places DEF Pml3, Pml2
<1>4. /\ Present(UserPte(Pml3)) /\ Present(UserPte(Pml2)) /\ ~Present(Pte(0))
      /\ PageOf(UserPte(Pml3)) = Pml3 /\ PageOf(UserPte(Pml2)) = Pml2
      /\ UserPte(F(1)) \in Nat /\ UserPte(F(1)) = Pte(F(1))
  BY <1>3, Ptes, PteFacts DEF Pte
<1>5. Descend([mem |-> m, page |-> Pml4], v, 4) = [mem |-> m, page |-> Pml3]
  <2>1. Word(m, Pml4, Index(v, 4)) = UserPte(Pml3)
    BY <1>2 DEF Laid
  <2> QED
    BY <1>4, <2>1, StepDown
<1>6. Descend([mem |-> m, page |-> Pml3], v, 3) = [mem |-> m, page |-> Pml2]
  <2>1. Word(m, Pml3, Index(v, 3)) = UserPte(Pml2)
    BY <1>2 DEF Laid
  <2> QED
    BY <1>4, <2>1, StepDown
<1>7. PICK a : a = AllocPage(m)
  OBVIOUS
<1>8. /\ a.page = F(1) /\ a.mem \in Memory /\ a.mem.alive = m.alive
      /\ a.mem.bits = m.bits \cup {F(1)} /\ a.mem.ram = m.ram
  <2>1. m \in Memory /\ NextFree(m.bits, 1)
    BY <1>3 DEF Laid, NextFree
  <2> QED
    BY <1>3, <1>7, <2>1, AllocNth
<1>9. PICK n : n = Put(a.mem, Pml2, 1, UserPte(F(1)))
  OBVIOUS
<1>10. Descend([mem |-> m, page |-> Pml2], v, 2) = [mem |-> n, page |-> F(1)]
  <2>1. Word(m, Pml2, Index(v, 2)) = Pte(0)
    BY <1>2 DEF Laid
  <2>2. n = Put(a.mem, Pml2, Index(v, 2), UserPte(F(1)))
    BY <1>2, <1>9
  <2> QED
    BY <1>4, <1>7, <1>8, <2>1, <2>2, StepNew
<1>11. /\ n \in Memory /\ n.bits = a.mem.bits /\ n.alive = a.mem.alive
       /\ Word(n, Pml2, 1) = UserPte(F(1))
       /\ \A p \in Pages, j \in Indexes :
            ~(p = Pml2 /\ j = 1) => Word(n, p, j) = Word(a.mem, p, j)
       /\ \A p \in Pages : p # Pml2 => n.ram[p] = a.mem.ram[p]
  <2>1. a.mem \in Memory /\ Pml2 \in Pages /\ 1 \in Indexes /\ UserPte(F(1)) \in Nat
    BY <1>3, <1>4, <1>8
  <2>2. Stored(a.mem, n, Pml2, 1, UserPte(F(1)))
    BY <1>9, <2>1, PutStored
  <2> QED
    BY <2>2 DEF Stored
<1>12. \A p \in Pages : \A i : Word(a.mem, p, i) = Word(m, p, i)
  BY <1>8 DEF Word
<1>13. Laid(n, e, B \cup {F(1)})
  <2>1. n.bits = B \cup {F(1)} /\ n.alive
    BY <1>8, <1>11 DEF Laid
  <2>2. F(3) \in B \cup {F(1)} <=> F(3) \in B
    BY Places
  <2>3. /\ Word(n, Pml4, 0) = Word(m, Pml4, 0) /\ Word(n, Pml3, 0) = Word(m, Pml3, 0)
        /\ Word(n, Pml3, 4) = Word(m, Pml3, 4) /\ Word(n, F(2), 0) = Word(m, F(2), 0)
    BY <1>11, <1>12, Places
  <2>4. \A w \in VPages : Word(n, Leaf(w), w[4]) = Word(m, Leaf(w), w[4])
    <3>1. \A w \in VPages : Leaf(w) \in Pages /\ Leaf(w) # Pml2 /\ w[4] \in Indexes
      BY Addresses, Places DEF Leaf
    <3> QED
      BY <1>11, <1>12, <3>1
  <2> QED
    BY <1>4, <1>11, <2>1, <2>2, <2>3, <2>4 DEF Laid
<1>14. m2 = Put(n, Leaf(v), v[4], Pte(page))
  <2>1. map_page(m, v, page) = Put(n, F(1), Index(v, 1), UserPte(page))
    BY <1>5, <1>6, <1>10 DEF map_page
  <2>2. m2 = map_page(m, v, page)
    BY DEF v
  <2> QED
    BY <1>1, <1>2, <2>1, <2>2 DEF Pte
<1>15. /\ Laid(m2, [e EXCEPT ![v] = page], B \cup {F(1)})
       /\ \A p \in Pages \ {F(1), F(3)} : m2.ram[p] = n.ram[p]
  BY <1>1, <1>13, <1>14, EntryStored
<1>16. \A p \in {F(0), F(4)} : p \in Pages \ {F(1), F(3)} /\ p # Pml2
  BY Places
<1>17. \A p \in {F(0), F(4)} : m2.ram[p] = m.ram[p]
  BY <1>8, <1>11, <1>15, <1>16
<1> QED
  BY <1>15, <1>17 DEF v

(* map_page gives the high addresses theirs, pages 2 and 3.                *)
LEMMA MapFirstHigh ==
  ASSUME NEW m, NEW e \in Frames, NEW B, Laid(m, e, B), F(0) \in B, F(1) \in B,
         F(2) \notin B, F(3) \notin B,
         NEW page \in Nat \ {0}, NEW m2, m2 = map_page(m, HIGH_0, page)
  PROVE  /\ Laid(m2, [e EXCEPT ![HIGH_0] = page], B \cup {F(2), F(3)})
         /\ \A p \in {F(0), F(4)} : m2.ram[p] = m.ram[p]
<1> DEFINE v == HIGH_0
<1>1. /\ v \in VPages /\ v[1] = 0 /\ v[2] = 4 /\ v[3] = 0 /\ v[4] = 0 /\ Leaf(v) = F(3)
  BY Addresses
<1>2. /\ Index(v, 4) = 0 /\ Index(v, 3) = 4 /\ Index(v, 2) = 0 /\ Index(v, 1) = 0
  BY <1>1 DEF Index
<1> HIDE DEF v
<1>3. /\ Pml3 \in Nat /\ F(2) \in Nat \ {0} /\ F(3) \in Nat \ {0} /\ Pml3 \in Pages
      /\ F(2) \in Pages /\ 0 \in Indexes /\ 4 \in Indexes /\ 2 \in 0 .. 4 /\ 3 \in 0 .. 4
      /\ F(2) # F(3) /\ Pml3 # F(2)
  BY Places DEF Pml3
<1>4. /\ Present(UserPte(Pml3)) /\ ~Present(Pte(0)) /\ PageOf(UserPte(Pml3)) = Pml3
      /\ UserPte(F(2)) \in Nat /\ UserPte(F(2)) = Pte(F(2))
      /\ UserPte(F(3)) \in Nat /\ UserPte(F(3)) = Pte(F(3))
  BY <1>3, Ptes, PteFacts DEF Pte
<1>5. Descend([mem |-> m, page |-> Pml4], v, 4) = [mem |-> m, page |-> Pml3]
  <2>1. Word(m, Pml4, Index(v, 4)) = UserPte(Pml3)
    BY <1>2 DEF Laid
  <2> QED
    BY <1>4, <2>1, StepDown
<1>6. PICK a : a = AllocPage(m)
  OBVIOUS
<1>7. /\ a.page = F(2) /\ a.mem \in Memory /\ a.mem.alive = m.alive
      /\ a.mem.bits = m.bits \cup {F(2)} /\ a.mem.ram = m.ram
  <2>1. \A j \in 0 .. 4 : j < 2 => j = 0 \/ j = 1
    OBVIOUS
  <2>2. m \in Memory /\ NextFree(m.bits, 2)
    BY <1>3, <2>1 DEF Laid, NextFree
  <2> QED
    BY <1>6, <2>2, AllocNth
<1>8. PICK n : n = Put(a.mem, Pml3, 4, UserPte(F(2)))
  OBVIOUS
<1>9. Descend([mem |-> m, page |-> Pml3], v, 3) = [mem |-> n, page |-> F(2)]
  <2>1. Word(m, Pml3, Index(v, 3)) = Pte(0)
    BY <1>2 DEF Laid
  <2>2. n = Put(a.mem, Pml3, Index(v, 3), UserPte(F(2)))
    BY <1>2, <1>8
  <2> QED
    BY <1>4, <1>6, <1>7, <2>1, <2>2, StepNew
<1>10. /\ n \in Memory /\ n.bits = a.mem.bits /\ n.alive = a.mem.alive
       /\ Word(n, Pml3, 4) = UserPte(F(2))
       /\ \A p \in Pages, j \in Indexes :
            ~(p = Pml3 /\ j = 4) => Word(n, p, j) = Word(a.mem, p, j)
       /\ \A p \in Pages : p # Pml3 => n.ram[p] = a.mem.ram[p]
  <2>1. a.mem \in Memory /\ Pml3 \in Pages /\ 4 \in Indexes /\ UserPte(F(2)) \in Nat
    BY <1>3, <1>4, <1>7
  <2>2. Stored(a.mem, n, Pml3, 4, UserPte(F(2)))
    BY <1>8, <2>1, PutStored
  <2> QED
    BY <2>2 DEF Stored
<1>11. PICK b : b = AllocPage(n)
  OBVIOUS
<1>12. /\ b.page = F(3) /\ b.mem \in Memory /\ b.mem.alive = n.alive
       /\ b.mem.bits = n.bits \cup {F(3)} /\ b.mem.ram = n.ram
  <2>1. n.bits = B \cup {F(2)}
    BY <1>7, <1>10 DEF Laid
  <2>2. \A j \in 0 .. 4 : j < 3 => j = 0 \/ j = 1 \/ j = 2
    OBVIOUS
  <2>3. NextFree(n.bits, 3)
    BY <1>3, <2>1, <2>2 DEF NextFree
  <2> QED
    BY <1>3, <1>10, <1>11, <2>3, AllocNth
<1>13. PICK o : o = Put(b.mem, F(2), 0, UserPte(F(3)))
  OBVIOUS
<1>14. Descend([mem |-> n, page |-> F(2)], v, 2) = [mem |-> o, page |-> F(3)]
  <2>1. Word(n, F(2), 0) = Word(a.mem, F(2), 0)
    BY <1>3, <1>10
  <2>2. Word(a.mem, F(2), 0) = Word(m, F(2), 0)
    BY <1>7 DEF Word
  <2>3. Word(n, F(2), Index(v, 2)) = Pte(0)
    BY <1>2, <2>1, <2>2 DEF Laid
  <2>4. o = Put(b.mem, F(2), Index(v, 2), UserPte(F(3)))
    BY <1>2, <1>13
  <2> QED
    BY <1>4, <1>11, <1>12, <2>3, <2>4, StepNew
<1>15. /\ o \in Memory /\ o.bits = b.mem.bits /\ o.alive = b.mem.alive
       /\ Word(o, F(2), 0) = UserPte(F(3))
       /\ \A p \in Pages, j \in Indexes :
            ~(p = F(2) /\ j = 0) => Word(o, p, j) = Word(b.mem, p, j)
       /\ \A p \in Pages : p # F(2) => o.ram[p] = b.mem.ram[p]
  <2>1. b.mem \in Memory /\ F(2) \in Pages /\ 0 \in Indexes /\ UserPte(F(3)) \in Nat
    BY <1>3, <1>4, <1>12
  <2>2. Stored(b.mem, o, F(2), 0, UserPte(F(3)))
    BY <1>13, <2>1, PutStored
  <2> QED
    BY <2>2 DEF Stored
<1>16. \A p \in Pages : \A i : Word(a.mem, p, i) = Word(m, p, i) /\ Word(b.mem, p, i) = Word(n, p, i)
  BY <1>7, <1>12 DEF Word
<1>17. Laid(o, e, B \cup {F(2), F(3)})
  <2>1. o.bits = B \cup {F(2), F(3)} /\ o.alive
    BY <1>7, <1>10, <1>12, <1>15 DEF Laid
  <2>2. F(1) \in B \cup {F(2), F(3)} <=> F(1) \in B
    BY Places
  <2>3. /\ Word(o, Pml4, 0) = Word(m, Pml4, 0) /\ Word(o, Pml3, 0) = Word(m, Pml3, 0)
        /\ Word(o, Pml3, 4) = UserPte(F(2)) /\ Word(o, Pml2, 1) = Word(m, Pml2, 1)
    BY <1>10, <1>15, <1>16, Places
  <2>4. \A w \in VPages : Word(o, Leaf(w), w[4]) = Word(m, Leaf(w), w[4])
    <3>1. \A w \in VPages : Leaf(w) \in Pages /\ Leaf(w) # Pml3 /\ Leaf(w) # F(2) /\ w[4] \in Indexes
      BY Addresses, Places DEF Leaf
    <3> QED
      BY <1>10, <1>15, <1>16, <3>1
  <2> QED
    BY <1>4, <1>15, <2>1, <2>2, <2>3, <2>4 DEF Laid
<1>18. m2 = Put(o, Leaf(v), v[4], Pte(page))
  <2>1. map_page(m, v, page) = Put(o, F(3), Index(v, 1), UserPte(page))
    BY <1>5, <1>9, <1>14 DEF map_page
  <2>2. m2 = map_page(m, v, page)
    BY DEF v
  <2> QED
    BY <1>1, <1>2, <2>1, <2>2 DEF Pte
<1>19. /\ Laid(m2, [e EXCEPT ![v] = page], B \cup {F(2), F(3)})
       /\ \A p \in Pages \ {F(1), F(3)} : m2.ram[p] = o.ram[p]
  BY <1>1, <1>17, <1>18, EntryStored
<1>20. \A p \in {F(0), F(4)} : p \in Pages \ {F(1), F(3)} /\ p # Pml3 /\ p # F(2)
  BY Places
<1>21. \A p \in {F(0), F(4)} : m2.ram[p] = m.ram[p]
  BY <1>7, <1>10, <1>12, <1>15, <1>19, <1>20
<1> QED
  BY <1>19, <1>21 DEF v


NextData(B, k) == (k = 0 \/ k = 4) /\ NextFree(B, k)
Cleared(m, a, z) == a = alloc_page(m) /\ z = Zero(a.mem, a.page)
Clears(m, e, B, k, a, z) ==
  e \in Frames /\ Laid(m, e, B) /\ NextData(B, k) /\ Cleared(m, a, z)
Given(m, e, B, k, a, z) ==
  /\ a.page = F(k) /\ Laid(z, e, B \cup {F(k)}) /\ Word(z, F(k), 0) = 0
  /\ \A p \in Pages : p # F(k) => z.ram[p] = m.ram[p]

(* mmap's frame: the first free page, 0 or 4, all zeros.                   *)
LEMMA AllocZero ==
  ASSUME NEW m, NEW e, NEW B, NEW k, NEW a, NEW z, Clears(m, e, B, k, a, z)
  PROVE  Given(m, e, B, k, a, z)
<1>1. /\ (k = 0 \/ k = 4) /\ NextFree(B, k)
      /\ a = alloc_page(m) /\ z = Zero(a.mem, a.page)
      /\ e \in Frames /\ Laid(m, e, B)
  BY DEF Clears, NextData, Cleared
<1>2. m \in Memory /\ m.bits = B /\ m.alive
  BY <1>1 DEF Laid
<1>3. /\ a.page = F(k) /\ a.mem \in Memory /\ a.mem.alive = m.alive
      /\ a.mem.bits = m.bits \cup {F(k)} /\ a.mem.ram = m.ram
  <2>1. NextFree(m.bits, k)
    BY <1>1, <1>2
  <2>2. a = AllocPage(m)
    BY <1>1 DEF alloc_page
  <2> QED
    BY <1>2, <2>1, <2>2, AllocNth
<1>4. /\ F(k) \in Pages /\ F(k) # F(1) /\ F(k) # F(3) /\ k \in 0 .. 4 /\ 0 \in Indexes
  BY <1>1, Places
<1>5. /\ z \in Memory /\ z.bits = a.mem.bits /\ z.alive = a.mem.alive
      /\ z.ram[F(k)] = ZeroContent
      /\ \A p \in Pages : p # F(k) => z.ram[p] = a.mem.ram[p]
  BY <1>1, <1>3, <1>4, ZeroWords
<1>6. z.bits = B \cup {F(k)} /\ z.alive
  BY <1>2, <1>3, <1>5
<1>7. \A p \in Pages \ {F(0), F(4)} : z.ram[p] = m.ram[p]
  BY <1>1, <1>3, <1>5
<1>8. Laid(z, e, B \cup {F(k)})
  <2>1. PICK B2 : B2 = B \cup {F(k)}
    OBVIOUS
  <2>2. /\ z \in Memory /\ z.alive /\ z.bits = B2
        /\ F(1) \in B2 <=> F(1) \in B
        /\ F(3) \in B2 <=> F(3) \in B
    BY <1>4, <1>5, <1>6, <2>1
  <2>3. Laid(z, e, B2)
    BY <1>1, <1>7, <2>2, DataLaid
  <2> QED
    BY <2>1, <2>3
<1> QED
  BY <1>3, <1>4, <1>5, <1>8 DEF Given, Word, ZeroContent

(* munmap frees the frame of a mapped address and clears its entry.        *)
LEMMA MunmapLaid ==
  ASSUME NEW m, NEW e \in Frames, NEW B, Laid(m, e, B), NEW v \in VPages, Leaf(v) \in B,
         e[v] # 0, e[v] \in B \ {F(1), F(3)}, NEW m2, m2 = munmap(m, v)
  PROVE  /\ Laid(m2, [e EXCEPT ![v] = 0], B \ {e[v]})
         /\ \A p \in Pages \ {F(1), F(3)} : m2.ram[p] = m.ram[p]
<1>1. PICK u : u = unmap_page(m, v)
  OBVIOUS
<1>2. /\ u.page = e[v] /\ Laid(u.mem, [e EXCEPT ![v] = 0], B)
      /\ \A p \in Pages \ {F(1), F(3)} : u.mem.ram[p] = m.ram[p]
  BY <1>1, UnmapLaid
<1>3. u.mem \in Memory /\ u.mem.bits = B /\ u.mem.alive
  BY <1>2 DEF Laid
<1>4. m2 = [u.mem EXCEPT !.bits = @ \ {e[v]}]
  BY <1>1, <1>2, <1>3 DEF munmap, free_page, FreePage
<1>5. m2 \in Memory /\ m2.bits = B \ {e[v]} /\ m2.alive /\ m2.ram = u.mem.ram
  BY <1>3, <1>4 DEF Memory
<1>6. [e EXCEPT ![v] = 0] \in Frames
  BY DEF Frames
<1>7. Laid(m2, [e EXCEPT ![v] = 0], B \ {e[v]})
  <2>1. PICK B2, e2, n : B2 = B \ {e[v]} /\ e2 = [e EXCEPT ![v] = 0] /\ n = u.mem
    OBVIOUS
  <2>2. Laid(n, e2, B) /\ e2 \in Frames
    BY <1>2, <1>6, <2>1
  <2>3. m2 \in Memory /\ m2.alive /\ m2.bits = B2
    BY <1>5, <2>1
  <2>4. /\ F(1) \in B2 <=> F(1) \in B
        /\ F(3) \in B2 <=> F(3) \in B
    BY <2>1
  <2>5. \A p \in Pages \ {F(0), F(4)} : m2.ram[p] = n.ram[p]
    BY <1>5, <2>1
  <2>6. Laid(m2, e2, B2)
    BY <2>2, <2>3, <2>4, <2>5, DataLaid
  <2> QED
    BY <2>1, <2>6
<1> QED
  BY <1>2, <1>5, <1>7

(* The program's own stores, in page 0 or 4 of the pool.                   *)
LEMMA DataStored ==
  ASSUME NEW m, NEW e \in Frames, NEW B, Laid(m, e, B), NEW page \in {F(0), F(4)},
         NEW w \in Nat, NEW m2,
         m2 = Put(m, page, 0, w) \/ m2 = [m EXCEPT !.ram[page] = Filled(w)]
  PROVE  /\ Laid(m2, e, B) /\ Word(m2, page, 0) = w
         /\ \A p \in Pages : p # page => m2.ram[p] = m.ram[p]
<1>1. m \in Memory /\ m.bits = B /\ m.alive
  BY DEF Laid
<1>2. page \in Pages /\ 0 \in Indexes
  BY Places
<1>3. /\ m2 \in Memory /\ m2.bits = B /\ m2.alive /\ Word(m2, page, 0) = w
      /\ \A p \in Pages : p # page => m2.ram[p] = m.ram[p]
  <2>1. CASE m2 = Put(m, page, 0, w)
    <3>1. Stored(m, m2, page, 0, w)
      BY <1>1, <1>2, <2>1, PutStored
    <3> QED
      BY <1>1, <3>1 DEF Stored
  <2>2. CASE m2 = [m EXCEPT !.ram[page] = Filled(w)]
    BY <1>1, <1>2, <2>2 DEF Memory, Filled, Word
  <2> QED
    BY <2>1, <2>2
<1>4. \A p \in Pages \ {F(0), F(4)} : m2.ram[p] = m.ram[p]
  BY <1>3
<1> QED
  BY <1>1, <1>3, <1>4, DataLaid

(* free_page of a frame.                                                   *)
LEMMA FreeLaid ==
  ASSUME NEW m, NEW e \in Frames, NEW B, Laid(m, e, B), NEW page \in B \ {F(1), F(3)},
         NEW m2, m2 = free_page(m, page)
  PROVE  Laid(m2, e, B \ {page}) /\ m2.ram = m.ram
<1>1. m \in Memory /\ m.bits = B /\ m.alive
  BY DEF Laid
<1>2. m2 = [m EXCEPT !.bits = @ \ {page}]
  BY <1>1 DEF free_page, FreePage
<1>3. m2 \in Memory /\ m2.bits = B \ {page} /\ m2.alive /\ m2.ram = m.ram
  BY <1>1, <1>2 DEF Memory
<1>4. (F(1) \in B \ {page} <=> F(1) \in B) /\ (F(3) \in B \ {page} <=> F(3) \in B)
  OBVIOUS
<1>5. \A p \in Pages \ {F(0), F(4)} : m2.ram[p] = m.ram[p]
  BY <1>3
<1> QED
  BY <1>3, <1>4, <1>5, DataLaid
-------------------------------------------------------------------------------
(* The pages allocated and the frame of each address at position k; high   *)
(* and late tell whether HIGH_0 and HIGH_1 are mapped.                     *)
Held(k, high, late) ==
  (IF k \in {2, 3, 4, 6, 7} \cup 9 .. 19 \cup 21 .. 32 \/ high THEN {F(0)} ELSE {})
  \cup (IF k > 1 THEN {F(1)} ELSE {})
  \cup (IF k \in 22 .. 31 \/ high THEN {F(2)} ELSE {})
  \cup (IF high THEN {F(3)} ELSE {}) \cup (IF late THEN {F(4)} ELSE {})

FrameLow0(k) == IF k \in {2, 3, 4, 6, 7} \cup 10 .. 17 \cup 23 .. 26 THEN F(0)
                ELSE IF k \in 29 .. 31 THEN F(2) ELSE 0
FrameLow1(k) == IF k \in 11 .. 18 \cup 30 .. 32 THEN F(0)
                ELSE IF k \in 25 .. 27 THEN F(2) ELSE 0
FrameHigh0(high) == IF high THEN F(0) ELSE 0
FrameHigh1(late) == IF late THEN F(4) ELSE 0

FrameAt(k, high, late) ==
  [v \in VPages |-> CASE v = LOW_0  -> FrameLow0(k)
                      [] v = LOW_1  -> FrameLow1(k)
                      [] v = HIGH_0 -> FrameHigh0(high)
                      [] v = HIGH_1 -> FrameHigh1(late)]

(* The frames of a position, address by address.                           *)
LEMMA FramesAre ==
  ASSUME NEW k \in 1 .. 38, NEW high \in BOOLEAN, NEW late \in BOOLEAN
  PROVE  /\ FrameAt(k, high, late) \in Frames
         /\ FrameAt(k, high, late)[LOW_0] = FrameLow0(k)
         /\ FrameAt(k, high, late)[LOW_1] = FrameLow1(k)
         /\ FrameAt(k, high, late)[HIGH_0] = FrameHigh0(high)
         /\ FrameAt(k, high, late)[HIGH_1] = FrameHigh1(late)
<1>1. /\ F(0) \in Nat /\ F(2) \in Nat /\ F(4) \in Nat
  BY Places
<1>2. /\ FrameLow0(k) \in Nat /\ FrameLow1(k) \in Nat
      /\ FrameHigh0(high) \in Nat /\ FrameHigh1(late) \in Nat
  BY <1>1 DEF FrameLow0, FrameLow1, FrameHigh0, FrameHigh1
<1>3. /\ LOW_0 # LOW_1 /\ LOW_0 # HIGH_0 /\ LOW_0 # HIGH_1 /\ LOW_1 # HIGH_0
      /\ LOW_1 # HIGH_1 /\ HIGH_0 # HIGH_1
  BY Addresses
<1>4. VPages = {LOW_0, LOW_1, HIGH_0, HIGH_1}
  BY DEF VPages
<1> QED
  BY <1>2, <1>3, <1>4 DEF FrameAt, Frames

(* Frames that agree but for one address.                                  *)
LEMMA OneMoved ==
  ASSUME NEW e \in Frames, NEW e2 \in Frames, NEW v \in VPages,
         \A w \in VPages : w # v => e[w] = e2[w]
  PROVE  [e EXCEPT ![v] = e2[v]] = e2
BY DEF Frames

(* Frames that agree on every address.                                     *)
LEMMA NoneMoved ==
  ASSUME NEW e \in Frames, NEW e2 \in Frames, \A w \in VPages : e[w] = e2[w]
  PROVE  e = e2
BY DEF Frames

(* e2 is e with the frame f for v.                                         *)
Moved(e, v, f, e2) == e \in Frames /\ v \in VPages /\ e2 = [e EXCEPT ![v] = f]

(* One address given another frame, from one position to another.          *)
LEMMA Low0Moved ==
  ASSUME NEW k \in 1 .. 38, NEW k2 \in 1 .. 38, NEW high \in BOOLEAN, NEW late \in BOOLEAN,
         FrameLow1(k) = FrameLow1(k2), NEW e, e = FrameAt(k, high, late),
         NEW e2, e2 = FrameAt(k2, high, late), NEW f, f = FrameLow0(k2)
  PROVE  Moved(e, LOW_0, f, e2)
<1>1. /\ e \in Frames /\ e[LOW_0] = FrameLow0(k) /\ e[LOW_1] = FrameLow1(k)
      /\ e[HIGH_0] = FrameHigh0(high) /\ e[HIGH_1] = FrameHigh1(late)
  BY FramesAre
<1>2. /\ e2 \in Frames /\ e2[LOW_0] = FrameLow0(k2) /\ e2[LOW_1] = FrameLow1(k2)
      /\ e2[HIGH_0] = FrameHigh0(high) /\ e2[HIGH_1] = FrameHigh1(late)
  BY FramesAre
<1>3. VPages = {LOW_0, LOW_1, HIGH_0, HIGH_1}
  BY DEF VPages
<1>4. \A w \in VPages : w # LOW_0 => e[w] = e2[w]
  BY <1>1, <1>2, <1>3
<1>5. e \in Frames /\ e2 \in Frames /\ LOW_0 \in VPages /\ e2[LOW_0] = f
  BY <1>1, <1>2, Addresses
<1> QED
  BY <1>4, <1>5, OneMoved DEF Moved

(* The same of LOW_1.                                                      *)
LEMMA Low1Moved ==
  ASSUME NEW k \in 1 .. 38, NEW k2 \in 1 .. 38, NEW high \in BOOLEAN, NEW late \in BOOLEAN,
         FrameLow0(k) = FrameLow0(k2), NEW e, e = FrameAt(k, high, late),
         NEW e2, e2 = FrameAt(k2, high, late), NEW f, f = FrameLow1(k2)
  PROVE  Moved(e, LOW_1, f, e2)
<1>1. /\ e \in Frames /\ e[LOW_0] = FrameLow0(k) /\ e[LOW_1] = FrameLow1(k)
      /\ e[HIGH_0] = FrameHigh0(high) /\ e[HIGH_1] = FrameHigh1(late)
  BY FramesAre
<1>2. /\ e2 \in Frames /\ e2[LOW_0] = FrameLow0(k2) /\ e2[LOW_1] = FrameLow1(k2)
      /\ e2[HIGH_0] = FrameHigh0(high) /\ e2[HIGH_1] = FrameHigh1(late)
  BY FramesAre
<1>3. VPages = {LOW_0, LOW_1, HIGH_0, HIGH_1}
  BY DEF VPages
<1>4. \A w \in VPages : w # LOW_1 => e[w] = e2[w]
  BY <1>1, <1>2, <1>3
<1>5. e \in Frames /\ e2 \in Frames /\ LOW_1 \in VPages /\ e2[LOW_1] = f
  BY <1>1, <1>2, Addresses
<1> QED
  BY <1>4, <1>5, OneMoved DEF Moved

(* The same of HIGH_0, mapped by a fault.                                  *)
LEMMA High0Moved ==
  ASSUME NEW k \in 1 .. 38, NEW high \in BOOLEAN, NEW high2 \in BOOLEAN, NEW late \in BOOLEAN,
         NEW e, e = FrameAt(k, high, late), NEW e2, e2 = FrameAt(k, high2, late),
         NEW f, f = FrameHigh0(high2)
  PROVE  Moved(e, HIGH_0, f, e2)
<1>1. /\ e \in Frames /\ e[LOW_0] = FrameLow0(k) /\ e[LOW_1] = FrameLow1(k)
      /\ e[HIGH_0] = FrameHigh0(high) /\ e[HIGH_1] = FrameHigh1(late)
  BY FramesAre
<1>2. /\ e2 \in Frames /\ e2[LOW_0] = FrameLow0(k) /\ e2[LOW_1] = FrameLow1(k)
      /\ e2[HIGH_0] = FrameHigh0(high2) /\ e2[HIGH_1] = FrameHigh1(late)
  BY FramesAre
<1>3. VPages = {LOW_0, LOW_1, HIGH_0, HIGH_1}
  BY DEF VPages
<1>4. \A w \in VPages : w # HIGH_0 => e[w] = e2[w]
  BY <1>1, <1>2, <1>3
<1>5. e \in Frames /\ e2 \in Frames /\ HIGH_0 \in VPages /\ e2[HIGH_0] = f
  BY <1>1, <1>2, Addresses
<1> QED
  BY <1>4, <1>5, OneMoved DEF Moved

(* The same of HIGH_1, mapped by a fault and unmapped at 36.               *)
LEMMA High1Moved ==
  ASSUME NEW k \in 1 .. 38, NEW k2 \in 1 .. 38, NEW high \in BOOLEAN, NEW late \in BOOLEAN,
         NEW late2 \in BOOLEAN, FrameLow0(k) = FrameLow0(k2), FrameLow1(k) = FrameLow1(k2),
         NEW e, e = FrameAt(k, high, late), NEW e2, e2 = FrameAt(k2, high, late2),
         NEW f, f = FrameHigh1(late2)
  PROVE  Moved(e, HIGH_1, f, e2)
<1>1. /\ e \in Frames /\ e[LOW_0] = FrameLow0(k) /\ e[LOW_1] = FrameLow1(k)
      /\ e[HIGH_0] = FrameHigh0(high) /\ e[HIGH_1] = FrameHigh1(late)
  BY FramesAre
<1>2. /\ e2 \in Frames /\ e2[LOW_0] = FrameLow0(k2) /\ e2[LOW_1] = FrameLow1(k2)
      /\ e2[HIGH_0] = FrameHigh0(high) /\ e2[HIGH_1] = FrameHigh1(late2)
  BY FramesAre
<1>3. VPages = {LOW_0, LOW_1, HIGH_0, HIGH_1}
  BY DEF VPages
<1>4. \A w \in VPages : w # HIGH_1 => e[w] = e2[w]
  BY <1>1, <1>2, <1>3
<1>5. e \in Frames /\ e2 \in Frames /\ HIGH_1 \in VPages /\ e2[HIGH_1] = f
  BY <1>1, <1>2, Addresses
<1> QED
  BY <1>4, <1>5, OneMoved DEF Moved

(* Two positions with the same frames.                                     *)
LEMMA FramesKept ==
  ASSUME NEW k \in 1 .. 38, NEW k2 \in 1 .. 38, NEW high \in BOOLEAN, NEW late \in BOOLEAN,
         FrameLow0(k) = FrameLow0(k2), FrameLow1(k) = FrameLow1(k2)
  PROVE  FrameAt(k, high, late) = FrameAt(k2, high, late)
<1>1. PICK e, e2 : e = FrameAt(k, high, late) /\ e2 = FrameAt(k2, high, late)
  OBVIOUS
<1>2. /\ e \in Frames /\ e[LOW_0] = FrameLow0(k) /\ e[LOW_1] = FrameLow1(k)
      /\ e[HIGH_0] = FrameHigh0(high) /\ e[HIGH_1] = FrameHigh1(late)
  BY <1>1, FramesAre
<1>3. /\ e2 \in Frames /\ e2[LOW_0] = FrameLow0(k2) /\ e2[LOW_1] = FrameLow1(k2)
      /\ e2[HIGH_0] = FrameHigh0(high) /\ e2[HIGH_1] = FrameHigh1(late)
  BY <1>1, FramesAre
<1>4. VPages = {LOW_0, LOW_1, HIGH_0, HIGH_1}
  BY DEF VPages
<1>5. \A w \in VPages : e[w] = e2[w]
  BY <1>2, <1>3, <1>4
<1> QED
  BY <1>1, <1>2, <1>3, <1>5, NoneMoved
-------------------------------------------------------------------------------
(* What the first words of the data pages hold at position k.              *)
Words(k, m, high, late) ==
  /\ k \in {3, 4} => Word(m, F(0), 0) = 256
  /\ k \in 6 .. 11 => Word(m, F(0), 0) = 0
  /\ k \in 12 .. 14 => Word(m, F(0), 0) = 42
  /\ k \in {15, 16} => Word(m, F(0), 0) = 18
  /\ k = 33 /\ high => Word(m, F(0), 0) = 0
  /\ k = 34 /\ late => Word(m, F(4), 0) = 0
  /\ k = 35 => Word(m, F(4), 0) = 23

(* The memory m at position k.  HIGH_0 and HIGH_1 are mapped by a fault    *)
(* before the access at 33, 34 or 37 is tried again.                       *)
Stage(k, m, high, late) ==
  /\ high \in BOOLEAN /\ (k >= 34 => high) /\ (high => k >= 33)
  /\ late \in BOOLEAN /\ (k \in {35, 36} => late) /\ (late => k >= 34)
  /\ Laid(m, FrameAt(k, high, late), Held(k, high, late))
  /\ Words(k, m, high, late)

(* The next position.                                                       *)
After(k, k2) == k \in 1 .. 37 /\ k2 = k + 1

(* At the positions of the low addresses no high one is mapped.            *)
LEMMA StageLow ==
  ASSUME NEW k \in 1 .. 32, NEW m, NEW high, NEW late, Stage(k, m, high, late)
  PROVE  high = FALSE /\ late = FALSE /\ high \in BOOLEAN /\ late \in BOOLEAN
BY DEF Stage

(* mmap(LOW_0), at positions 1 and 5.                                      *)
LEMMA MmapStage ==
  ASSUME NEW k, k \in {1, 5}, NEW k2, After(k, k2), NEW m, NEW high, NEW late,
         Stage(k, m, high, late), NEW m2, m2 = mmap(m, LOW_0)
  PROVE  Stage(k2, m2, high, late)
<1>1. PICK e, e2, B, page : /\ e = FrameAt(k, high, late) /\ e2 = FrameAt(k2, high, late)
                            /\ B = Held(k, high, late) /\ page = F(0)
  OBVIOUS
<1>2. k \in 1 .. 38 /\ k2 \in 1 .. 38 /\ high \in BOOLEAN /\ late \in BOOLEAN
  BY DEF Stage, After
<1>3. Laid(m, e, B) /\ e \in Frames
  BY <1>1, <1>2, FramesAre DEF Stage
<1>4. high = FALSE /\ late = FALSE
  BY DEF Stage
<1>5. FrameLow0(k2) = F(0) /\ FrameLow1(k) = FrameLow1(k2)
  BY DEF After, FrameLow0, FrameLow1
<1>6. page = FrameLow0(k2) /\ FrameLow1(k) = FrameLow1(k2)
  BY <1>1, <1>5
<1>7. [e EXCEPT ![LOW_0] = page] = e2
  <2>1. Moved(e, LOW_0, page, e2)
    BY <1>1, <1>2, <1>6, Low0Moved
  <2> QED
    BY <2>1 DEF Moved
<1>8. /\ B = IF k = 1 THEN {} ELSE {F(1)}
      /\ Held(k2, high, late) = {F(0), F(1)}
  BY <1>1, <1>4 DEF After, Held
<1>9. NextFree(B, 0)
  BY <1>8, Places DEF NextFree
<1>10. PICK a, z : Cleared(m, a, z)
  BY DEF Cleared
<1>11. a.page = F(0) /\ Laid(z, e, B \cup {F(0)}) /\ Word(z, F(0), 0) = 0
  <2>1. PICK n : n = 0
    OBVIOUS
  <2>2. NextData(B, n)
    BY <1>9, <2>1 DEF NextData
  <2>3. a.page = F(n) /\ Laid(z, e, B \cup {F(n)}) /\ Word(z, F(n), 0) = 0
    <3>1. Clears(m, e, B, n, a, z)
      BY <1>3, <1>10, <2>2 DEF Clears
    <3>2. Given(m, e, B, n, a, z)
      BY <3>1, AllocZero
    <3> QED
      BY <3>2 DEF Given
  <2> QED
    BY <2>1, <2>3
<1>12. page \in Nat \ {0}
  BY <1>1, Places
<1>13. m2 = map_page(z, LOW_0, page)
  BY <1>1, <1>10, <1>11 DEF mmap, Cleared
<1>14. Laid(m2, e2, {F(0), F(1)}) /\ m2.ram[F(0)] = z.ram[F(0)]
  <2>1. CASE k = 1
    <3>1. PICK C : C = {F(0)}
      OBVIOUS
    <3>2. F(0) \in C /\ F(1) \notin C /\ C \cup {F(1)} = {F(0), F(1)} /\ B \cup {F(0)} = C
      BY <1>8, <2>1, <3>1, Places
    <3>3. Laid(z, e, C)
      BY <1>11, <3>2
    <3>4. /\ Laid(m2, [e EXCEPT ![LOW_0] = page], C \cup {F(1)})
          /\ \A p \in {F(0), F(4)} : m2.ram[p] = z.ram[p]
      BY <1>3, <1>12, <1>13, <3>2, <3>3, MapFirstLow
    <3> QED
      BY <1>7, <3>2, <3>4
  <2>2. CASE k = 5
    <3>1. PICK C : C = {F(0), F(1)}
      OBVIOUS
    <3>2. B \cup {F(0)} = C /\ LOW_0 \in VPages /\ Leaf(LOW_0) \in C
      BY <1>8, <2>2, <3>1, Addresses
    <3>3. Laid(z, e, C)
      BY <1>11, <3>2
    <3>4. /\ Laid(m2, [e EXCEPT ![LOW_0] = page], C)
          /\ \A p \in Pages \ {F(1), F(3)} : m2.ram[p] = z.ram[p]
      BY <1>3, <1>12, <1>13, <3>2, <3>3, MapLaid
    <3>5. F(0) \in Pages \ {F(1), F(3)}
      BY Places
    <3> QED
      BY <1>7, <3>1, <3>4, <3>5
  <2> QED
    BY <2>1, <2>2
<1>15. Word(m2, F(0), 0) = 0
  BY <1>11, <1>14 DEF Word
<1>16. Words(k2, m2, high, late)
  BY <1>4, <1>15 DEF After, Words
<1>17. Laid(m2, FrameAt(k2, high, late), Held(k2, high, late))
  BY <1>1, <1>8, <1>14
<1> QED
  BY <1>2, <1>4, <1>16, <1>17 DEF After, Stage


(* The frame of a low address at position k, and that it alone changes     *)
(* from k to k2.                                                           *)
IsLow(v) == v = LOW_0 \/ v = LOW_1
FrameLow(v, k) == IF v = LOW_0 THEN FrameLow0(k) ELSE FrameLow1(k)
Others(v, k, k2) ==
  IF v = LOW_0 THEN FrameLow1(k) = FrameLow1(k2) ELSE FrameLow0(k) = FrameLow0(k2)

Shift(k, k2, high, late, v) ==
  /\ k \in 1 .. 38 /\ k2 \in 1 .. 38 /\ high \in BOOLEAN /\ late \in BOOLEAN
  /\ IsLow(v) /\ Others(v, k, k2)

(* Low0Moved and Low1Moved, for an address of the two.                     *)
LEMMA LowMoved ==
  ASSUME NEW k, NEW k2, NEW high, NEW late, NEW v, Shift(k, k2, high, late, v)
  PROVE  /\ Moved(FrameAt(k, high, late), v, FrameLow(v, k2), FrameAt(k2, high, late))
         /\ Leaf(v) = F(1) /\ FrameAt(k, high, late)[v] = FrameLow(v, k)
<1>1. /\ k \in 1 .. 38 /\ k2 \in 1 .. 38 /\ high \in BOOLEAN /\ late \in BOOLEAN
      /\ IsLow(v) /\ Others(v, k, k2)
  BY DEF Shift
<1>2. PICK e, e2, f : /\ e = FrameAt(k, high, late) /\ e2 = FrameAt(k2, high, late)
                      /\ f = FrameLow(v, k2)
  OBVIOUS
<1>3. e \in Frames /\ e[LOW_0] = FrameLow0(k) /\ e[LOW_1] = FrameLow1(k)
  BY <1>1, <1>2, FramesAre
<1>4. LOW_0 # LOW_1 /\ v \in VPages /\ Leaf(v) = F(1)
  BY <1>1, Addresses DEF IsLow
<1>5. CASE v = LOW_0
  <2>1. f = FrameLow0(k2) /\ FrameLow1(k) = FrameLow1(k2)
    BY <1>1, <1>2, <1>5 DEF FrameLow, Others
  <2>2. Moved(e, LOW_0, f, e2)
    BY <1>1, <1>2, <2>1, Low0Moved
  <2> QED
    BY <1>2, <1>3, <1>4, <1>5, <2>2 DEF FrameLow
<1>6. CASE v = LOW_1
  <2>1. f = FrameLow1(k2) /\ FrameLow0(k) = FrameLow0(k2)
    BY <1>1, <1>2, <1>4, <1>6 DEF FrameLow, Others
  <2>2. Moved(e, LOW_1, f, e2)
    BY <1>1, <1>2, <2>1, Low1Moved
  <2> QED
    BY <1>2, <1>3, <1>4, <1>6, <2>2 DEF FrameLow
<1> QED
  BY <1>1, <1>5, <1>6 DEF IsLow

(* munmap, at positions 4, 7, 31 and 32.                                   *)
LEMMA MunmapStage ==
  ASSUME NEW k, NEW v, (k \in {4, 7, 31} /\ v = LOW_0) \/ (k = 32 /\ v = LOW_1),
         NEW k2, After(k, k2), NEW m, NEW high, NEW late, Stage(k, m, high, late),
         NEW m2, m2 = munmap(m, v)
  PROVE  Stage(k2, m2, high, late)
<1>1. PICK e, e2, B, page, zero :
        /\ e = FrameAt(k, high, late) /\ e2 = FrameAt(k2, high, late)
        /\ B = Held(k, high, late) /\ page = (IF k = 31 THEN F(2) ELSE F(0)) /\ zero = 0
  OBVIOUS
<1>2. k \in 1 .. 38 /\ k2 \in 1 .. 38 /\ high \in BOOLEAN /\ late \in BOOLEAN
  BY DEF Stage, After
<1>3. Laid(m, e, B) /\ Words(k, m, high, late)
  BY <1>1 DEF Stage
<1>4. high = FALSE /\ late = FALSE
  BY DEF Stage
<1>5. LOW_0 # LOW_1
  BY Addresses
<1>6. /\ FrameLow(v, k) = page /\ zero = FrameLow(v, k2) /\ Others(v, k, k2)
      /\ IsLow(v)
  BY <1>1, <1>5 DEF IsLow, After, FrameLow, Others, FrameLow0, FrameLow1
<1>7. /\ [e EXCEPT ![v] = 0] = e2 /\ v \in VPages /\ Leaf(v) = F(1)
      /\ e \in Frames /\ e[v] = page
  <2>1. /\ Moved(FrameAt(k, high, late), v, FrameLow(v, k2), FrameAt(k2, high, late))
        /\ Leaf(v) = F(1) /\ FrameAt(k, high, late)[v] = FrameLow(v, k)
    <3>1. Shift(k, k2, high, late, v)
      BY <1>2, <1>6 DEF Shift
    <3> QED
      BY <3>1, LowMoved
  <2>2. Moved(e, v, zero, e2) /\ Leaf(v) = F(1) /\ e[v] = FrameLow(v, k)
    BY <1>1, <1>6, <2>1
  <2> QED
    BY <1>1, <1>6, <2>2 DEF Moved
<1>8. /\ F(0) # 0 /\ F(2) # 0 /\ F(0) # F(1) /\ F(0) # F(2) /\ F(0) # F(3) /\ F(2) # F(1)
      /\ F(2) # F(3) /\ F(0) \in Pages
  BY Places
<1>9. /\ page # 0 /\ page \in B \ {F(1), F(3)} /\ F(1) \in B
      /\ B \ {page} = Held(k2, high, late)
  BY <1>1, <1>4, <1>8 DEF After, Held
<1>10. /\ e[v] # 0 /\ e[v] \in B \ {F(1), F(3)} /\ Leaf(v) \in B
       /\ e \in Frames /\ v \in VPages
  BY <1>7, <1>9
<1>11. /\ Laid(m2, [e EXCEPT ![v] = 0], B \ {e[v]})
       /\ \A p \in Pages \ {F(1), F(3)} : m2.ram[p] = m.ram[p]
  BY <1>3, <1>10, MunmapLaid
<1>12. Words(k2, m2, high, late)
  <2>1. F(0) \in Pages \ {F(1), F(3)}
    BY <1>8
  <2>2. Word(m2, F(0), 0) = Word(m, F(0), 0)
    BY <1>11, <2>1 DEF Word
  <2> QED
    BY <1>3, <1>4, <2>2 DEF After, Words
<1>13. Laid(m2, FrameAt(k2, high, late), Held(k2, high, late))
  <2>1. B \ {e[v]} = Held(k2, high, late) /\ [e EXCEPT ![v] = 0] = FrameAt(k2, high, late)
    BY <1>1, <1>7, <1>9
  <2> QED
    BY <1>11, <2>1
<1> QED
  BY <1>2, <1>4, <1>12, <1>13 DEF After, Stage

(* munmap(HIGH_1), at position 36.                                         *)
LEMMA MunmapHighStage ==
  ASSUME NEW k, k \in {36}, NEW k2, After(k, k2), NEW m, NEW high, NEW late,
         Stage(k, m, high, late), NEW late2, late2 = FALSE, NEW m2, m2 = munmap(m, HIGH_1)
  PROVE  Stage(k2, m2, high, late2)
<1>1. PICK e, e2, B, page, zero :
        /\ e = FrameAt(k, high, late) /\ e2 = FrameAt(k2, high, late2)
        /\ B = Held(k, high, late) /\ page = F(4) /\ zero = 0
  OBVIOUS
<1>2. /\ k \in 1 .. 38 /\ k2 \in 1 .. 38 /\ high \in BOOLEAN /\ late \in BOOLEAN
      /\ late2 \in BOOLEAN
  <2>1. late2 \in BOOLEAN
    OBVIOUS
  <2>2. k \in 1 .. 38 /\ k2 \in 1 .. 38
    BY DEF After
  <2> QED
    BY <2>1, <2>2 DEF Stage
<1>3. Laid(m, e, B)
  BY <1>1 DEF Stage
<1>4. high = TRUE /\ late = TRUE
  BY DEF Stage
<1>5. /\ FrameLow0(k) = FrameLow0(k2) /\ FrameLow1(k) = FrameLow1(k2)
      /\ FrameHigh1(late) = page /\ zero = FrameHigh1(late2)
  BY <1>1, <1>4 DEF After, FrameLow0, FrameLow1, FrameHigh1
<1>6. Moved(e, HIGH_1, zero, e2)
  <2>1. PICK l2 : l2 = late2 /\ l2 \in BOOLEAN
    BY <1>2
  <2>2. e2 = FrameAt(k2, high, l2) /\ zero = FrameHigh1(l2)
    BY <1>1, <1>5, <2>1
  <2>3. e = FrameAt(k, high, late)
    BY <1>1
  <2> QED
    BY <1>2, <1>5, <2>1, <2>2, <2>3, High1Moved
<1>7. e \in Frames /\ e[HIGH_1] = page /\ HIGH_1 \in VPages /\ Leaf(HIGH_1) = F(3)
  BY <1>1, <1>2, <1>5, FramesAre, Addresses
<1>8. F(4) # 0 /\ F(4) # F(0) /\ F(4) # F(1) /\ F(4) # F(2) /\ F(4) # F(3)
  BY Places
<1>9. page \in B \ {F(1), F(3)} /\ F(3) \in B /\ B \ {page} = Held(k2, high, late2)
  BY <1>1, <1>4, <1>8 DEF After, Held
<1>10. e[HIGH_1] # 0 /\ e[HIGH_1] \in B \ {F(1), F(3)} /\ Leaf(HIGH_1) \in B
  BY <1>1, <1>7, <1>8, <1>9
<1>11. Laid(m2, [e EXCEPT ![HIGH_1] = 0], B \ {e[HIGH_1]})
  BY <1>3, <1>7, <1>10, MunmapLaid
<1>12. Laid(m2, FrameAt(k2, high, late2), Held(k2, high, late2))
  BY <1>1, <1>6, <1>7, <1>9, <1>11 DEF Moved
<1>13. Words(k2, m2, high, late2)
  BY DEF After, Words
<1>14. k2 = 37
  BY DEF After
<1> QED
  BY <1>2, <1>4, <1>12, <1>13, <1>14 DEF Stage
-------------------------------------------------------------------------------
(* alloc_page, when page 0 or page 2 is the next.                          *)
LEMMA AllocLaid ==
  ASSUME NEW m, NEW e \in Frames, NEW B, Laid(m, e, B), NEW n, n = 0 \/ n = 2, NextFree(B, n),
         NEW a, a = alloc_page(m)
  PROVE  a.page = F(n) /\ Laid(a.mem, e, B \cup {F(n)}) /\ a.mem.ram = m.ram
<1>1. m \in Memory /\ NextFree(m.bits, n) /\ a = AllocPage(m)
  BY DEF Laid, alloc_page
<1>2. /\ a.page = F(n) /\ a.mem \in Memory /\ a.mem.alive = m.alive
      /\ a.mem.bits = m.bits \cup {F(n)} /\ a.mem.ram = m.ram
  BY <1>1, AllocNth
<1>3. \A p, i : Word(a.mem, p, i) = Word(m, p, i)
  BY <1>2 DEF Word
<1>4. F(n) # F(1) /\ F(n) # F(3)
  BY Places
<1>5. (F(1) \in B \cup {F(n)} <=> F(1) \in B) /\ (F(3) \in B \cup {F(n)} <=> F(3) \in B)
  BY <1>4
<1> QED
  BY <1>2, <1>3, <1>5 DEF Laid

(* alloc_page, at positions 8, 20 and 21.                                  *)
LEMMA AllocStage ==
  ASSUME NEW k, NEW n, (k \in {8, 20} /\ n = 0) \/ (k = 21 /\ n = 2), NEW k2, After(k, k2),
         NEW m, NEW high, NEW late, Stage(k, m, high, late), NEW a, a = alloc_page(m)
  PROVE  Stage(k2, a.mem, high, late) /\ a.page = F(n)
<1>1. PICK e, e2, B : /\ e = FrameAt(k, high, late) /\ e2 = FrameAt(k2, high, late)
                      /\ B = Held(k, high, late)
  OBVIOUS
<1>2. k \in 1 .. 38 /\ k2 \in 1 .. 38 /\ high \in BOOLEAN /\ late \in BOOLEAN
  BY DEF Stage, After
<1>3. Laid(m, e, B) /\ Words(k, m, high, late) /\ e \in Frames
  BY <1>1, <1>2, FramesAre DEF Stage
<1>4. high = FALSE /\ late = FALSE
  BY DEF Stage
<1>5. FrameLow0(k) = FrameLow0(k2) /\ FrameLow1(k) = FrameLow1(k2)
  BY DEF After, FrameLow0, FrameLow1
<1>6. e = e2
  <2>1. FrameAt(k, high, late) = FrameAt(k2, high, late)
    BY <1>2, <1>5, FramesKept
  <2> QED
    BY <1>1, <2>1
<1>7. /\ B = IF k = 21 THEN {F(0), F(1)} ELSE {F(1)}
      /\ Held(k2, high, late) = IF k = 21 THEN {F(0), F(1), F(2)} ELSE {F(0), F(1)}
  BY <1>1, <1>4 DEF After, Held
<1>8. NextFree(B, n) /\ Held(k2, high, late) = B \cup {F(n)}
  BY <1>7, Places DEF NextFree
<1>9. n = 0 \/ n = 2
  OBVIOUS
<1>10. a.page = F(n) /\ Laid(a.mem, e, B \cup {F(n)}) /\ a.mem.ram = m.ram
  BY <1>3, <1>8, <1>9, AllocLaid
<1>11. Words(k2, a.mem, high, late)
  BY <1>3, <1>4, <1>10 DEF After, Words, Word
<1>12. Laid(a.mem, FrameAt(k2, high, late), Held(k2, high, late))
  BY <1>1, <1>6, <1>8, <1>10
<1> QED
  BY <1>2, <1>4, <1>10, <1>11, <1>12 DEF After, Stage

(* map_page, at positions 9, 10, 22, 24, 28 and 29.                        *)
LEMMA MapStage ==
  ASSUME NEW k, NEW v, NEW page,
         \/ k \in {9, 22} /\ v = LOW_0 /\ page = F(0)
         \/ k \in {10, 29} /\ v = LOW_1 /\ page = F(0)
         \/ k = 24 /\ v = LOW_1 /\ page = F(2)
         \/ k = 28 /\ v = LOW_0 /\ page = F(2),
         NEW k2, After(k, k2), NEW m, NEW high, NEW late, Stage(k, m, high, late),
         NEW m2, m2 = map_page(m, v, page)
  PROVE  Stage(k2, m2, high, late)
<1>1. PICK e, e2, B : /\ e = FrameAt(k, high, late) /\ e2 = FrameAt(k2, high, late)
                      /\ B = Held(k, high, late)
  OBVIOUS
<1>2. k \in 1 .. 38 /\ k2 \in 1 .. 38 /\ high \in BOOLEAN /\ late \in BOOLEAN
  BY DEF Stage, After
<1>3. Laid(m, e, B) /\ Words(k, m, high, late)
  BY <1>1 DEF Stage
<1>4. high = FALSE /\ late = FALSE
  BY DEF Stage
<1>5. /\ page \in Nat \ {0} /\ LOW_0 # LOW_1
      /\ F(0) \in Pages \ {F(1), F(3)}
  BY Places, Addresses
<1>6. /\ page = FrameLow(v, k2) /\ Others(v, k, k2)
      /\ IsLow(v)
  BY <1>5 DEF IsLow, After, FrameLow, Others, FrameLow0, FrameLow1
<1>7. /\ [e EXCEPT ![v] = page] = e2 /\ v \in VPages /\ Leaf(v) = F(1) /\ e \in Frames
  <2>1. /\ Moved(FrameAt(k, high, late), v, FrameLow(v, k2), FrameAt(k2, high, late))
        /\ Leaf(v) = F(1) /\ FrameAt(k, high, late)[v] = FrameLow(v, k)
    <3>1. Shift(k, k2, high, late, v)
      BY <1>2, <1>6 DEF Shift
    <3> QED
      BY <3>1, LowMoved
  <2>2. Moved(e, v, page, e2) /\ Leaf(v) = F(1)
    BY <1>1, <1>6, <2>1
  <2> QED
    BY <2>2 DEF Moved
<1>8. F(1) \in B /\ B = Held(k2, high, late)
  BY <1>1, <1>4 DEF After, Held
<1>9. Leaf(v) \in B /\ e \in Frames /\ v \in VPages
  BY <1>7, <1>8
<1>10. /\ Laid(m2, [e EXCEPT ![v] = page], B)
       /\ \A p \in Pages \ {F(1), F(3)} : m2.ram[p] = m.ram[p]
  BY <1>3, <1>5, <1>9, MapLaid
<1>11. Word(m2, F(0), 0) = Word(m, F(0), 0)
  BY <1>5, <1>10 DEF Word
<1>12. Words(k2, m2, high, late)
  BY <1>3, <1>4, <1>11 DEF After, Words
<1>13. Laid(m2, FrameAt(k2, high, late), Held(k2, high, late))
  BY <1>1, <1>7, <1>8, <1>10
<1> QED
  BY <1>2, <1>4, <1>12, <1>13 DEF After, Stage

(* unmap_page, at positions 17, 18, 26 and 27.                             *)
LEMMA UnmapStage ==
  ASSUME NEW k, NEW v, (k \in {17, 26} /\ v = LOW_0) \/ (k \in {18, 27} /\ v = LOW_1),
         NEW k2, After(k, k2), NEW m, NEW high, NEW late, Stage(k, m, high, late),
         NEW u, u = unmap_page(m, v)
  PROVE  Stage(k2, u.mem, high, late)
<1>1. PICK e, e2, B, zero : /\ e = FrameAt(k, high, late) /\ e2 = FrameAt(k2, high, late)
                            /\ B = Held(k, high, late) /\ zero = 0
  OBVIOUS
<1>2. k \in 1 .. 38 /\ k2 \in 1 .. 38 /\ high \in BOOLEAN /\ late \in BOOLEAN
  BY DEF Stage, After
<1>3. Laid(m, e, B)
  BY <1>1 DEF Stage
<1>4. high = FALSE /\ late = FALSE
  BY DEF Stage
<1>5. F(0) # 0 /\ F(2) # 0 /\ LOW_0 # LOW_1
  BY Places, Addresses
<1>6. /\ FrameLow(v, k) # 0 /\ zero = FrameLow(v, k2) /\ Others(v, k, k2)
      /\ IsLow(v)
  BY <1>1, <1>5 DEF IsLow, After, FrameLow, Others, FrameLow0, FrameLow1
<1>7. /\ [e EXCEPT ![v] = 0] = e2 /\ v \in VPages /\ Leaf(v) = F(1) /\ e \in Frames
      /\ e[v] # 0
  <2>1. /\ Moved(FrameAt(k, high, late), v, FrameLow(v, k2), FrameAt(k2, high, late))
        /\ Leaf(v) = F(1) /\ FrameAt(k, high, late)[v] = FrameLow(v, k)
    <3>1. Shift(k, k2, high, late, v)
      BY <1>2, <1>6 DEF Shift
    <3> QED
      BY <3>1, LowMoved
  <2>2. Moved(e, v, zero, e2) /\ Leaf(v) = F(1) /\ e[v] = FrameLow(v, k)
    BY <1>1, <1>6, <2>1
  <2> QED
    BY <1>1, <1>6, <2>2 DEF Moved
<1>8. F(1) \in B /\ B = Held(k2, high, late)
  BY <1>1, <1>4 DEF After, Held
<1>9. Leaf(v) \in B /\ e \in Frames /\ v \in VPages /\ e[v] # 0
  BY <1>7, <1>8
<1>10. Laid(u.mem, [e EXCEPT ![v] = 0], B)
  BY <1>3, <1>9, UnmapLaid
<1>11. Words(k2, u.mem, high, late)
  BY <1>4 DEF After, Words
<1>12. Laid(u.mem, FrameAt(k2, high, late), Held(k2, high, late))
  BY <1>1, <1>7, <1>8, <1>10
<1> QED
  BY <1>2, <1>4, <1>11, <1>12 DEF After, Stage

(* free_page, at position 19.                                              *)
LEMMA FreeStage ==
  ASSUME NEW k, k \in {19}, NEW k2, After(k, k2), NEW m, NEW high, NEW late,
         Stage(k, m, high, late), NEW page, page = F(0), NEW m2, m2 = free_page(m, page)
  PROVE  Stage(k2, m2, high, late)
<1>1. PICK e, e2, B : /\ e = FrameAt(k, high, late) /\ e2 = FrameAt(k2, high, late)
                      /\ B = Held(k, high, late)
  OBVIOUS
<1>2. k \in 1 .. 38 /\ k2 \in 1 .. 38 /\ high \in BOOLEAN /\ late \in BOOLEAN
  BY DEF Stage, After
<1>3. Laid(m, e, B) /\ e \in Frames
  BY <1>1, <1>2, FramesAre DEF Stage
<1>4. high = FALSE /\ late = FALSE
  BY DEF Stage
<1>5. FrameLow0(k) = FrameLow0(k2) /\ FrameLow1(k) = FrameLow1(k2)
  BY DEF After, FrameLow0, FrameLow1
<1>6. e = e2
  <2>1. FrameAt(k, high, late) = FrameAt(k2, high, late)
    BY <1>2, <1>5, FramesKept
  <2> QED
    BY <1>1, <2>1
<1>7. F(0) # F(1) /\ F(0) # F(3)
  BY Places
<1>8. page \in B \ {F(1), F(3)} /\ Held(k2, high, late) = B \ {page}
  BY <1>1, <1>4, <1>7 DEF After, Held
<1>9. Laid(m2, e, B \ {page})
  BY <1>3, <1>8, FreeLaid
<1>10. Words(k2, m2, high, late)
  BY <1>4 DEF After, Words
<1>11. Laid(m2, FrameAt(k2, high, late), Held(k2, high, late))
  BY <1>1, <1>6, <1>8, <1>9
<1> QED
  BY <1>2, <1>4, <1>10, <1>11 DEF After, Stage


(* A store: the fillings at 2 and 23, the bytes written at 11, 14 and 34.  *)
Writes(k, page, w, late) ==
  \/ k \in {2, 23} /\ page = F(0) /\ w = 256
  \/ k = 11 /\ page = F(0) /\ w = 42
  \/ k = 14 /\ page = F(0) /\ w = 18
  \/ k = 34 /\ page = F(4) /\ w = 23 /\ late = TRUE

Written(m, page, w, m2) == m2 = Put(m, page, 0, w) \/ m2 = [m EXCEPT !.ram[page] = Filled(w)]

(* A store brings the memory of the next position.                         *)
LEMMA StoreStage ==
  ASSUME NEW k, NEW page, NEW w \in Nat, NEW high, NEW late, Writes(k, page, w, late),
         NEW k2, After(k, k2), NEW m, Stage(k, m, high, late),
         NEW m2, Written(m, page, w, m2)
  PROVE  Stage(k2, m2, high, late)
<1>1. PICK e, e2, B : /\ e = FrameAt(k, high, late) /\ e2 = FrameAt(k2, high, late)
                      /\ B = Held(k, high, late)
  OBVIOUS
<1>2. k \in 1 .. 38 /\ k2 \in 1 .. 38 /\ high \in BOOLEAN /\ late \in BOOLEAN
  BY DEF Writes, Stage, After
<1>3. Laid(m, e, B) /\ e \in Frames
  BY <1>1, <1>2, FramesAre DEF Stage
<1>4. FrameLow0(k) = FrameLow0(k2) /\ FrameLow1(k) = FrameLow1(k2)
  BY DEF Writes, After, FrameLow0, FrameLow1
<1>5. e = e2
  <2>1. FrameAt(k, high, late) = FrameAt(k2, high, late)
    BY <1>2, <1>4, FramesKept
  <2> QED
    BY <1>1, <2>1
<1>6. B = Held(k2, high, late)
  BY <1>1 DEF Writes, After, Held
<1>7. page \in {F(0), F(4)}
  BY DEF Writes
<1>8. Laid(m2, e, B) /\ Word(m2, page, 0) = w
  BY <1>3, <1>7, DataStored DEF Written
<1>9. (k # 34 => high = FALSE) /\ (k = 34 => k2 = 35) /\ (k # 34 => k2 \in {3, 24, 12, 15})
  BY DEF Writes, Stage, After
<1>10. Words(k2, m2, high, late)
  BY <1>8 DEF Writes, After, Words
<1>11. Laid(m2, FrameAt(k2, high, late), Held(k2, high, late))
  BY <1>1, <1>5, <1>6, <1>8
<1>12. /\ (k2 >= 34 => high) /\ (high => k2 >= 33)
       /\ (k2 \in {35, 36} => late) /\ (late => k2 >= 34)
  BY DEF Writes, After, Stage
<1> QED
  BY <1>2, <1>10, <1>11, <1>12 DEF Stage

(* A read leaves the memory, whatever it returns.                          *)
LEMMA ReadStage ==
  ASSUME NEW k, NEW high, NEW late, k \in {3, 6, 12, 13, 15, 16, 25, 30, 33, 35, 37}, k = 33 => high,
         NEW k2, After(k, k2), NEW m, Stage(k, m, high, late)
  PROVE  Stage(k2, m, high, late)
<1>1. PICK e, e2, B : /\ e = FrameAt(k, high, late) /\ e2 = FrameAt(k2, high, late)
                      /\ B = Held(k, high, late)
  OBVIOUS
<1>2. k \in 1 .. 38 /\ k2 \in 1 .. 38 /\ high \in BOOLEAN /\ late \in BOOLEAN
  BY DEF Stage, After
<1>3. Laid(m, e, B) /\ Words(k, m, high, late)
  BY <1>1, <1>2, FramesAre DEF Stage
<1>4. FrameLow0(k) = FrameLow0(k2) /\ FrameLow1(k) = FrameLow1(k2)
  BY DEF After, FrameLow0, FrameLow1
<1>5. e = e2
  <2>1. FrameAt(k, high, late) = FrameAt(k2, high, late)
    BY <1>2, <1>4, FramesKept
  <2> QED
    BY <1>1, <2>1
<1>6. /\ (k2 >= 34 => high) /\ (high => k2 >= 33)
      /\ (k2 \in {35, 36} => late) /\ (late => k2 >= 35)
  BY DEF After, Stage
<1>7. B = Held(k2, high, late)
  BY <1>1, <1>6 DEF After, Held
<1>8. Words(k2, m, high, late)
  BY <1>3, <1>6 DEF After, Words
<1>9. Laid(m, FrameAt(k2, high, late), Held(k2, high, late))
  BY <1>1, <1>3, <1>5, <1>7
<1> QED
  BY <1>2, <1>6, <1>8, <1>9 DEF Stage

(* The fault of HIGH_0, at position 33.                                    *)
LEMMA FaultStage ==
  ASSUME NEW k, k \in {33}, NEW m, NEW high, NEW late, Stage(k, m, high, late), high = FALSE,
         NEW high2, high2 = TRUE, NEW m2, m2 = mmap(m, HIGH_0)
  PROVE  Stage(k, m2, high2, late)
<1>1. PICK e, e2, B, page : /\ e = FrameAt(k, high, late) /\ e2 = FrameAt(k, high2, late)
                            /\ B = Held(k, high, late) /\ page = F(0)
  OBVIOUS
<1>2. k \in 1 .. 38 /\ high \in BOOLEAN /\ high2 \in BOOLEAN /\ late \in BOOLEAN
  <2>1. k \in 1 .. 38
    OBVIOUS
  <2>2. high \in BOOLEAN /\ high2 \in BOOLEAN
    OBVIOUS
  <2> QED
    BY <2>1, <2>2 DEF Stage
<1>3. Laid(m, e, B) /\ e \in Frames
  BY <1>1, <1>2, FramesAre DEF Stage
<1>4. late = FALSE
  BY DEF Stage
<1>5. page = FrameHigh0(high2)
  BY <1>1 DEF FrameHigh0
<1>6. Moved(e, HIGH_0, page, e2)
  BY <1>1, <1>2, <1>5, High0Moved
<1>7. B = {F(1)} /\ Held(k, high2, late) = {F(0), F(1), F(2), F(3)}
  BY <1>1, <1>4 DEF Held
<1>8. NextFree(B, 0)
  BY <1>7, Places DEF NextFree
<1>9. PICK a, z : Cleared(m, a, z)
  BY DEF Cleared
<1>10. a.page = F(0) /\ Laid(z, e, B \cup {F(0)}) /\ Word(z, F(0), 0) = 0
  <2>1. PICK n : n = 0
    OBVIOUS
  <2>2. NextData(B, n)
    BY <1>8, <2>1 DEF NextData
  <2>3. a.page = F(n) /\ Laid(z, e, B \cup {F(n)}) /\ Word(z, F(n), 0) = 0
    <3>1. Clears(m, e, B, n, a, z)
      BY <1>3, <1>9, <2>2 DEF Clears
    <3>2. Given(m, e, B, n, a, z)
      BY <3>1, AllocZero
    <3> QED
      BY <3>2 DEF Given
  <2> QED
    BY <2>1, <2>3
<1>11. page \in Nat \ {0}
  BY <1>1, Places
<1>12. m2 = map_page(z, HIGH_0, page)
  BY <1>1, <1>9, <1>10 DEF mmap, Cleared
<1>13. PICK C : C = {F(0), F(1)}
  OBVIOUS
<1>14. /\ F(0) \in C /\ F(1) \in C /\ F(2) \notin C /\ F(3) \notin C
       /\ C \cup {F(2), F(3)} = Held(k, high2, late) /\ B \cup {F(0)} = C
  BY <1>7, <1>13, Places
<1>15. Laid(z, e, C)
  BY <1>10, <1>14
<1>16. /\ Laid(m2, [e EXCEPT ![HIGH_0] = page], C \cup {F(2), F(3)})
       /\ \A p \in {F(0), F(4)} : m2.ram[p] = z.ram[p]
  BY <1>3, <1>11, <1>12, <1>14, <1>15, MapFirstHigh
<1>17. Laid(m2, FrameAt(k, high2, late), Held(k, high2, late))
  BY <1>1, <1>6, <1>14, <1>16 DEF Moved
<1>18. Word(m2, F(0), 0) = 0
  BY <1>10, <1>16 DEF Word
<1>19. Words(k, m2, high2, late)
  BY <1>4, <1>18 DEF Words
<1> QED
  BY <1>2, <1>4, <1>17, <1>19 DEF Stage

(* The fault of HIGH_1, at positions 34 and 37.                            *)
LEMMA FaultAgainStage ==
  ASSUME NEW k, k \in {34, 37}, NEW m, NEW high, NEW late, Stage(k, m, high, late), late = FALSE,
         NEW late2, late2 = TRUE, NEW m2, m2 = mmap(m, HIGH_1)
  PROVE  Stage(k, m2, high, late2)
<1>1. PICK e, e2, B, page : /\ e = FrameAt(k, high, late) /\ e2 = FrameAt(k, high, late2)
                            /\ B = Held(k, high, late) /\ page = F(4)
  OBVIOUS
<1>2. k \in 1 .. 38 /\ late \in BOOLEAN /\ late2 \in BOOLEAN /\ high \in BOOLEAN
  <2>1. k \in 1 .. 38
    OBVIOUS
  <2>2. late \in BOOLEAN /\ late2 \in BOOLEAN
    OBVIOUS
  <2> QED
    BY <2>1, <2>2 DEF Stage
<1>3. Laid(m, e, B) /\ e \in Frames
  BY <1>1, <1>2, FramesAre DEF Stage
<1>4. high = TRUE
  BY DEF Stage
<1>5. page = FrameHigh1(late2)
  BY <1>1 DEF FrameHigh1
<1>6. Moved(e, HIGH_1, page, e2)
  BY <1>1, <1>2, <1>5, High1Moved
<1>7. /\ B = {F(0), F(1), F(2), F(3)}
      /\ Held(k, high, late2) = {F(0), F(1), F(2), F(3), F(4)}
  BY <1>1, <1>4 DEF Held
<1>8. NextFree(B, 4)
  BY <1>7, Places DEF NextFree
<1>9. PICK a, z : Cleared(m, a, z)
  BY DEF Cleared
<1>10. a.page = F(4) /\ Laid(z, e, B \cup {F(4)}) /\ Word(z, F(4), 0) = 0
  <2>1. PICK n : n = 4
    OBVIOUS
  <2>2. NextData(B, n)
    BY <1>8, <2>1 DEF NextData
  <2>3. a.page = F(n) /\ Laid(z, e, B \cup {F(n)}) /\ Word(z, F(n), 0) = 0
    <3>1. Clears(m, e, B, n, a, z)
      BY <1>3, <1>9, <2>2 DEF Clears
    <3>2. Given(m, e, B, n, a, z)
      BY <3>1, AllocZero
    <3> QED
      BY <3>2 DEF Given
  <2> QED
    BY <2>1, <2>3
<1>11. page \in Nat \ {0} /\ F(4) \in Pages \ {F(1), F(3)}
  BY <1>1, Places
<1>12. m2 = map_page(z, HIGH_1, page)
  BY <1>1, <1>9, <1>10 DEF mmap, Cleared
<1>13. PICK C : C = Held(k, high, late2)
  OBVIOUS
<1>14. Laid(z, e, C) /\ Leaf(HIGH_1) \in C /\ HIGH_1 \in VPages
  <2>1. B \cup {F(4)} = C /\ F(3) \in C
    BY <1>7, <1>13
  <2> QED
    BY <1>10, <2>1, Addresses
<1>15. /\ Laid(m2, [e EXCEPT ![HIGH_1] = page], C)
       /\ \A p \in Pages \ {F(1), F(3)} : m2.ram[p] = z.ram[p]
  BY <1>3, <1>11, <1>12, <1>14, MapLaid
<1>16. Laid(m2, FrameAt(k, high, late2), Held(k, high, late2))
  BY <1>1, <1>6, <1>13, <1>15 DEF Moved
<1>17. Word(m2, F(4), 0) = 0
  BY <1>10, <1>11, <1>15 DEF Word
<1>18. Words(k, m2, high, late2)
  BY <1>17 DEF Words
<1> QED
  BY <1>2, <1>4, <1>16, <1>18 DEF Stage
-------------------------------------------------------------------------------
(* The translations the processor can hold at position k: those of the     *)
(* touched addresses, from a mapping of then or of before.                 *)
Cached(k, t) ==
  /\ t \in [VPages -> Pages \cup {NoPage}]
  /\ t[LOW_0] \in {NoPage, F(0)}
  /\ t[LOW_1] = F(2) => k > 25
  /\ t[LOW_1] \in {NoPage, F(0), F(2)}
  /\ t[HIGH_0] # NoPage => k > 33 /\ t[HIGH_0] = F(0)
  /\ t[HIGH_1] # NoPage => k > 34 /\ t[HIGH_1] = F(4)

(* pa0 and pa1 at position k. *)
Variables(k, p) ==
  /\ p \in [0 .. 1 -> Pages]
  /\ k >= 9 => p[0] = F(0)
  /\ k >= 22 => p[1] = F(2)

(* The reads before position k. *)
ReadsBefore(k) == {j \in 1 .. k - 1 : do_stuff[j].op = "read"}

Inv == /\ pc \in 1 .. 38
       /\ \E high, late \in BOOLEAN : Stage(pc, mem, high, late)
       /\ Cached(pc, tlb)
       /\ Variables(pc, pa)
       /\ printed \in [ReadsBefore(pc) -> Nat]
       /\ FreshAndShared


(* An address the tables map, at position k: the frame of FrameAt.         *)
LEMMA StageMapped ==
  ASSUME NEW k \in 1 .. 38, NEW m, NEW high, NEW late, Stage(k, m, high, late),
         NEW v \in VPages, NEW f, f = FrameAt(k, high, late)[v]
  PROVE  /\ (Mapped(m, v) <=> f # 0)
         /\ (f # 0 => PageOf(Entry1(m, Pml4, v)) = f)
<1>1. PICK e, B : e = FrameAt(k, high, late) /\ B = Held(k, high, late)
  OBVIOUS
<1>2. high \in BOOLEAN /\ late \in BOOLEAN /\ Laid(m, e, B) /\ (late => high)
  BY <1>1 DEF Stage
<1>3. /\ e \in Frames /\ e[LOW_0] = FrameLow0(k) /\ e[LOW_1] = FrameLow1(k)
      /\ e[HIGH_0] = FrameHigh0(high) /\ e[HIGH_1] = FrameHigh1(late)
  BY <1>1, <1>2, FramesAre
<1>4. e[v] # 0 => Leaf(v) \in B
  <2>1. FrameLow0(k) # 0 \/ FrameLow1(k) # 0 => F(1) \in B
    BY <1>1 DEF FrameLow0, FrameLow1, Held
  <2>2. FrameHigh0(high) # 0 \/ FrameHigh1(late) # 0 => F(3) \in B
    BY <1>1, <1>2 DEF FrameHigh0, FrameHigh1, Held
  <2>3. v = LOW_0 \/ v = LOW_1 \/ v = HIGH_0 \/ v = HIGH_1
    BY DEF VPages
  <2> QED
    BY <1>3, <2>1, <2>2, <2>3, Addresses
<1>5. /\ Mapped(m, v) <=> Leaf(v) \in B /\ e[v] # 0
      /\ Leaf(v) \in B => PageOf(Entry1(m, Pml4, v)) = e[v]
  BY <1>2, <1>3, MappedLaid
<1> QED
  BY <1>1, <1>4, <1>5

(* What touching an address reaches, at each position that touches one.    *)
LEMMA Touched ==
  ASSUME NEW k \in 1 .. 38, NEW high, NEW late, Stage(k, mem, high, late), Cached(k, tlb)
  PROVE  /\ k \in {2, 3, 6, 11, 12, 16, 23} => Reached(LOW_0) = F(0)
         /\ k \in {13, 14, 15} => Reached(LOW_1) = F(0)
         /\ k \in {25, 30} => Reached(LOW_1) \in {F(0), F(2)}
         /\ k = 33 => Reached(HIGH_0) = IF high THEN F(0) ELSE NoPage
         /\ k \in {34, 35} => Reached(HIGH_1) = IF late THEN F(4) ELSE NoPage
         /\ k = 37 => \/ Reached(HIGH_1) = F(4)
                      \/ Reached(HIGH_1) = NoPage /\ ~late
<1>1. PICK e : e = FrameAt(k, high, late)
  OBVIOUS
<1>2. high \in BOOLEAN /\ late \in BOOLEAN
  BY DEF Stage
<1>3. /\ e[LOW_0] = FrameLow0(k) /\ e[LOW_1] = FrameLow1(k)
      /\ e[HIGH_0] = FrameHigh0(high) /\ e[HIGH_1] = FrameHigh1(late)
  BY <1>1, <1>2, FramesAre
<1>4. /\ LOW_0 \in VPages /\ LOW_1 \in VPages /\ HIGH_0 \in VPages /\ HIGH_1 \in VPages
      /\ F(0) \in Nat \ {0} /\ F(2) \in Nat \ {0} /\ F(4) \in Nat \ {0}
      /\ F(0) # F(2) /\ F(0) # NoPage /\ F(2) # NoPage /\ F(4) # NoPage
  BY Addresses, Places DEF NoPage
<1>5. \A v \in VPages : Reached(v) = IF tlb[v] # NoPage THEN tlb[v]
                                     ELSE IF e[v] # 0 THEN e[v] ELSE NoPage
  BY <1>1, StageMapped DEF Reached
<1>6. ASSUME k \in {2, 3, 6, 11, 12, 16, 23} PROVE Reached(LOW_0) = F(0)
  <2>1. e[LOW_0] = F(0)
    BY <1>3, <1>6 DEF FrameLow0
  <2> QED
    BY <1>4, <1>5, <2>1 DEF Cached
<1>7. ASSUME k \in {13, 14, 15} PROVE Reached(LOW_1) = F(0)
  <2>1. e[LOW_1] = F(0)
    BY <1>3, <1>7 DEF FrameLow1
  <2> QED
    BY <1>4, <1>5, <1>7, <2>1 DEF Cached
<1>8. ASSUME k \in {25, 30} PROVE Reached(LOW_1) \in {F(0), F(2)}
  <2>1. e[LOW_1] \in {F(0), F(2)}
    BY <1>3, <1>8 DEF FrameLow1
  <2> QED
    BY <1>4, <1>5, <2>1 DEF Cached
<1>9. ASSUME k = 33 PROVE Reached(HIGH_0) = IF high THEN F(0) ELSE NoPage
  <2>1. e[HIGH_0] = IF high THEN F(0) ELSE 0
    BY <1>3 DEF FrameHigh0
  <2> QED
    BY <1>4, <1>5, <1>9, <2>1 DEF Cached
<1>10. e[HIGH_1] = IF late THEN F(4) ELSE 0
  BY <1>3 DEF FrameHigh1
<1>11. ASSUME k \in {34, 35} PROVE Reached(HIGH_1) = IF late THEN F(4) ELSE NoPage
  <2>1. k = 35 => late
    BY DEF Stage
  <2>2. k = 34 => tlb[HIGH_1] = NoPage
    BY DEF Cached
  <2>3. tlb[HIGH_1] = NoPage \/ tlb[HIGH_1] = F(4)
    BY DEF Cached
  <2> QED
    BY <1>4, <1>5, <1>10, <1>11, <2>1, <2>2, <2>3
<1>12. Reached(HIGH_1) = F(4) \/ (Reached(HIGH_1) = NoPage /\ ~late)
  BY <1>4, <1>5, <1>10 DEF Cached
<1> QED
  BY <1>6, <1>7, <1>8, <1>9, <1>11, <1>12


(* The reads before the next position.                                     *)
LEMMA ReadsNext ==
  ASSUME NEW k \in 1 .. 37, NEW k2, After(k, k2)
  PROVE  /\ do_stuff[k].op # "read" => ReadsBefore(k2) = ReadsBefore(k)
         /\ do_stuff[k].op = "read" => ReadsBefore(k2) = ReadsBefore(k) \cup {k}
<1>1. 1 .. k2 - 1 = (1 .. k - 1) \cup {k}
  BY DEF After
<1> QED
  BY <1>1 DEF ReadsBefore

(* Time passes for the cache and the variables.                            *)
LEMMA LaterCached ==
  ASSUME NEW k, NEW k2, After(k, k2), NEW t, Cached(k, t)
  PROVE  Cached(k2, t)
<1>1. \A n : k > n /\ n \in Nat => k2 > n
  BY DEF After
<1>2. k > 25 => k2 > 25
  BY DEF After
<1>3. k > 33 => k2 > 33
  BY DEF After
<1>4. k > 34 => k2 > 34
  BY DEF After
<1> QED
  BY <1>2, <1>3, <1>4 DEF Cached

(* pa0 and pa1, when no page is being allocated.                           *)
LEMMA LaterVariables ==
  ASSUME NEW k, NEW k2, After(k, k2), k # 8, k # 21, NEW p, Variables(k, p)
  PROVE  Variables(k2, p)
BY DEF After, Variables

(* A step to the next position that is not a read.                         *)
LEMMA InvNext ==
  ASSUME Inv, After(pc, pc'), do_stuff[pc].op # "read", printed' = printed,
         \E high, late \in BOOLEAN : Stage(pc', mem', high, late),
         Cached(pc', tlb'), Variables(pc', pa')
  PROVE  Inv'
<1>1. pc' \in 1 .. 38 /\ pc \in 1 .. 37
  BY DEF After
<1>2. printed' \in [ReadsBefore(pc)' -> Nat]
  <2>1. PICK k2 : k2 = pc'
    OBVIOUS
  <2>2. ReadsBefore(k2) = ReadsBefore(pc)
    BY <1>1, <2>1, ReadsNext
  <2>3. ReadsBefore(pc)' = ReadsBefore(k2)
    BY <2>1 DEF ReadsBefore
  <2> QED
    BY <2>2, <2>3 DEF Inv
<1>3. FreshAndShared'
  BY DEF Inv, FreshAndShared, PrintsExpected
<1>4. \E high, late \in BOOLEAN : Stage(pc, mem, high, late)'
  BY DEF Stage, Laid, Words
<1>5. Cached(pc, tlb)' /\ Variables(pc, pa)'
  BY DEF Cached, Variables
<1> QED
  BY <1>1, <1>2, <1>3, <1>4, <1>5 DEF Inv

(* The position of a call.                                                 *)
LEMMA CallPosition ==
  ASSUME Inv, Running
  PROVE  /\ pc \in 1 .. 37 /\ pc \in 1 .. 38
         /\ Done => After(pc, pc')
<1>1. pc \in 1 .. 37
  BY ProgramText DEF Inv, Running
<1> QED
  BY <1>1 DEF Done, After

(* A call of mmap keeps the invariant.                                     *)
LEMMA MmapInv == ASSUME Inv, CallMmap PROVE Inv'
<1>1. /\ Running /\ do_stuff[pc].op = "mmap" /\ mem' = mmap(mem, do_stuff[pc].v) /\ Done
      /\ tlb' = tlb /\ pa' = pa /\ printed' = printed
  BY DEF CallMmap, Now, Page
<1>2. pc \in 1 .. 37 /\ After(pc, pc')
  BY <1>1, CallPosition
<1>3. pc \in {1, 5} /\ do_stuff[pc].v = LOW_0
  BY <1>1, <1>2, Positions
<1>4. PICK high \in BOOLEAN, late \in BOOLEAN : Stage(pc, mem, high, late)
  BY DEF Inv
<1>5. mem' = mmap(mem, LOW_0)
  BY <1>1, <1>3
<1>6. Stage(pc', mem', high, late)
  BY <1>2, <1>3, <1>4, <1>5, MmapStage
<1>7. Cached(pc', tlb')
  BY <1>1, <1>2, LaterCached DEF Inv
<1>8. pc # 8 /\ pc # 21
  BY <1>3
<1>9. Variables(pc', pa')
  BY <1>1, <1>2, <1>8, LaterVariables DEF Inv
<1>10. do_stuff[pc].op # "read"
  BY <1>1
<1> QED
  BY <1>1, <1>2, <1>6, <1>7, <1>9, <1>10, InvNext


(* A call of munmap keeps the invariant.                                   *)
LEMMA MunmapInv == ASSUME Inv, CallMunmap PROVE Inv'
<1>1. /\ Running /\ do_stuff[pc].op = "munmap" /\ mem' = munmap(mem, do_stuff[pc].v) /\ Done
      /\ tlb' = tlb /\ pa' = pa /\ printed' = printed
  BY DEF CallMunmap, Now, Page, Invalidate
<1>2. pc \in 1 .. 37 /\ After(pc, pc')
  BY <1>1, CallPosition
<1>3. \/ pc \in {4, 7, 31} /\ do_stuff[pc].v = LOW_0
      \/ pc = 32 /\ do_stuff[pc].v = LOW_1
      \/ pc = 36 /\ do_stuff[pc].v = HIGH_1
  BY <1>1, <1>2, Positions
<1>4. PICK high \in BOOLEAN, late \in BOOLEAN : Stage(pc, mem, high, late)
  BY DEF Inv
<1>5. \E h, l \in BOOLEAN : Stage(pc', mem', h, l)
  <2>1. CASE pc = 36 /\ do_stuff[pc].v = HIGH_1
    <3>1. pc \in {36} /\ mem' = munmap(mem, HIGH_1)
      BY <1>1, <2>1
    <3>2. PICK late2 : late2 = FALSE
      OBVIOUS
    <3>3. Stage(pc', mem', high, late2)
      BY <1>2, <1>4, <3>1, <3>2, MunmapHighStage
    <3> QED
      BY <3>2, <3>3
  <2>2. CASE pc # 36
    <3>1. PICK v : v = do_stuff[pc].v
      OBVIOUS
    <3>2. (pc \in {4, 7, 31} /\ v = LOW_0) \/ (pc = 32 /\ v = LOW_1)
      BY <1>3, <2>2, <3>1
    <3>3. mem' = munmap(mem, v)
      BY <1>1, <3>1
    <3>4. Stage(pc', mem', high, late)
      BY <1>2, <1>4, <3>2, <3>3, MunmapStage
    <3> QED
      BY <3>4
  <2> QED
    BY <1>3, <2>1, <2>2
<1>6. Cached(pc', tlb')
  BY <1>1, <1>2, LaterCached DEF Inv
<1>7. pc # 8 /\ pc # 21
  BY <1>3
<1>8. Variables(pc', pa')
  BY <1>1, <1>2, <1>7, LaterVariables DEF Inv
<1>9. do_stuff[pc].op # "read"
  BY <1>1
<1> QED
  BY <1>1, <1>2, <1>5, <1>6, <1>8, <1>9, InvNext

(* A call of alloc_page keeps the invariant.                               *)
LEMMA AllocInv == ASSUME Inv, CallAlloc PROVE Inv'
<1>1. PICK a, i : a = alloc_page(mem) /\ i = do_stuff[pc].arg
  OBVIOUS
<1>2. /\ Running /\ do_stuff[pc].op = "alloc" /\ mem' = a.mem /\ Done
      /\ tlb' = tlb /\ pa' = [pa EXCEPT ![i] = a.page] /\ printed' = printed
  BY <1>1 DEF CallAlloc, Now, Arg
<1>3. pc \in 1 .. 37 /\ After(pc, pc')
  BY <1>2, CallPosition
<1>4. (pc \in {8, 20} /\ i = 0) \/ (pc = 21 /\ i = 1)
  BY <1>1, <1>2, <1>3, Positions
<1>5. PICK high \in BOOLEAN, late \in BOOLEAN : Stage(pc, mem, high, late)
  BY DEF Inv
<1>6. PICK n : n = 2 * i
  OBVIOUS
<1>7. (pc \in {8, 20} /\ n = 0) \/ (pc = 21 /\ n = 2)
  BY <1>4, <1>6
<1>8. Stage(pc', a.mem, high, late) /\ a.page = F(n)
  BY <1>1, <1>3, <1>5, <1>7, AllocStage
<1>9. Cached(pc', tlb')
  BY <1>2, <1>3, LaterCached DEF Inv
<1>10. Variables(pc', pa')
  <2>1. PICK f : f = a.page /\ f = F(n) /\ f \in Pages
    BY <1>7, <1>8, Places
  <2>2. pa' = [pa EXCEPT ![i] = f] /\ Variables(pc, pa)
    BY <1>2, <2>1 DEF Inv
  <2>3. CASE pc \in {8, 20}
    <3>1. i = 0 /\ f = F(0) /\ pc' \in {9, 21}
      BY <1>3, <1>4, <1>7, <2>1, <2>3 DEF After
    <3> QED
      BY <2>1, <2>2, <3>1 DEF Variables
  <2>4. CASE pc = 21
    <3>1. i = 1 /\ f = F(2) /\ pc' = 22
      BY <1>3, <1>4, <1>7, <2>1, <2>4 DEF After
    <3> QED
      BY <2>1, <2>2, <2>4, <3>1 DEF Variables
  <2> QED
    BY <1>4, <2>3, <2>4
<1>11. do_stuff[pc].op # "read"
  BY <1>2
<1>12. Stage(pc', mem', high, late)
  BY <1>2, <1>8
<1> QED
  BY <1>2, <1>3, <1>9, <1>10, <1>11, <1>12, InvNext

(* A call of map_page keeps the invariant.                                 *)
LEMMA MapInv == ASSUME Inv, CallMap PROVE Inv'
<1>1. PICK v, page : v = do_stuff[pc].v /\ page = pa[do_stuff[pc].arg]
  OBVIOUS
<1>2. /\ Running /\ do_stuff[pc].op = "map" /\ mem' = map_page(mem, v, page) /\ Done
      /\ tlb' = tlb /\ pa' = pa /\ printed' = printed
  BY <1>1 DEF CallMap, Now, Page, Arg
<1>3. pc \in 1 .. 37 /\ After(pc, pc')
  BY <1>2, CallPosition
<1>4. \/ pc \in {9, 22} /\ v = LOW_0 /\ do_stuff[pc].arg = 0
      \/ pc \in {10, 29} /\ v = LOW_1 /\ do_stuff[pc].arg = 0
      \/ pc = 24 /\ v = LOW_1 /\ do_stuff[pc].arg = 1
      \/ pc = 28 /\ v = LOW_0 /\ do_stuff[pc].arg = 1
  BY <1>1, <1>2, <1>3, Positions
<1>5. pa[0] = F(0) /\ (pc >= 22 => pa[1] = F(2))
  BY <1>4 DEF Inv, Variables
<1>6. \/ pc \in {9, 22} /\ v = LOW_0 /\ page = F(0)
      \/ pc \in {10, 29} /\ v = LOW_1 /\ page = F(0)
      \/ pc = 24 /\ v = LOW_1 /\ page = F(2)
      \/ pc = 28 /\ v = LOW_0 /\ page = F(2)
  BY <1>1, <1>4, <1>5
<1>7. PICK high \in BOOLEAN, late \in BOOLEAN : Stage(pc, mem, high, late)
  BY DEF Inv
<1>8. Stage(pc', mem', high, late)
  BY <1>2, <1>3, <1>6, <1>7, MapStage
<1>9. Cached(pc', tlb')
  BY <1>2, <1>3, LaterCached DEF Inv
<1>10. pc # 8 /\ pc # 21
  BY <1>4
<1>11. Variables(pc', pa')
  BY <1>2, <1>3, <1>10, LaterVariables DEF Inv
<1>12. do_stuff[pc].op # "read"
  BY <1>2
<1> QED
  BY <1>2, <1>3, <1>8, <1>9, <1>11, <1>12, InvNext

(* A call of unmap_page keeps the invariant.                               *)
LEMMA UnmapInv == ASSUME Inv, CallUnmap PROVE Inv'
<1>1. PICK v, u : v = do_stuff[pc].v /\ u = unmap_page(mem, v)
  OBVIOUS
<1>2. /\ Running /\ do_stuff[pc].op = "unmap" /\ mem' = u.mem /\ Done
      /\ tlb' = tlb /\ pa' = pa /\ printed' = printed
  BY <1>1 DEF CallUnmap, Now, Page, Invalidate
<1>3. pc \in 1 .. 37 /\ After(pc, pc')
  BY <1>2, CallPosition
<1>4. (pc \in {17, 26} /\ v = LOW_0) \/ (pc \in {18, 27} /\ v = LOW_1)
  BY <1>1, <1>2, <1>3, Positions
<1>5. PICK high \in BOOLEAN, late \in BOOLEAN : Stage(pc, mem, high, late)
  BY DEF Inv
<1>6. Stage(pc', u.mem, high, late)
  BY <1>1, <1>3, <1>4, <1>5, UnmapStage
<1>7. Stage(pc', mem', high, late)
  BY <1>2, <1>6
<1>8. Cached(pc', tlb')
  BY <1>2, <1>3, LaterCached DEF Inv
<1>9. pc # 8 /\ pc # 21
  BY <1>4
<1>10. Variables(pc', pa')
  BY <1>2, <1>3, <1>9, LaterVariables DEF Inv
<1>11. do_stuff[pc].op # "read"
  BY <1>2
<1> QED
  BY <1>2, <1>3, <1>7, <1>8, <1>10, <1>11, InvNext

(* A call of free_page keeps the invariant.                                *)
LEMMA FreeInv == ASSUME Inv, CallFree PROVE Inv'
<1>1. PICK page : page = pa[do_stuff[pc].arg]
  OBVIOUS
<1>2. /\ Running /\ do_stuff[pc].op = "free" /\ mem' = free_page(mem, page) /\ Done
      /\ tlb' = tlb /\ pa' = pa /\ printed' = printed
  BY <1>1 DEF CallFree, Now, Arg
<1>3. pc \in 1 .. 37 /\ After(pc, pc')
  BY <1>2, CallPosition
<1>4. pc = 19 /\ do_stuff[pc].arg = 0
  BY <1>2, <1>3, Positions
<1>5. page = F(0) /\ pc \in {19} /\ pc # 8 /\ pc # 21
  BY <1>1, <1>4 DEF Inv, Variables
<1>6. PICK high \in BOOLEAN, late \in BOOLEAN : Stage(pc, mem, high, late)
  BY DEF Inv
<1>7. Stage(pc', mem', high, late)
  BY <1>2, <1>3, <1>5, <1>6, FreeStage
<1>8. Cached(pc', tlb')
  BY <1>2, <1>3, LaterCached DEF Inv
<1>9. Variables(pc', pa')
  BY <1>2, <1>3, <1>5, LaterVariables DEF Inv
<1>10. do_stuff[pc].op # "read"
  BY <1>2
<1> QED
  BY <1>2, <1>3, <1>7, <1>8, <1>9, <1>10, InvNext
-------------------------------------------------------------------------------
(* The positions that touch a page, and the page they reach.               *)
LEMMA Access ==
  ASSUME Inv, Touching, NEW high \in BOOLEAN, NEW late \in BOOLEAN, Stage(pc, mem, high, late),
         NEW v, v = do_stuff[pc].v, NEW r, r = Reached(v)
  PROVE  /\ pc \in 1 .. 37
         /\ do_stuff[pc].op = "fill" =>
              pc \in {2, 23} /\ v = LOW_0 /\ r = F(0) /\ do_stuff[pc].arg = 256
         /\ do_stuff[pc].op = "write" =>
              \/ pc = 11 /\ v = LOW_0 /\ r = F(0) /\ do_stuff[pc].arg = 42
              \/ pc = 14 /\ v = LOW_1 /\ r = F(0) /\ do_stuff[pc].arg = 18
              \/ pc = 34 /\ v = HIGH_1 /\ do_stuff[pc].arg = 23
                   /\ r = IF late THEN F(4) ELSE NoPage
         /\ do_stuff[pc].op = "read" =>
              \/ pc \in {3, 6, 12, 16} /\ v = LOW_0 /\ r = F(0)
              \/ pc \in {13, 15} /\ v = LOW_1 /\ r = F(0)
              \/ pc \in {25, 30} /\ v = LOW_1 /\ r \in {F(0), F(2)}
              \/ pc = 33 /\ v = HIGH_0 /\ r = IF high THEN F(0) ELSE NoPage
              \/ pc = 35 /\ v = HIGH_1 /\ r = F(4) /\ late
              \/ pc = 37 /\ v = HIGH_1 /\ (r = F(4) \/ (r = NoPage /\ ~late))
<1>1. pc \in 1 .. 37 /\ pc \in 1 .. 38
  BY CallPosition DEF Touching
<1>2. Cached(pc, tlb)
  BY DEF Inv
<1>3. /\ pc \in {2, 3, 6, 11, 12, 16, 23} => Reached(LOW_0) = F(0)
      /\ pc \in {13, 14, 15} => Reached(LOW_1) = F(0)
      /\ pc \in {25, 30} => Reached(LOW_1) \in {F(0), F(2)}
      /\ pc = 33 => Reached(HIGH_0) = IF high THEN F(0) ELSE NoPage
      /\ pc \in {34, 35} => Reached(HIGH_1) = IF late THEN F(4) ELSE NoPage
      /\ pc = 37 => \/ Reached(HIGH_1) = F(4)
                    \/ Reached(HIGH_1) = NoPage /\ ~late
  BY <1>1, <1>2, Touched
<1>4. pc = 35 => late
  BY DEF Stage
<1>5. ASSUME do_stuff[pc].op = "fill"
      PROVE  pc \in {2, 23} /\ v = LOW_0 /\ r = F(0) /\ do_stuff[pc].arg = 256
  <2>1. pc \in {2, 23} /\ v = LOW_0 /\ do_stuff[pc].arg = 256
    BY <1>1, <1>5, Positions
  <2> QED
    BY <1>3, <2>1
<1>6. ASSUME do_stuff[pc].op = "write"
      PROVE  \/ pc = 11 /\ v = LOW_0 /\ r = F(0) /\ do_stuff[pc].arg = 42
             \/ pc = 14 /\ v = LOW_1 /\ r = F(0) /\ do_stuff[pc].arg = 18
             \/ pc = 34 /\ v = HIGH_1 /\ do_stuff[pc].arg = 23
                  /\ r = IF late THEN F(4) ELSE NoPage
  <2>1. \/ pc = 11 /\ v = LOW_0 /\ do_stuff[pc].arg = 42
        \/ pc = 14 /\ v = LOW_1 /\ do_stuff[pc].arg = 18
        \/ pc = 34 /\ v = HIGH_1 /\ do_stuff[pc].arg = 23
    BY <1>1, <1>6, Positions
  <2> QED
    BY <1>3, <2>1
<1>7. ASSUME do_stuff[pc].op = "read"
      PROVE  \/ pc \in {3, 6, 12, 16} /\ v = LOW_0 /\ r = F(0)
             \/ pc \in {13, 15} /\ v = LOW_1 /\ r = F(0)
             \/ pc \in {25, 30} /\ v = LOW_1 /\ r \in {F(0), F(2)}
             \/ pc = 33 /\ v = HIGH_0 /\ r = IF high THEN F(0) ELSE NoPage
             \/ pc = 35 /\ v = HIGH_1 /\ r = F(4) /\ late
             \/ pc = 37 /\ v = HIGH_1 /\ (r = F(4) \/ (r = NoPage /\ ~late))
  <2>1. \/ pc \in {3, 6, 12, 16} /\ v = LOW_0
        \/ pc \in {13, 15} /\ v = LOW_1
        \/ pc \in {25, 30} /\ v = LOW_1
        \/ pc = 33 /\ v = HIGH_0
        \/ pc = 35 /\ v = HIGH_1
        \/ pc = 37 /\ v = HIGH_1
    BY <1>1, <1>7, Positions
  <2> QED
    BY <1>3, <1>4, <2>1
<1> QED
  BY <1>1, <1>5, <1>6, <1>7

(* The processor keeps the translation of the page it touches.             *)
LEMMA TouchCached ==
  ASSUME NEW k \in 1 .. 37, NEW k2, After(k, k2), NEW t, Cached(k, t), NEW v, NEW r,
         \/ (v = LOW_0 \/ v = LOW_1) /\ r = F(0)
         \/ v = LOW_1 /\ r = F(2) /\ k >= 25
         \/ v = HIGH_0 /\ r = F(0) /\ k >= 33
         \/ v = HIGH_1 /\ r = F(4) /\ k >= 34,
         NEW t2, t2 = [t EXCEPT ![v] = r]
  PROVE  Cached(k2, t2)
<1>1. Cached(k2, t)
  BY LaterCached
<1>2. k2 = k + 1
  BY DEF After
<1>3. /\ LOW_0 \in VPages /\ LOW_1 \in VPages /\ HIGH_0 \in VPages /\ HIGH_1 \in VPages
      /\ LOW_0 # LOW_1 /\ LOW_0 # HIGH_0 /\ LOW_0 # HIGH_1 /\ LOW_1 # HIGH_0
      /\ LOW_1 # HIGH_1 /\ HIGH_0 # HIGH_1
  BY Addresses
<1>4. /\ F(0) \in Pages /\ F(2) \in Pages /\ F(4) \in Pages
      /\ F(0) # F(2) /\ F(0) # NoPage /\ F(2) # NoPage /\ F(4) # NoPage
  BY Places DEF NoPage
<1>5. t2 \in [VPages -> Pages \cup {NoPage}] /\ t \in [VPages -> Pages \cup {NoPage}]
  BY <1>1, <1>3, <1>4 DEF Cached
<1>6. CASE (v = LOW_0 \/ v = LOW_1) /\ r = F(0)
  BY <1>1, <1>3, <1>4, <1>5, <1>6 DEF Cached
<1>7. CASE v = LOW_1 /\ r = F(2) /\ k >= 25
  BY <1>1, <1>2, <1>3, <1>4, <1>5, <1>7 DEF Cached
<1>8. CASE v = HIGH_0 /\ r = F(0) /\ k >= 33
  BY <1>1, <1>2, <1>3, <1>4, <1>5, <1>8 DEF Cached
<1>9. CASE v = HIGH_1 /\ r = F(4) /\ k >= 34
  BY <1>1, <1>2, <1>3, <1>4, <1>5, <1>9 DEF Cached
<1> QED
  BY <1>6, <1>7, <1>8, <1>9

(* pgfault keeps the invariant: it runs at positions 33, 34 and 37 only,   *)
(* on an automatic address.                                                *)
LEMMA PageFaultInv == ASSUME Inv, PageFault PROVE Inv'
<1>1. PICK v : v = do_stuff[pc].v
  OBVIOUS
<1>2. /\ Touching /\ Reached(v) = NoPage /\ mem' = pgfault(mem, v)
      /\ pc' = pc /\ tlb' = tlb /\ pa' = pa /\ printed' = printed
  BY <1>1 DEF PageFault, Page
<1>3. PICK high \in BOOLEAN, late \in BOOLEAN : Stage(pc, mem, high, late)
  BY DEF Inv
<1>4. F(0) # NoPage /\ F(2) # NoPage /\ F(4) # NoPage
  BY Places DEF NoPage
<1>5. \/ pc = 33 /\ v = HIGH_0 /\ high = FALSE
      \/ pc \in {34, 37} /\ v = HIGH_1 /\ late = FALSE
  <2>1. do_stuff[pc].op \in {"fill", "write", "read"}
    BY <1>2 DEF Touching
  <2>2. PICK r : r = Reached(v) /\ r = NoPage
    BY <1>2
  <2>3. /\ do_stuff[pc].op = "fill" => r = F(0)
        /\ do_stuff[pc].op = "write" =>
              \/ r = F(0)
              \/ pc = 34 /\ v = HIGH_1 /\ r = IF late THEN F(4) ELSE NoPage
        /\ do_stuff[pc].op = "read" =>
              \/ r \in {F(0), F(2), F(4)}
              \/ pc = 33 /\ v = HIGH_0 /\ r = IF high THEN F(0) ELSE NoPage
              \/ pc = 37 /\ v = HIGH_1 /\ ~late
    BY <1>1, <1>2, <1>3, <2>2, Access
  <2> QED
    BY <1>4, <2>1, <2>2, <2>3
<1>6. Automatic(HIGH_0) /\ Automatic(HIGH_1)
  BY DEF Automatic, HIGH_0, HIGH_1
<1>7. \E h, l \in BOOLEAN : Stage(pc, mem', h, l)
  <2>1. CASE pc = 33 /\ v = HIGH_0 /\ high = FALSE
    <3>1. mem' = mmap(mem, HIGH_0) /\ pc \in {33} /\ high = FALSE
      BY <1>2, <1>6, <2>1 DEF pgfault
    <3>2. PICK high2 : high2 = TRUE
      OBVIOUS
    <3>3. Stage(pc, mem', high2, late)
      BY <1>3, <3>1, <3>2, FaultStage
    <3> QED
      BY <3>2, <3>3
  <2>2. CASE pc \in {34, 37} /\ v = HIGH_1 /\ late = FALSE
    <3>1. mem' = mmap(mem, HIGH_1) /\ pc \in {34, 37} /\ late = FALSE
      BY <1>2, <1>6, <2>2 DEF pgfault
    <3>2. PICK late2 : late2 = TRUE
      OBVIOUS
    <3>3. Stage(pc, mem', high, late2)
      BY <1>3, <3>1, <3>2, FaultAgainStage
    <3> QED
      BY <3>2, <3>3
  <2> QED
    BY <1>5, <2>1, <2>2
<1>8. PICK h \in BOOLEAN, l \in BOOLEAN : Stage(pc, mem', h, l)
  BY <1>7
<1>9. Stage(pc', mem', h, l)
  BY <1>2, <1>8
<1>10. Cached(pc', tlb') /\ Variables(pc', pa') /\ pc' \in 1 .. 38
  BY <1>2 DEF Inv
<1>11. printed' \in [ReadsBefore(pc') -> Nat] /\ FreshAndShared'
  BY <1>2 DEF Inv, FreshAndShared, PrintsExpected
<1> QED
  BY <1>9, <1>10, <1>11 DEF Inv


(* A filling keeps the invariant.                                          *)
LEMMA FillInv == ASSUME Inv, Fill PROVE Inv'
<1>1. PICK v, r, w : v = do_stuff[pc].v /\ r = Reached(v) /\ w = do_stuff[pc].arg
  OBVIOUS
<1>2. /\ Running /\ do_stuff[pc].op = "fill" /\ mem' = [mem EXCEPT !.ram[r] = Filled(w)] /\ Done
      /\ tlb' = [tlb EXCEPT ![v] = r] /\ pa' = pa /\ printed' = printed
  BY <1>1 DEF Fill, Now, Page, Arg
<1>3. pc \in 1 .. 37 /\ After(pc, pc')
  BY <1>2, CallPosition
<1>4. PICK high \in BOOLEAN, late \in BOOLEAN : Stage(pc, mem, high, late)
  BY DEF Inv
<1>5. Touching
  BY <1>2 DEF Touching
<1>6. pc \in {2, 23} /\ v = LOW_0 /\ r = F(0) /\ w = 256
  BY <1>1, <1>2, <1>4, <1>5, Access
<1>7. w \in Nat
  BY <1>6
<1>8. Stage(pc', mem', high, late)
  <2>1. Writes(pc, r, w, late)
    BY <1>6 DEF Writes
  <2>2. Written(mem, r, w, mem')
    BY <1>2 DEF Written
  <2> QED
    BY <1>3, <1>4, <1>7, <2>1, <2>2, StoreStage
<1>9. Cached(pc, tlb) /\ Variables(pc, pa)
  BY DEF Inv
<1>10. Cached(pc', tlb')
  BY <1>2, <1>3, <1>6, <1>9, TouchCached
<1>11. pc # 8 /\ pc # 21
  BY <1>6
<1>12. Variables(pc', pa')
  BY <1>2, <1>3, <1>9, <1>11, LaterVariables
<1>13. do_stuff[pc].op # "read"
  BY <1>2
<1> QED
  BY <1>2, <1>3, <1>8, <1>10, <1>12, <1>13, InvNext

(* A byte written keeps the invariant.                                     *)
LEMMA WriteInv == ASSUME Inv, Write PROVE Inv'
<1>1. PICK v, r, w : /\ v = do_stuff[pc].v /\ r = Reached(v)
                     /\ w = WithByte(Word(mem, r, 0), do_stuff[pc].arg)
  OBVIOUS
<1>2. /\ Running /\ do_stuff[pc].op = "write" /\ r # NoPage /\ mem' = Put(mem, r, 0, w) /\ Done
      /\ tlb' = [tlb EXCEPT ![v] = r] /\ pa' = pa /\ printed' = printed
  BY <1>1 DEF Write, Now, Page, Arg
<1>3. pc \in 1 .. 37 /\ After(pc, pc')
  BY <1>2, CallPosition
<1>4. PICK high \in BOOLEAN, late \in BOOLEAN : Stage(pc, mem, high, late)
  BY DEF Inv
<1>5. Touching
  BY <1>2 DEF Touching
<1>6. \/ pc = 11 /\ v = LOW_0 /\ r = F(0) /\ do_stuff[pc].arg = 42
      \/ pc = 14 /\ v = LOW_1 /\ r = F(0) /\ do_stuff[pc].arg = 18
      \/ pc = 34 /\ v = HIGH_1 /\ r = F(4) /\ do_stuff[pc].arg = 23 /\ late = TRUE
  <2>1. \/ pc = 11 /\ v = LOW_0 /\ r = F(0) /\ do_stuff[pc].arg = 42
        \/ pc = 14 /\ v = LOW_1 /\ r = F(0) /\ do_stuff[pc].arg = 18
        \/ pc = 34 /\ v = HIGH_1 /\ do_stuff[pc].arg = 23
             /\ r = IF late THEN F(4) ELSE NoPage
    BY <1>1, <1>2, <1>4, <1>5, Access
  <2> QED
    BY <1>2, <2>1
<1>7. Words(pc, mem, high, late)
  BY <1>4 DEF Stage
<1>8. /\ w \in Nat
      /\ \/ pc = 11 /\ r = F(0) /\ w = 42
         \/ pc = 14 /\ r = F(0) /\ w = 18
         \/ pc = 34 /\ r = F(4) /\ w = 23 /\ late = TRUE
  <2>1. CASE pc = 11 /\ r = F(0) /\ do_stuff[pc].arg = 42
    <3>1. Word(mem, r, 0) = 0
      BY <1>7, <2>1 DEF Words
    <3>2. w = 42
      BY <1>1, <2>1, <3>1 DEF WithByte
    <3> QED
      BY <2>1, <3>2
  <2>2. CASE pc = 14 /\ r = F(0) /\ do_stuff[pc].arg = 18
    <3>1. Word(mem, r, 0) = 42
      BY <1>7, <2>2 DEF Words
    <3>2. w = 18
      BY <1>1, <2>2, <3>1 DEF WithByte
    <3> QED
      BY <2>2, <3>2
  <2>3. CASE pc = 34 /\ r = F(4) /\ do_stuff[pc].arg = 23 /\ late = TRUE
    <3>1. Word(mem, r, 0) = 0
      BY <1>7, <2>3 DEF Words
    <3>2. w = 23
      BY <1>1, <2>3, <3>1 DEF WithByte
    <3> QED
      BY <2>3, <3>2
  <2> QED
    BY <1>6, <2>1, <2>2, <2>3
<1>9. Stage(pc', mem', high, late)
  <2>1. Writes(pc, r, w, late)
    BY <1>8 DEF Writes
  <2>2. Written(mem, r, w, mem')
    BY <1>2 DEF Written
  <2> QED
    BY <1>3, <1>4, <1>8, <2>1, <2>2, StoreStage
<1>10. Cached(pc, tlb) /\ Variables(pc, pa)
  BY DEF Inv
<1>11. Cached(pc', tlb')
  <2>1. \/ (v = LOW_0 \/ v = LOW_1) /\ r = F(0)
        \/ v = HIGH_1 /\ r = F(4) /\ pc >= 34
    BY <1>6
  <2> QED
    BY <1>2, <1>3, <1>10, <2>1, TouchCached
<1>12. pc # 8 /\ pc # 21
  BY <1>6
<1>13. Variables(pc', pa')
  BY <1>2, <1>3, <1>10, <1>12, LaterVariables
<1>14. do_stuff[pc].op # "read"
  BY <1>2
<1> QED
  BY <1>2, <1>3, <1>9, <1>11, <1>13, <1>14, InvNext

(* What a read returns, where the address keeps its frame.                 *)
LEMMA ReadWord ==
  ASSUME NEW k \in 1 .. 37, NEW m, NEW high, NEW late, Stage(k, m, high, late), NEW r,
         do_stuff[k].op = "read", k \notin {25, 30, 37},
         \/ k \in {3, 6, 12, 13, 15, 16} /\ r = F(0)
         \/ k = 33 /\ r = F(0) /\ high
         \/ k = 35 /\ r = F(4)
  PROVE  Word(m, r, 0) = do_stuff[k].arg
<1>1. Words(k, m, high, late)
  BY DEF Stage
<1>2. \/ k = 3 /\ do_stuff[k].arg = 256
      \/ k = 6 /\ do_stuff[k].arg = 0
      \/ k \in {12, 13} /\ do_stuff[k].arg = 42
      \/ k \in {15, 16} /\ do_stuff[k].arg = 18
      \/ k = 33 /\ do_stuff[k].arg = 0
      \/ k = 35 /\ do_stuff[k].arg = 23
  BY Positions
<1> QED
  BY <1>1, <1>2 DEF Words

(* A read keeps the invariant, and prints what the position says.          *)
LEMMA ReadInv == ASSUME Inv, Read PROVE Inv'
<1>1. PICK v, r, w : v = do_stuff[pc].v /\ r = Reached(v) /\ w = Word(mem, r, 0)
  OBVIOUS
<1>2. /\ Running /\ do_stuff[pc].op = "read" /\ r # NoPage /\ mem' = mem /\ Done
      /\ tlb' = [tlb EXCEPT ![v] = r] /\ pa' = pa
      /\ printed' = [k \in DOMAIN printed \cup {pc} |-> IF k = pc THEN w ELSE printed[k]]
  BY <1>1 DEF Read, Now, Page
<1>3. pc \in 1 .. 37 /\ After(pc, pc')
  BY <1>2, CallPosition
<1>4. PICK high \in BOOLEAN, late \in BOOLEAN : Stage(pc, mem, high, late)
  BY DEF Inv
<1>5. Touching
  BY <1>2 DEF Touching
<1>6. \/ pc \in {3, 6, 12, 16} /\ v = LOW_0 /\ r = F(0)
      \/ pc \in {13, 15} /\ v = LOW_1 /\ r = F(0)
      \/ pc \in {25, 30} /\ v = LOW_1 /\ r \in {F(0), F(2)}
      \/ pc = 33 /\ v = HIGH_0 /\ r = F(0) /\ high
      \/ pc = 35 /\ v = HIGH_1 /\ r = F(4)
      \/ pc = 37 /\ v = HIGH_1 /\ r = F(4)
  <2>1. \/ pc \in {3, 6, 12, 16} /\ v = LOW_0 /\ r = F(0)
        \/ pc \in {13, 15} /\ v = LOW_1 /\ r = F(0)
        \/ pc \in {25, 30} /\ v = LOW_1 /\ r \in {F(0), F(2)}
        \/ pc = 33 /\ v = HIGH_0 /\ r = IF high THEN F(0) ELSE NoPage
        \/ pc = 35 /\ v = HIGH_1 /\ r = F(4) /\ late
        \/ pc = 37 /\ v = HIGH_1 /\ (r = F(4) \/ (r = NoPage /\ ~late))
    BY <1>1, <1>2, <1>4, <1>5, Access
  <2> QED
    BY <1>2, <2>1
<1>7. pc \in {3, 6, 12, 13, 15, 16, 25, 30, 33, 35, 37} /\ (pc = 33 => high)
  BY <1>6
<1>8. Stage(pc', mem, high, late)
  BY <1>3, <1>4, <1>7, ReadStage
<1>9. Stage(pc', mem', high, late)
  BY <1>2, <1>8
<1>10. Cached(pc, tlb) /\ Variables(pc, pa) /\ printed \in [ReadsBefore(pc) -> Nat] /\ FreshAndShared
  BY DEF Inv
<1>11. Cached(pc', tlb')
  <2>1. \/ (v = LOW_0 \/ v = LOW_1) /\ r = F(0)
        \/ v = LOW_1 /\ r = F(2) /\ pc >= 25
        \/ v = HIGH_0 /\ r = F(0) /\ pc >= 33
        \/ v = HIGH_1 /\ r = F(4) /\ pc >= 34
    BY <1>6
  <2> QED
    BY <1>2, <1>3, <1>10, <2>1, TouchCached
<1>12. pc # 8 /\ pc # 21
  BY <1>7
<1>13. Variables(pc', pa')
  BY <1>2, <1>3, <1>10, <1>12, LaterVariables
<1>14. w \in Nat
  <2>1. r \in Pages /\ 0 \in Indexes
    BY <1>6, Places
  <2>2. mem \in Memory
    BY <1>4 DEF Stage, Laid
  <2> QED
    BY <1>1, <2>1, <2>2 DEF Word, Memory
<1>15. DOMAIN printed = ReadsBefore(pc) /\ pc \notin ReadsBefore(pc)
  BY <1>3, <1>10 DEF ReadsBefore
<1>16. printed' \in [ReadsBefore(pc') -> Nat]
  <2>1. PICK k2 : k2 = pc'
    OBVIOUS
  <2>2. ReadsBefore(k2) = ReadsBefore(pc) \cup {pc}
    BY <1>2, <1>3, <2>1, ReadsNext
  <2>3. printed' \in [ReadsBefore(pc) \cup {pc} -> Nat]
    BY <1>2, <1>10, <1>14, <1>15
  <2> QED
    BY <2>1, <2>2, <2>3
<1>17. pc \notin {25, 30, 37} => w = do_stuff[pc].arg
  BY <1>1, <1>2, <1>3, <1>4, <1>6, ReadWord
<1>18. FreshAndShared'
  <2>1. ASSUME NEW k \in (DOMAIN do_stuff \ {25, 30, 37}) \cap DOMAIN printed'
        PROVE  printed'[k] = do_stuff[k].arg
    <3>1. CASE k = pc
      BY <1>2, <1>17, <2>1, <3>1
    <3>2. CASE k # pc
      <4>1. k \in DOMAIN printed /\ printed'[k] = printed[k]
        BY <1>2, <2>1, <3>2
      <4> QED
        BY <1>10, <2>1, <4>1 DEF FreshAndShared, PrintsExpected
    <3> QED
      BY <3>1, <3>2
  <2> QED
    BY <2>1 DEF FreshAndShared, PrintsExpected
<1>19. pc' \in 1 .. 38
  BY <1>3 DEF After
<1> QED
  BY <1>9, <1>11, <1>13, <1>16, <1>18, <1>19 DEF Inv

(* A translation forgotten keeps the invariant.                            *)
LEMMA EvictInv == ASSUME Inv, Evict PROVE Inv'
<1>1. PICK v \in VPages : tlb' = [tlb EXCEPT ![v] = NoPage]
  BY DEF Evict
<1>2. mem' = mem /\ pc' = pc /\ pa' = pa /\ printed' = printed
  BY DEF Evict
<1>3. Cached(pc, tlb)
  BY DEF Inv
<1>4. \A w \in VPages : tlb'[w] = NoPage \/ tlb'[w] = tlb[w]
  BY <1>1, <1>3 DEF Cached
<1>5. tlb' \in [VPages -> Pages \cup {NoPage}]
  BY <1>1, <1>3 DEF Cached
<1>6. F(2) # NoPage
  BY Places DEF NoPage
<1>7. Cached(pc, tlb')
  BY <1>3, <1>4, <1>5, <1>6, Addresses DEF Cached
<1>8. \E h, l \in BOOLEAN : Stage(pc', mem', h, l)
  BY <1>2 DEF Inv
<1>9. Cached(pc', tlb') /\ Variables(pc', pa') /\ pc' \in 1 .. 38
  BY <1>2, <1>7 DEF Inv
<1>10. printed' \in [ReadsBefore(pc') -> Nat] /\ FreshAndShared'
  BY <1>2 DEF Inv, FreshAndShared, PrintsExpected
<1> QED
  BY <1>8, <1>9, <1>10 DEF Inv
-------------------------------------------------------------------------------
(* The tables entry.S built.                                               *)
LEMMA BootLaid ==
  ASSUME NEW e \in Frames, \A v \in VPages : e[v] = 0
  PROVE  Laid(BootMemory, e, {})
<1>1. /\ BootMemory.bits = {} /\ BootMemory.alive
      /\ BootMemory = [bits |-> {}, alive |-> TRUE, ram |-> BootMemory.ram]
  BY DEF BootMemory
<1>2. ZeroContent \in [Indexes -> Nat] /\ \A i \in Indexes : ZeroContent[i] = 0
  BY DEF ZeroContent
<1>3. /\ Pml3 \in Nat /\ Pml2 \in Nat /\ 0 \in Nat
      /\ UserPte(Pml3) \in Nat /\ UserPte(Pml2) \in Nat /\ KernelPte(0) \in Nat
  <2>1. Pml3 \in Nat /\ Pml2 \in Nat /\ 0 \in Nat
    BY DEF Pml3, Pml2
  <2> QED
    BY <2>1, Ptes
<1>4. \A p \in Pages : BootMemory.ram[p] =
        IF p = Pml4 THEN [ZeroContent EXCEPT ![0] = UserPte(Pml3)]
        ELSE IF p = Pml3 THEN [ZeroContent EXCEPT ![0] = UserPte(Pml2)]
        ELSE IF p = Pml2 THEN [ZeroContent EXCEPT ![0] = KernelPte(0)] ELSE ZeroContent
  BY DEF BootMemory, Pml4, Pml3, Pml2
<1>5. /\ Pml4 \in Pages /\ Pml3 \in Pages /\ Pml2 \in Pages
      /\ Pml4 # Pml3 /\ Pml4 # Pml2 /\ Pml3 # Pml2
      /\ F(1) \in Pages /\ F(2) \in Pages /\ F(3) \in Pages
      /\ F(1) \notin {Pml4, Pml3, Pml2} /\ F(2) \notin {Pml4, Pml3, Pml2}
      /\ F(3) \notin {Pml4, Pml3, Pml2}
      /\ 0 \in Indexes /\ 1 \in Indexes /\ 4 \in Indexes
  BY Places
<1>6. BootMemory \in Memory
  <2>1. \A p \in Pages : BootMemory.ram[p] \in [Indexes -> Nat]
    BY <1>2, <1>3, <1>4
  <2>2. BootMemory.ram \in [Pages -> [Indexes -> Nat]]
    BY <2>1 DEF BootMemory
  <2> QED
    BY <1>1, <2>2 DEF Memory
<1>7. /\ BootMemory.ram[Pml4] = [ZeroContent EXCEPT ![0] = UserPte(Pml3)]
       /\ BootMemory.ram[Pml3] = [ZeroContent EXCEPT ![0] = UserPte(Pml2)]
       /\ BootMemory.ram[Pml2] = [ZeroContent EXCEPT ![0] = KernelPte(0)]
  BY <1>4, <1>5
<1>8. 0 # 1 /\ 0 # 4
  OBVIOUS
<1>9. Word(BootMemory, Pml4, 0) = UserPte(Pml3)
  BY <1>2, <1>7, <1>5 DEF Word
<1>10. Word(BootMemory, Pml3, 0) = UserPte(Pml2) /\ Word(BootMemory, Pml3, 4) = 0
  BY <1>2, <1>7, <1>8, <1>5 DEF Word
<1>11. Word(BootMemory, Pml2, 1) = 0
  BY <1>2, <1>7, <1>8, <1>5 DEF Word
<1>12. \A i \in Indexes : /\ Word(BootMemory, F(1), i) = 0 /\ Word(BootMemory, F(2), i) = 0
                          /\ Word(BootMemory, F(3), i) = 0
  BY <1>2, <1>4, <1>5 DEF Word
<1>13. \A v \in VPages : Word(BootMemory, Leaf(v), v[4]) = 0
  BY <1>12, Addresses DEF Leaf
<1>14. Pte(0) = 0
  BY DEF Pte
<1> QED
  BY <1>1, <1>5, <1>6, <1>9, <1>10, <1>11, <1>12, <1>13, <1>14 DEF Laid

(* The invariant holds at first.                                           *)
LEMMA InitInv == ASSUME Init PROVE Inv
<1>1. /\ mem = BootMemory /\ tlb = [v \in VPages |-> NoPage] /\ pc = 1
      /\ pa = [i \in 0 .. 1 |-> 0] /\ printed = [k \in {} |-> 0]
  BY DEF Init
<1>2. PICK high \in BOOLEAN, late \in BOOLEAN : high = FALSE /\ late = FALSE
  OBVIOUS
<1>3. PICK e, B : e = FrameAt(pc, high, late) /\ B = Held(pc, high, late)
  OBVIOUS
<1>4. /\ e \in Frames /\ e[LOW_0] = FrameLow0(pc) /\ e[LOW_1] = FrameLow1(pc)
      /\ e[HIGH_0] = FrameHigh0(high) /\ e[HIGH_1] = FrameHigh1(late)
  <2>1. pc \in 1 .. 38
    BY <1>1
  <2> QED
    BY <1>2, <1>3, <2>1, FramesAre
<1>5. /\ FrameLow0(pc) = 0 /\ FrameLow1(pc) = 0 /\ FrameHigh0(high) = 0 /\ FrameHigh1(late) = 0
      /\ B = {}
  BY <1>1, <1>2, <1>3 DEF FrameLow0, FrameLow1, FrameHigh0, FrameHigh1, Held
<1>6. \A v \in VPages : e[v] = 0
  BY <1>4, <1>5 DEF VPages
<1>7. Laid(mem, e, B)
  BY <1>1, <1>4, <1>5, <1>6, BootLaid
<1>8. Words(pc, mem, high, late)
  BY <1>1, <1>2 DEF Words
<1>9. Stage(pc, mem, high, late)
  BY <1>1, <1>2, <1>3, <1>7, <1>8 DEF Stage
<1>10. Cached(pc, tlb)
  <2>1. F(2) # NoPage
    BY Places DEF NoPage
  <2> QED
    BY <1>1, <2>1, Addresses DEF Cached
<1>11. Variables(pc, pa)
  BY <1>1, KernelMemoryAssumption DEF Variables, Pages
<1>12. printed \in [ReadsBefore(pc) -> Nat] /\ DOMAIN printed = {}
  BY <1>1 DEF ReadsBefore
<1>13. FreshAndShared
  BY <1>12 DEF FreshAndShared, PrintsExpected
<1> QED
  BY <1>1, <1>2, <1>9, <1>10, <1>11, <1>12, <1>13 DEF Inv

(* Every step keeps the invariant.                                         *)
LEMMA NextInv == ASSUME Inv, [Next]_vars PROVE Inv'
<1>1. CASE CallMmap
  BY <1>1, MmapInv
<1>2. CASE CallMunmap
  BY <1>2, MunmapInv
<1>3. CASE CallAlloc
  BY <1>3, AllocInv
<1>4. CASE CallMap
  BY <1>4, MapInv
<1>5. CASE CallUnmap
  BY <1>5, UnmapInv
<1>6. CASE CallFree
  BY <1>6, FreeInv
<1>7. CASE PageFault
  BY <1>7, PageFaultInv
<1>8. CASE Read
  BY <1>8, ReadInv
<1>9. CASE Write
  BY <1>9, WriteInv
<1>10. CASE Fill
  BY <1>10, FillInv
<1>11. CASE Evict
  BY <1>11, EvictInv
<1>12. CASE Dead \/ UNCHANGED vars
  <2>1. mem' = mem /\ tlb' = tlb /\ pc' = pc /\ pa' = pa /\ printed' = printed
    BY <1>12 DEF Dead, vars
  <2>2. \E h, l \in BOOLEAN : Stage(pc', mem', h, l)
    BY <2>1 DEF Inv
  <2>3. Cached(pc', tlb') /\ Variables(pc', pa') /\ pc' \in 1 .. 38
    BY <2>1 DEF Inv
  <2>4. printed' \in [ReadsBefore(pc') -> Nat] /\ FreshAndShared'
    BY <2>1 DEF Inv, FreshAndShared, PrintsExpected
  <2> QED
    BY <2>2, <2>3, <2>4 DEF Inv
<1> QED
  BY <1>1, <1>2, <1>3, <1>4, <1>5, <1>6, <1>7, <1>8, <1>9, <1>10, <1>11, <1>12 DEF Next, Step

(* The invariant of do_stuff: at each position the tables, the pool, the   *)
(* cached translations, the variables and the data are what main.c made    *)
(* them.                                                                   *)
THEOREM GuestInvariant == Spec => []Inv
<1>1. Init => Inv
  BY InitInv
<1>2. Inv /\ [Next]_vars => Inv'
  BY NextInv
<1> QED
  BY <1>1, <1>2, PTL DEF Spec
-------------------------------------------------------------------------------
(* The tables on the way to an address.                                    *)
LEMMA Paths ==
  ASSUME NEW e \in Frames, NEW B, Laid(mem, e, B), NEW v \in VPages
  PROVE  /\ v \in {LOW_0, LOW_1} =>
              TablePath(v) = IF F(1) \in B THEN <<Pml4, Pml3, Pml2, F(1)>>
                             ELSE <<Pml4, Pml3, Pml2>>
         /\ v \in {HIGH_0, HIGH_1} =>
              TablePath(v) = IF F(3) \in B THEN <<Pml4, Pml3, F(2), F(3)>>
                             ELSE <<Pml4, Pml3>>
<1>1. PICK e4, e3, e2 : /\ e4 = Entry4(mem, Pml4, v) /\ e3 = Entry3(mem, Pml4, v)
                        /\ e2 = Entry2(mem, Pml4, v)
  OBVIOUS
<1>2. TablePath(v) =
        IF ~Present(e4) THEN <<Pml4>>
        ELSE IF ~Present(e3) THEN <<Pml4, PageOf(e4)>>
        ELSE IF ~Present(e2) THEN <<Pml4, PageOf(e4), PageOf(e3)>>
        ELSE <<Pml4, PageOf(e4), PageOf(e3), PageOf(e2)>>
  BY <1>1 DEF TablePath
<1>3. /\ Pml3 \in Nat /\ Pml2 \in Nat /\ F(1) \in Nat /\ F(2) \in Nat /\ F(3) \in Nat
      /\ F(1) # 0 /\ F(2) # 0 /\ F(3) # 0
  BY Places DEF Pml3, Pml2
<1>4. /\ e4 = UserPte(Pml3)
      /\ v \in {LOW_0, LOW_1} =>
           e3 = UserPte(Pml2) /\ e2 = Pte(IF F(1) \in B THEN F(1) ELSE 0)
      /\ v \in {HIGH_0, HIGH_1} =>
           e3 = Pte(IF F(3) \in B THEN F(2) ELSE 0) /\ (F(3) \in B => e2 = Pte(F(3)))
  BY <1>1, EntriesLaid
<1>5. Present(e4) /\ PageOf(e4) = Pml3
  BY <1>3, <1>4, Ptes
<1>6. ASSUME v \in {LOW_0, LOW_1}
      PROVE  TablePath(v) = IF F(1) \in B THEN <<Pml4, Pml3, Pml2, F(1)>>
                            ELSE <<Pml4, Pml3, Pml2>>
  <2>1. Present(e3) /\ PageOf(e3) = Pml2
    BY <1>3, <1>4, <1>6, Ptes
  <2>2. CASE F(1) \in B
    <3>1. Present(e2) /\ PageOf(e2) = F(1)
      BY <1>3, <1>4, <1>6, <2>2, PteFacts
    <3> QED
      BY <1>2, <1>5, <2>1, <2>2, <3>1
  <2>3. CASE F(1) \notin B
    <3>1. ~Present(e2)
      BY <1>4, <1>6, <2>3, PteFacts
    <3> QED
      BY <1>2, <1>5, <2>1, <2>3, <3>1
  <2> QED
    BY <2>2, <2>3
<1>7. ASSUME v \in {HIGH_0, HIGH_1}
      PROVE  TablePath(v) = IF F(3) \in B THEN <<Pml4, Pml3, F(2), F(3)>>
                            ELSE <<Pml4, Pml3>>
  <2>1. CASE F(3) \in B
    <3>1. Present(e3) /\ PageOf(e3) = F(2) /\ Present(e2) /\ PageOf(e2) = F(3)
      BY <1>3, <1>4, <1>7, <2>1, PteFacts
    <3> QED
      BY <1>2, <1>5, <2>1, <3>1
  <2>2. CASE F(3) \notin B
    <3>1. ~Present(e3)
      BY <1>4, <1>7, <2>2, PteFacts
    <3> QED
      BY <1>2, <1>5, <2>2, <3>1
  <2> QED
    BY <2>1, <2>2
<1> QED
  BY <1>6, <1>7

(* The tables and the frames in use at position k: page 1 of the pool is a *)
(* table from the first mapping on, pages 2 and 3 once HIGH_0 is mapped.   *)
LEMMA InUse ==
  ASSUME NEW k \in 1 .. 38, NEW high, NEW late, Stage(k, mem, high, late)
  PROVE  /\ TablePages = {Pml4, Pml3, Pml2} \cup (IF k > 1 THEN {F(1)} ELSE {})
                         \cup (IF high THEN {F(2), F(3)} ELSE {})
         /\ MappedFrames = {FrameLow0(k), FrameLow1(k), FrameHigh0(high), FrameHigh1(late)} \ {0}
         /\ mem.bits = Held(k, high, late) /\ mem \in Memory /\ mem.alive
<1>1. PICK e, B : e = FrameAt(k, high, late) /\ B = Held(k, high, late)
  OBVIOUS
<1>2. high \in BOOLEAN /\ late \in BOOLEAN /\ Laid(mem, e, B) /\ (late => high)
      /\ (high => k >= 33)
  BY <1>1 DEF Stage
<1>3. /\ e \in Frames /\ e[LOW_0] = FrameLow0(k) /\ e[LOW_1] = FrameLow1(k)
      /\ e[HIGH_0] = FrameHigh0(high) /\ e[HIGH_1] = FrameHigh1(late)
  BY <1>1, <1>2, FramesAre
<1>4. VPages = {LOW_0, LOW_1, HIGH_0, HIGH_1}
  BY DEF VPages
<1>5. /\ F(0) # F(1) /\ F(0) # F(3) /\ F(1) # F(2) /\ F(1) # F(3) /\ F(1) # F(4)
      /\ F(2) # F(3) /\ F(3) # F(4)
  BY Places
<1>6. (F(1) \in B <=> k > 1) /\ (F(3) \in B <=> high)
  BY <1>1, <1>5 DEF Held
<1>7. \A v \in VPages : Mapped(mem, v) <=> e[v] # 0
  <2>1. ASSUME NEW v \in VPages PROVE Mapped(mem, v) <=> e[v] # 0
    <3>1. e[v] = FrameAt(k, high, late)[v]
      BY <1>1
    <3> QED
      BY <2>1, <3>1, StageMapped
  <2> QED
    BY <2>1
<1>8. \A v \in VPages : e[v] # 0 => PageOf(Entry1(mem, Pml4, v)) = e[v]
  <2>1. ASSUME NEW v \in VPages PROVE e[v] # 0 => PageOf(Entry1(mem, Pml4, v)) = e[v]
    <3>1. e[v] = FrameAt(k, high, late)[v]
      BY <1>1
    <3> QED
      BY <2>1, <3>1, StageMapped
  <2> QED
    BY <2>1
<1>9. MappedFrames = {e[v] : v \in VPages} \ {0}
  BY <1>7, <1>8 DEF MappedFrames, MappedPages
<1>10. {e[v] : v \in VPages} = {FrameLow0(k), FrameLow1(k), FrameHigh0(high), FrameHigh1(late)}
  BY <1>3, <1>4
<1>11. \A v \in {LOW_0, LOW_1} :
         {TablePath(v)[i] : i \in DOMAIN TablePath(v)} =
           {Pml4, Pml3, Pml2} \cup IF k > 1 THEN {F(1)} ELSE {}
  <2>1. ASSUME NEW v \in {LOW_0, LOW_1}
        PROVE  {TablePath(v)[i] : i \in DOMAIN TablePath(v)} =
                 {Pml4, Pml3, Pml2} \cup IF k > 1 THEN {F(1)} ELSE {}
    <3>1. TablePath(v) = IF k > 1 THEN <<Pml4, Pml3, Pml2, F(1)>> ELSE <<Pml4, Pml3, Pml2>>
      BY <1>2, <1>3, <1>4, <1>6, <2>1, Paths
    <3> QED
      BY <3>1
  <2> QED
    BY <2>1
<1>12. \A v \in {HIGH_0, HIGH_1} :
         {TablePath(v)[i] : i \in DOMAIN TablePath(v)} =
           {Pml4, Pml3} \cup IF high THEN {F(2), F(3)} ELSE {}
  <2>1. ASSUME NEW v \in {HIGH_0, HIGH_1}
        PROVE  {TablePath(v)[i] : i \in DOMAIN TablePath(v)} =
                 {Pml4, Pml3} \cup IF high THEN {F(2), F(3)} ELSE {}
    <3>1. TablePath(v) = IF high THEN <<Pml4, Pml3, F(2), F(3)>> ELSE <<Pml4, Pml3>>
      BY <1>2, <1>3, <1>4, <1>6, <2>1, Paths
    <3> QED
      BY <3>1
  <2> QED
    BY <2>1
<1>13. TablePages = {Pml4, Pml3, Pml2} \cup (IF k > 1 THEN {F(1)} ELSE {})
                     \cup (IF high THEN {F(2), F(3)} ELSE {})
  BY <1>4, <1>11, <1>12 DEF TablePages
<1> QED
  BY <1>1, <1>2, <1>9, <1>10, <1>13 DEF Laid


(* Tables and frames, from the invariant.                                  *)
LEMMA InvSeparate == ASSUME Inv PROVE TablesSeparate
<1>1. PICK high \in BOOLEAN, late \in BOOLEAN : Stage(pc, mem, high, late)
  BY DEF Inv
<1>2. pc \in 1 .. 38
  BY DEF Inv
<1>3. PICK e, B : e = FrameAt(pc, high, late) /\ B = Held(pc, high, late)
  OBVIOUS
<1>4. Laid(mem, e, B) /\ (high => pc >= 33) /\ e \in Frames
  BY <1>1, <1>2, <1>3, FramesAre DEF Stage
<1>5. /\ \A k \in 0 .. 4 : F(k) # Pml4 /\ F(k) # Pml3 /\ F(k) # Pml2
      /\ Pml4 # Pml3 /\ Pml4 # Pml2 /\ Pml3 # Pml2
  BY Places
<1>6. /\ F(0) \notin {Pml4, Pml3, Pml2} /\ F(1) \notin {Pml4, Pml3, Pml2}
      /\ F(2) \notin {Pml4, Pml3, Pml2} /\ F(3) \notin {Pml4, Pml3, Pml2}
      /\ F(4) \notin {Pml4, Pml3, Pml2}
      /\ F(0) # F(1) /\ F(0) # F(2) /\ F(0) # F(3) /\ F(1) # F(2) /\ F(1) # F(3)
      /\ F(1) # F(4) /\ F(2) # F(3) /\ F(2) # F(4) /\ F(3) # F(4)
  BY <1>5, Places
<1>7. TablePages \cap MappedFrames = {}
  <2>1. /\ TablePages = {Pml4, Pml3, Pml2} \cup (IF pc > 1 THEN {F(1)} ELSE {})
                        \cup (IF high THEN {F(2), F(3)} ELSE {})
        /\ MappedFrames = {FrameLow0(pc), FrameLow1(pc), FrameHigh0(high), FrameHigh1(late)} \ {0}
    BY <1>1, <1>2, InUse
  <2>2. /\ FrameLow0(pc) \in {0, F(0), F(2)} /\ FrameLow1(pc) \in {0, F(0), F(2)}
        /\ FrameHigh0(high) \in {0, F(0)} /\ FrameHigh1(late) \in {0, F(4)}
        /\ high => FrameLow0(pc) = 0 /\ FrameLow1(pc) = 0
    BY <1>2, <1>4 DEF FrameLow0, FrameLow1, FrameHigh0, FrameHigh1
  <2> QED
    BY <1>6, <2>1, <2>2
<1>8. \A v \in VPages :
        /\ v \in {LOW_0, LOW_1} =>
             TablePath(v) = IF F(1) \in B THEN <<Pml4, Pml3, Pml2, F(1)>>
                            ELSE <<Pml4, Pml3, Pml2>>
        /\ v \in {HIGH_0, HIGH_1} =>
             TablePath(v) = IF F(3) \in B THEN <<Pml4, Pml3, F(2), F(3)>>
                            ELSE <<Pml4, Pml3>>
  BY <1>4, Paths
<1>9. ASSUME NEW v \in VPages, NEW w \in VPages,
             NEW k \in DOMAIN TablePath(v) \cap DOMAIN TablePath(w)
      PROVE  TablePath(v)[k] = TablePath(w)[k] <=> \A i \in 1 .. k - 1 : v[i] = w[i]
  <2>1. /\ v \in {LOW_0, LOW_1} \/ v \in {HIGH_0, HIGH_1}
        /\ w \in {LOW_0, LOW_1} \/ w \in {HIGH_0, HIGH_1}
    BY DEF VPages
  <2>2. k \in 1 .. 4
    BY <1>8, <2>1
  <2>3. CASE v \in {LOW_0, LOW_1} /\ w \in {LOW_0, LOW_1}
    <3>1. TablePath(v) = TablePath(w)
      BY <1>8, <2>3
    <3>2. v[1] = w[1] /\ v[2] = w[2] /\ v[3] = w[3]
      BY <2>3, Addresses
    <3>3. \A i \in 1 .. k - 1 : v[i] = w[i]
      BY <2>2, <3>2
    <3> QED
      BY <3>1, <3>3
  <2>4. CASE v \in {HIGH_0, HIGH_1} /\ w \in {HIGH_0, HIGH_1}
    <3>1. TablePath(v) = TablePath(w)
      BY <1>8, <2>4
    <3>2. v[1] = w[1] /\ v[2] = w[2] /\ v[3] = w[3]
      BY <2>4, Addresses
    <3>3. \A i \in 1 .. k - 1 : v[i] = w[i]
      BY <2>2, <3>2
    <3> QED
      BY <3>1, <3>3
  <2>5. ASSUME NEW x \in {LOW_0, LOW_1}, NEW y \in {HIGH_0, HIGH_1},
               NEW j \in DOMAIN TablePath(x) \cap DOMAIN TablePath(y)
        PROVE  /\ TablePath(x)[j] = TablePath(y)[j] <=> j \in {1, 2}
               /\ (\A i \in 1 .. j - 1 : x[i] = y[i]) <=> j \in {1, 2}
    <3>1. x \in VPages /\ y \in VPages
      BY Addresses
    <3>2. /\ TablePath(x) = <<Pml4, Pml3, Pml2, F(1)>> \/ TablePath(x) = <<Pml4, Pml3, Pml2>>
          /\ TablePath(y) = <<Pml4, Pml3, F(2), F(3)>> \/ TablePath(y) = <<Pml4, Pml3>>
      BY <1>8, <2>5, <3>1
    <3>3. j \in 1 .. 4
      BY <2>5, <3>2
    <3>4. TablePath(x)[j] = TablePath(y)[j] <=> j \in {1, 2}
      BY <1>6, <2>5, <3>2, <3>3
    <3>5. x[1] = y[1] /\ x[2] # y[2]
      BY Addresses
    <3>6. (\A i \in 1 .. j - 1 : x[i] = y[i]) <=> j \in {1, 2}
      BY <3>3, <3>5
    <3> QED
      BY <3>4, <3>6
  <2>6. CASE v \in {LOW_0, LOW_1} /\ w \in {HIGH_0, HIGH_1}
    BY <1>9, <2>5, <2>6
  <2>7. CASE v \in {HIGH_0, HIGH_1} /\ w \in {LOW_0, LOW_1}
    <3>1. /\ TablePath(w)[k] = TablePath(v)[k] <=> k \in {1, 2}
          /\ (\A i \in 1 .. k - 1 : w[i] = v[i]) <=> k \in {1, 2}
      BY <1>9, <2>5, <2>7
    <3> QED
      BY <3>1
  <2> QED
    BY <2>1, <2>3, <2>4, <2>6, <2>7
<1> QED
  BY <1>7, <1>9 DEF TablesSeparate

(* The pool, from the invariant.                                           *)
LEMMA InvAccounted == ASSUME Inv PROVE PoolAccounted
<1>1. PICK high \in BOOLEAN, late \in BOOLEAN : Stage(pc, mem, high, late)
  BY DEF Inv
<1>2. pc \in 1 .. 38 /\ (high => pc >= 33) /\ (pc >= 34 => high) /\ (late => high)
  BY <1>1 DEF Inv, Stage
<1>3. /\ TablePages = {Pml4, Pml3, Pml2} \cup (IF pc > 1 THEN {F(1)} ELSE {})
                      \cup (IF high THEN {F(2), F(3)} ELSE {})
      /\ MappedFrames = {FrameLow0(pc), FrameLow1(pc), FrameHigh0(high), FrameHigh1(late)} \ {0}
      /\ mem.bits = Held(pc, high, late)
  BY <1>1, <1>2, InUse
<1>4. Pml4 \notin Pool /\ Pml3 \notin Pool /\ Pml2 \notin Pool
  BY KernelMemoryAssumption, GuestPagingAssumption DEF Pml4, Pml3, Pml2, Pool
<1>5. F(0) \in Pool /\ F(1) \in Pool /\ F(2) \in Pool /\ F(3) \in Pool /\ F(4) \in Pool
  BY Places
<1>6. F(0) # 0 /\ F(2) # 0 /\ F(4) # 0
  BY Places
<1>7. TablePages \cap Pool = (IF pc > 1 THEN {F(1)} ELSE {})
                             \cup (IF high THEN {F(2), F(3)} ELSE {})
  BY <1>3, <1>4, <1>5
<1>8. TablePages \cap Pool \subseteq mem.bits
  BY <1>2, <1>3, <1>7 DEF Held
<1>9. MappedFrames \subseteq mem.bits
  <2>1. FrameLow0(pc) # 0 => FrameLow0(pc) \in mem.bits
    BY <1>2, <1>3 DEF Held, FrameLow0
  <2>2. FrameLow1(pc) # 0 => FrameLow1(pc) \in mem.bits
    BY <1>2, <1>3 DEF Held, FrameLow1
  <2>3. FrameHigh0(high) # 0 => FrameHigh0(high) \in mem.bits
    BY <1>3 DEF Held, FrameHigh0
  <2>4. FrameHigh1(late) # 0 => FrameHigh1(late) \in mem.bits
    BY <1>3 DEF Held, FrameHigh1
  <2> QED
    BY <1>3, <2>1, <2>2, <2>3, <2>4
<1>10. (pc >= 9 => pa[0] = F(0)) /\ (pc >= 22 => pa[1] = F(2))
  BY DEF Inv, Variables
<1>11. F(0) \in mem.bits => F(0) \in MappedFrames \cup {pa[0], pa[1]}
  <2>1. CASE pc >= 9
    BY <1>10, <2>1
  <2>2. CASE pc < 9
    <3>1. F(0) # F(1) /\ F(0) # F(2) /\ F(0) # F(3) /\ F(0) # F(4)
      BY Places
    <3>2. F(0) \in mem.bits => pc \in {2, 3, 4, 6, 7}
      BY <1>2, <1>3, <2>2, <3>1 DEF Held
    <3>3. pc \in {2, 3, 4, 6, 7} => FrameLow0(pc) = F(0)
      BY DEF FrameLow0
    <3> QED
      BY <1>3, <1>6, <3>2, <3>3
  <2> QED
    BY <1>2, <2>1, <2>2
<1>12. mem.bits \subseteq TablePages \cup MappedFrames \cup {pa[0], pa[1]}
  <2>1. late => F(4) \in MappedFrames
    BY <1>3, <1>6 DEF FrameHigh1
  <2>2. pc \in 22 .. 31 => F(2) = pa[1]
    BY <1>10
  <2>3. mem.bits \subseteq {F(0)} \cup (IF pc > 1 THEN {F(1)} ELSE {})
          \cup (IF pc \in 22 .. 31 \/ high THEN {F(2)} ELSE {})
          \cup (IF high THEN {F(3)} ELSE {}) \cup (IF late THEN {F(4)} ELSE {})
    BY <1>3 DEF Held
  <2> QED
    BY <1>3, <1>11, <2>1, <2>2, <2>3
<1>13. ASSUME pc > 37 PROVE mem.bits = (TablePages \cap Pool) \cup MappedFrames
  <2>1. pc = 38 /\ high
    BY <1>2, <1>13
  <2>2. mem.bits = {F(0), F(1), F(2), F(3)} \cup (IF late THEN {F(4)} ELSE {})
    BY <1>3, <2>1 DEF Held
  <2>3. F(0) \in MappedFrames /\ (late => F(4) \in MappedFrames)
    BY <1>3, <1>6, <2>1 DEF FrameHigh0, FrameHigh1
  <2>4. {F(1), F(2), F(3)} \subseteq TablePages \cap Pool
    BY <1>7, <2>1
  <2> QED
    BY <1>8, <1>9, <2>2, <2>3, <2>4
<1>14. Len(do_stuff) = 37
  BY ProgramText
<1> QED
  BY <1>8, <1>9, <1>12, <1>13, <1>14 DEF PoolAccounted

(* The memory, the position and what was printed have their types.         *)
THEOREM GuestTypes == Spec => []TypeOK
<1>1. Inv => TypeOK
  <2>1. SUFFICES ASSUME Inv PROVE TypeOK
    OBVIOUS
  <2>2. mem \in Memory
    BY <2>1 DEF Inv, Stage, Laid
  <2>3. tlb \in [VPages -> Pages \cup {NoPage}] /\ pa \in [0 .. 1 -> Pages]
    BY <2>1 DEF Inv, Cached, Variables
  <2>4. pc \in 1 .. Len(do_stuff) + 1
    BY <2>1, ProgramText DEF Inv
  <2>5. printed \in [{k \in 1 .. pc - 1 : do_stuff[k].op = "read"} -> Nat]
    BY <2>1 DEF Inv, ReadsBefore
  <2> QED
    BY <2>2, <2>3, <2>4, <2>5 DEF TypeOK
<1> QED
  BY <1>1, GuestInvariant, PTL

(* Whatever the pool's size, no page of it is at once a page table and a   *)
(* frame of the program, and two addresses share the tables their indexes  *)
(* say and no others, through every free, remapping and fault of main.c.   *)
THEOREM GuestTablesSeparate == Spec => []TablesSeparate
<1>1. Inv => TablesSeparate
  BY InvSeparate
<1> QED
  BY <1>1, GuestInvariant, PTL

(* The bit set of the pool and the page tables agree: alloc_page and       *)
(* free_page on one side, map_page and unmap_page on the other, and the    *)
(* scenarios of main.c leave no frame behind but the automatic pages.      *)
THEOREM GuestPoolAccounted == Spec => []PoolAccounted
<1>1. Inv => PoolAccounted
  BY InvAccounted
<1> QED
  BY <1>1, GuestInvariant, PTL

(* main.c never meets the die() of free_page or of pgfault.                *)
THEOREM GuestStaysUp == Spec => []KernelStaysUp
<1>1. Inv => KernelStaysUp
  BY DEF Inv, Stage, Laid, KernelStaysUp
<1> QED
  BY <1>1, GuestInvariant, PTL

(* Whatever the processor keeps in its cache and whenever it drops it, the *)
(* reads of an address that kept its frame print what main.c expects.      *)
THEOREM GuestPrints == Spec => []FreshAndShared
<1>1. Inv => FreshAndShared
  BY DEF Inv
<1> QED
  BY <1>1, GuestInvariant, PTL
===============================================================================
