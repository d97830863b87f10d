-------------------------- MODULE KernelMemoryProofs --------------------------
(***************************************************************************)
(* Lemmas about the operators of KernelMemory, for a pool, tables and a    *)
(* machine of any size: what alloc_page, the walk of map_page, mmap and    *)
(* load_task keep true of the tables that the roots lead to.               *)
(*                                                                         *)
(* Tree says that the pool's used pages are tables and frames, each with   *)
(* the kind its place gives it and one entry, its parent, that refers to   *)
(* it; that an entry is 0 or well formed; and that the pages not used are  *)
(* zero and come after the used ones.                                      *)
(***************************************************************************)
EXTENDS KernelMemory, WellFoundedInduction, TLAPS

(* The virtual pages of the user, past the kernel's first GiB.             *)
Virtual == Indexes \X Indexes \X Indexes \X Indexes
User == {v \in Virtual : v[1] > 0 \/ v[2] > 0}

Kinds == {"pml4", "kpml3", "pml3", "kpml2", "pml2", "kpml1", "pml1", "frame"}
Upper == {"pml4", "kpml3", "pml3", "pml2"}    (* kinds map_page descends from *)

Child(k, i) ==
  CASE k = "pml4" -> IF i = 0 THEN "kpml3" ELSE "pml3"
    [] k = "kpml3" -> IF i = 0 THEN "kpml2" ELSE "pml2"
    [] k = "pml3" -> "pml2"
    [] k = "pml2" -> "pml1"
    [] k = "kpml2" -> "kpml1"
    [] OTHER -> "frame"

(* What entry i of a table of kind k may hold.                             *)
Legal(K, k, i, w) ==
  /\ k \in Upper =>
       w = 0 \/ \E q \in DOMAIN K : w = UserPte(q) /\ K[q] = Child(k, i)
  /\ k = "pml1" =>
       w = 0 \/ \E q \in Nat : /\ w = UserPte(q)
                               /\ q \in Pool => q \in DOMAIN K /\ K[q] = "frame"
  /\ k = "kpml2" =>
       CASE i = 0 -> w = KernelPte(0)
         [] i = 1 -> \E q \in DOMAIN K : w = KernelPte(q) /\ K[q] = "kpml1"
         [] OTHER -> w = 0
  /\ k = "kpml1" => w = IF i = 0 THEN KernelPte(ApicPage) ELSE 0

Tables(K) == {p \in DOMAIN K : K[p] # "frame"}

(* K gives the used pages their kinds and par the entry that refers to     *)
(* each; R is the set of the roots; loose is the frame that alloc_page has *)
(* given and map_page not yet mapped, or NoPage.                           *)
Shape(m, R, K, loose) ==
  /\ m \in Memory
  /\ DOMAIN K \subseteq Pool /\ \A q \in DOMAIN K : K[q] \in Kinds
  /\ R \subseteq DOMAIN K /\ \A q \in DOMAIN K : K[q] = "pml4" <=> q \in R
  /\ loose = NoPage \/ (loose \in DOMAIN K /\ K[loose] = "frame")

FreeLast(K) == \A p \in Pool, q \in DOMAIN K : p < q => p \in DOMAIN K
FreeZero(m, K) == \A p \in Pool \ DOMAIN K : m.ram[p] = ZeroContent

AllLegal(m, K) ==
  \A p \in Tables(K), i \in Indexes : Legal(K, K[p], i, Word(m, p, i))

(* A present entry refers to a page outside the pool or to its own child.  *)
OneParent(m, R, K, par, loose) ==
  \A p \in Tables(K), i \in Indexes :
    LET w == Word(m, p, i) IN
    Present(w) /\ PageOf(w) \in Pool =>
      PageOf(w) # loose /\ PageOf(w) \notin R /\ par[PageOf(w)] = <<p, i>>

EachHasParent(m, R, K, par, loose) ==
  \A q \in DOMAIN K \ (R \cup {loose}) :
    \E p \in Tables(K), i \in Indexes :
      par[q] = <<p, i>> /\ Present(Word(m, p, i)) /\ PageOf(Word(m, p, i)) = q

Tree(m, R, K, par, loose) ==
  /\ Shape(m, R, K, loose)
  /\ FreeLast(K) /\ FreeZero(m, K)
  /\ AllLegal(m, K)
  /\ OneParent(m, R, K, par, loose)
  /\ EachHasParent(m, R, K, par, loose)

(* The tables that lead a user's access from a root to a page.             *)
Path(m, r, v, t3, t2, t1, q) ==
  /\ Word(m, r, v[1]) = UserPte(t3)
  /\ Word(m, t3, v[2]) = UserPte(t2)
  /\ Word(m, t2, v[3]) = UserPte(t1)
  /\ Word(m, t1, v[4]) = UserPte(q)
-------------------------------------------------------------------------------
(* The flags and the page of an entry.                                     *)
LEMMA Ptes ==
  ASSUME NEW q \in Nat
  PROVE  /\ UserPte(q) \in Nat /\ Present(UserPte(q)) /\ UserAllowed(UserPte(q))
         /\ PageOf(UserPte(q)) = q /\ UserPte(q) # 0
         /\ KernelPte(q) \in Nat /\ Present(KernelPte(q)) /\ ~UserAllowed(KernelPte(q))
         /\ PageOf(KernelPte(q)) = q
         /\ ~Present(0) /\ PageOf(0) = 0
BY DEF UserPte, KernelPte, Present, UserAllowed, PageOf, PAGE_SIZE

(* The pool lies in the machine's pages, past page 0; the APIC page does   *)
(* not.                                                                    *)
LEMMA PoolInPages ==
  /\ Pool \subseteq Pages /\ Pool \subseteq Nat \ {0}
  /\ 0 \in Pages /\ 0 \notin Pool /\ ApicPage \in Nat /\ ApicPage \notin Pool
  /\ NoPage \notin Pool
BY KernelMemoryAssumption DEF Pool, Pages, ApicPage, NoPage

(* The memory after a store, a clearing and an allocation, word by word.   *)
LEMMA PutWords ==
  ASSUME NEW m \in Memory, NEW page \in Pages, NEW i \in Indexes, NEW w \in Nat,
         NEW m2, m2 = Put(m, page, i, w)
  PROVE  /\ m2 \in Memory /\ m2.bits = m.bits /\ m2.alive = m.alive
         /\ Word(m2, page, i) = w
         /\ \A p \in Pages, j \in Indexes :
              ~(p = page /\ j = i) => Word(m2, p, j) = Word(m, p, j)
         /\ \A p \in Pages : p # page => m2.ram[p] = m.ram[p]
BY DEF Put, Memory, Word

(* The memory after a page is cleared.                                     *)
LEMMA ZeroWords ==
  ASSUME NEW m \in Memory, NEW page \in Pages, NEW m2, m2 = Zero(m, page)
  PROVE  /\ m2 \in Memory /\ m2.bits = m.bits /\ m2.alive = m.alive
         /\ m2.ram[page] = ZeroContent
         /\ \A p \in Pages : p # page => m2.ram[p] = m.ram[p]
BY DEF Zero, Memory, ZeroContent

(* A set of numbers has a least one: what the proofs by induction rest on. *)
LEMMA LeastNat ==
  ASSUME NEW S \in SUBSET Nat, S # {}
  PROVE  \E p \in S : \A q \in S : p <= q
<1> DEFINE Less == {ss \in Nat \X Nat : ss[1] < ss[2]}
<1>1. OpToRel(<, Nat) = Less
  BY DEF OpToRel
<1>2. IsWellFoundedOn(Less, Nat)
  BY <1>1, NatLessThanWellFounded
<1>3. PICK p \in S : \A q \in S : ~(<<q, p>> \in Less)
  <2> HIDE DEF Less
  <2> QED
    BY <1>2, WFMin
<1>4. ASSUME NEW q \in S PROVE p <= q
  <2>1. p \in Nat /\ q \in Nat /\ ~(q < p)
    <3>1. <<q, p>> \in Nat \X Nat /\ <<q, p>>[1] = q /\ <<q, p>>[2] = p
      OBVIOUS
    <3> QED
      BY <3>1, <1>3
  <2> QED
    BY <2>1
<1> QED
  BY <1>4

(* alloc_page finds the lowest free page (memory.c:24-43).                 *)
LEMMA FirstFreeIsLowest ==
  ASSUME NEW m, Free(m) # {}
  PROVE  FirstFree(m) \in Free(m) /\ \A q \in Free(m) : FirstFree(m) <= q
<1>1. Free(m) \in SUBSET Nat
  BY PoolInPages DEF Free
<1>2. \E p \in Free(m) : \A q \in Free(m) : p <= q
  BY <1>1, LeastNat
<1> QED
  BY <1>2 DEF FirstFree

(* What alloc_page (memory.c:19-43) gives while a page is free.            *)
LEMMA AllocFacts ==
  ASSUME NEW m \in Memory, Free(m) # {}
  PROVE  LET new == FirstFree(m)
         IN /\ AllocPage(m).page = new
            /\ AllocPage(m).mem \in Memory
            /\ AllocPage(m).mem.bits = m.bits \cup {new}
            /\ AllocPage(m).mem.ram = m.ram
            /\ AllocPage(m).mem.alive = m.alive
            /\ new \in Pool \ m.bits
            /\ \A q \in Pool \ m.bits : new <= q
BY FirstFreeIsLowest DEF AllocPage, Free, Memory

(* alloc_page sets at most one bit. *)
LEMMA AllocBits ==
  ASSUME NEW m \in Memory, NEW a, a = AllocPage(m)
  PROVE  a.mem \in Memory /\ m.bits \subseteq a.mem.bits /\ a.page \in Nat
<1>1. CASE Free(m) = {}
  BY <1>1 DEF AllocPage
<1>2. CASE Free(m) # {}
  <2>1. /\ a.page = FirstFree(m) /\ FirstFree(m) \in Pool
        /\ a.mem \in Memory /\ a.mem.bits = m.bits \cup {FirstFree(m)}
    BY <1>2, AllocFacts
  <2> QED
    BY <2>1, PoolInPages
<1> QED
  BY <1>1, <1>2

(* The same, of the pair that alloc_page returns.                          *)
LEMMA AllocNew ==
  ASSUME NEW m \in Memory, Free(m) # {}, NEW a, a = AllocPage(m)
  PROVE  /\ a.mem \in Memory /\ a.mem.ram = m.ram /\ a.mem.alive = m.alive
         /\ a.mem.bits = m.bits \cup {a.page}
         /\ a.page \in Pool \ m.bits /\ \A q \in Pool \ m.bits : a.page <= q
<1>1. a.page = FirstFree(m)
  BY DEF AllocPage
<1>2. /\ a.mem \in Memory /\ a.mem.ram = m.ram /\ a.mem.alive = m.alive
      /\ a.mem.bits = m.bits \cup {FirstFree(m)}
      /\ FirstFree(m) \in Pool \ m.bits /\ \A q \in Pool \ m.bits : FirstFree(m) <= q
  BY AllocFacts
<1> QED
  BY <1>1, <1>2
-------------------------------------------------------------------------------
(* A present entry of an upper level refers to a table of the next level.  *)
LEMMA LegalDown ==
  ASSUME NEW K, NEW k \in Upper, NEW i, NEW w, Legal(K, k, i, w), Present(w)
  PROVE  \E q \in DOMAIN K : w = UserPte(q) /\ K[q] = Child(k, i)
<1>1. 0 \in Nat
  OBVIOUS
<1>2. ~Present(0)
  BY <1>1, Ptes
<1>3. w # 0
  BY <1>2
<1>4. w = 0 \/ \E q \in DOMAIN K : w = UserPte(q) /\ K[q] = Child(k, i)
  BY DEF Legal
<1> QED
  BY <1>3, <1>4

(* The walk of the processor goes down the levels of the tree.             *)
LEMMA WalkDown ==
  ASSUME NEW m, NEW R, NEW K, NEW par, NEW loose, Tree(m, R, K, par, loose),
         NEW r \in R, NEW v \in User, Translate(m, r, v) # NoPage
  PROVE  \E t3, t2, t1 \in DOMAIN K, q \in Nat :
           /\ Path(m, r, v, t3, t2, t1, q) /\ Translate(m, r, v) = q
           /\ K[t3] \in {"kpml3", "pml3"} /\ K[t2] = "pml2" /\ K[t1] = "pml1"
           /\ K[t3] = "kpml3" => v[2] # 0
<1> USE DEF Index
<1>1. /\ v[1] \in Indexes /\ v[2] \in Indexes /\ v[3] \in Indexes /\ v[4] \in Indexes
      /\ v[1] = 0 => v[2] # 0
  BY DEF User, Virtual, Indexes
<1>2. /\ Present(Entry4(m, r, v)) /\ Present(Entry3(m, r, v))
      /\ Present(Entry2(m, r, v)) /\ Present(Entry1(m, r, v))
      /\ Translate(m, r, v) = PageOf(Entry1(m, r, v))
  BY DEF Translate
<1>3. \A p \in Tables(K), i \in Indexes : Legal(K, K[p], i, Word(m, p, i))
  BY DEF Tree, AllLegal
<1>4. DOMAIN K \subseteq Nat
  BY PoolInPages DEF Tree, Shape
<1>5. r \in DOMAIN K /\ K[r] = "pml4"
  BY DEF Tree, Shape
<1>6. PICK t3 \in DOMAIN K : /\ Word(m, r, v[1]) = UserPte(t3)
                             /\ K[t3] = Child("pml4", v[1])
  <2>1. r \in Tables(K) /\ K[r] \in Upper /\ Present(Word(m, r, v[1]))
    BY <1>2, <1>5 DEF Entry4, Tables, Upper
  <2>2. Legal(K, K[r], v[1], Word(m, r, v[1]))
    BY <1>1, <1>3, <2>1
  <2> QED
    BY <1>5, <2>1, <2>2, LegalDown
<1>7. PICK t2 \in DOMAIN K : Word(m, t3, v[2]) = UserPte(t2) /\ K[t2] = "pml2"
  <2>1. PageOf(Entry4(m, r, v)) = t3
    BY <1>4, <1>6, Ptes DEF Entry4
  <2>2. t3 \in Tables(K) /\ K[t3] \in Upper /\ Child(K[t3], v[2]) = "pml2"
    BY <1>1, <1>6 DEF Child, Tables, Upper
  <2>3. Present(Word(m, t3, v[2]))
    BY <1>2, <2>1 DEF Entry3
  <2>4. Legal(K, K[t3], v[2], Word(m, t3, v[2]))
    BY <1>1, <1>3, <2>2
  <2> QED
    BY <2>2, <2>3, <2>4, LegalDown
<1>8. PICK t1 \in DOMAIN K : Word(m, t2, v[3]) = UserPte(t1) /\ K[t1] = "pml1"
  <2>1. PageOf(Entry3(m, r, v)) = t2
    BY <1>4, <1>6, <1>7, Ptes DEF Entry3, Entry4
  <2>2. t2 \in Tables(K) /\ K[t2] \in Upper /\ Child(K[t2], v[3]) = "pml1"
    BY <1>7 DEF Child, Tables, Upper
  <2>3. Present(Word(m, t2, v[3]))
    BY <1>2, <2>1 DEF Entry2
  <2>4. Legal(K, K[t2], v[3], Word(m, t2, v[3]))
    BY <1>1, <1>3, <2>2
  <2> QED
    BY <2>2, <2>3, <2>4, LegalDown
<1>9. PICK q \in Nat : Word(m, t1, v[4]) = UserPte(q)
  <2>1. PageOf(Entry2(m, r, v)) = t1
    BY <1>4, <1>6, <1>7, <1>8, Ptes DEF Entry2, Entry3, Entry4
  <2>2. t1 \in Tables(K)
    BY <1>8 DEF Tables
  <2>3. Present(Word(m, t1, v[4]))
    BY <1>2, <2>1 DEF Entry1
  <2>4. Legal(K, "pml1", v[4], Word(m, t1, v[4]))
    BY <1>1, <1>3, <1>8, <2>2
  <2>5. ~Present(0)
    <3>1. 0 \in Nat
      OBVIOUS
    <3> QED
      BY <3>1, Ptes
  <2>6. Word(m, t1, v[4]) # 0
    BY <2>3, <2>5
  <2> QED
    BY <2>4, <2>6 DEF Legal
<1>10. Translate(m, r, v) = q
  BY <1>2, <1>4, <1>6, <1>7, <1>8, <1>9, Ptes DEF Entry1, Entry2, Entry3, Entry4
<1>11. K[t3] \in {"kpml3", "pml3"} /\ (K[t3] = "kpml3" => v[2] # 0)
  BY <1>1, <1>6 DEF Child
<1> QED
  BY <1>6, <1>7, <1>8, <1>9, <1>10, <1>11 DEF Path

(* A path of user entries is what the processor follows.                   *)
LEMMA PathTranslates ==
  ASSUME NEW m, NEW r, NEW v, NEW t3 \in Nat, NEW t2 \in Nat, NEW t1 \in Nat, NEW q \in Nat,
         Path(m, r, v, t3, t2, t1, q)
  PROVE  Translate(m, r, v) = q
<1>1. /\ Entry4(m, r, v) = UserPte(t3) /\ Entry3(m, r, v) = UserPte(t2)
      /\ Entry2(m, r, v) = UserPte(t1) /\ Entry1(m, r, v) = UserPte(q)
  BY Ptes DEF Path, Entry4, Entry3, Entry2, Entry1, Index
<1> QED
  BY <1>1, Ptes DEF Translate
-------------------------------------------------------------------------------
(* f with the value x at new, on S and new.                                *)
Grown(f, S, new, x) == [q \in S \cup {new} |-> IF q = new THEN x ELSE f[q]]

(* What a table refers to in the pool is used. *)
LEMMA TargetUsed ==
  ASSUME NEW m, NEW R, NEW K, NEW par, NEW loose, Tree(m, R, K, par, loose),
         NEW x \in Tables(K), NEW j \in Indexes,
         Present(Word(m, x, j)), PageOf(Word(m, x, j)) \in Pool
  PROVE  PageOf(Word(m, x, j)) \in DOMAIN K
<1>1. Legal(K, K[x], j, Word(m, x, j)) /\ DOMAIN K \subseteq Pool
  BY DEF Tree, AllLegal, Shape
<1>2. K[x] \in Kinds \ {"frame"}
  BY DEF Tree, Shape, Tables
<1> QED
  BY <1>1, <1>2, Ptes, PoolInPages DEF Legal, Kinds, Upper

(* A present entry that leads into the pool leads to a page of the kind of *)
(* its place.                                                              *)
LEMMA ChildKind ==
  ASSUME NEW m, NEW R, NEW K, NEW par, NEW loose, Tree(m, R, K, par, loose),
         NEW x \in Tables(K), NEW j \in Indexes,
         Present(Word(m, x, j)), PageOf(Word(m, x, j)) \in Pool
  PROVE  /\ PageOf(Word(m, x, j)) \in DOMAIN K
         /\ K[PageOf(Word(m, x, j))] = Child(K[x], j)
<1>1. Legal(K, K[x], j, Word(m, x, j)) /\ DOMAIN K \subseteq Nat
  BY PoolInPages DEF Tree, AllLegal, Shape
<1>2. K[x] \in Kinds \ {"frame"}
  BY DEF Tree, Shape, Tables
<1>3. CASE K[x] \in Upper
  BY <1>1, <1>3, Ptes DEF Legal
<1>4. CASE K[x] = "pml1"
  <2>1. Child("pml1", j) = "frame"
    BY DEF Child
  <2> QED
    BY <1>1, <1>4, <2>1, Ptes DEF Legal
<1>5. CASE K[x] = "kpml2"
  <2>1. Child("kpml2", j) = "kpml1"
    BY DEF Child
  <2> QED
    BY <1>1, <1>5, <2>1, Ptes, PoolInPages DEF Legal
<1>6. CASE K[x] = "kpml1"
  BY <1>1, <1>6, Ptes, PoolInPages DEF Legal
<1> QED
  BY <1>2, <1>3, <1>4, <1>5, <1>6 DEF Kinds, Upper

(* The lowest free page keeps the free pages last. *)
LEMMA GrownFreeLast ==
  ASSUME NEW K, FreeLast(K), DOMAIN K \subseteq Pool, NEW new \in Pool \ DOMAIN K,
         \A q \in Pool \ DOMAIN K : new <= q,
         NEW K2, DOMAIN K2 = DOMAIN K \cup {new}
  PROVE  FreeLast(K2)
<1> SUFFICES ASSUME NEW x \in Pool, NEW q \in DOMAIN K2, x < q PROVE x \in DOMAIN K2
  BY DEF FreeLast
<1>1. CASE q \in DOMAIN K
  BY <1>1 DEF FreeLast
<1>2. CASE q = new
  <2>1. x \in Nat /\ new \in Nat /\ x < new
    BY <1>2, PoolInPages
  <2>2. ~(new <= x)
    BY <2>1
  <2> QED
    BY <2>2
<1> QED
  BY <1>1, <1>2

(* A level of map_page's walk that allocates a table (memory.c:119-127):   *)
(* the page comes zeroed, and the entry that links it is its one parent.   *)
LEMMA GrowTree ==
  ASSUME NEW m, NEW R, NEW K, NEW par, NEW loose, Tree(m, R, K, par, loose),
         m.bits = DOMAIN K, Free(m) # {},
         NEW p \in DOMAIN K, NEW i \in Indexes, Word(m, p, i) = 0,
         K[p] \in Upper, ~(K[p] = "kpml3" /\ i = 0),
         NEW new, new = FirstFree(m),
         NEW m2, m2 = Put(AllocPage(m).mem, p, i, UserPte(new)),
         NEW K2, K2 = Grown(K, DOMAIN K, new, Child(K[p], i)),
         NEW par2, par2 = Grown(par, DOMAIN K, new, <<p, i>>)
  PROVE  /\ new \in Pool \ DOMAIN K /\ m2.bits = DOMAIN K2 /\ m2.alive = m.alive
         /\ Tree(m2, R, K2, par2, loose)
         /\ Word(m2, p, i) = UserPte(new)
         /\ \A x \in Pages, j \in Indexes :
              ~(x = p /\ j = i) => Word(m2, x, j) = Word(m, x, j)
         /\ \A x \in Pages \ {p} : m2.ram[x] = m.ram[x]
<1> DEFINE k == Child(K[p], i)
<1>1. /\ m \in Memory /\ DOMAIN K \subseteq Pool /\ DOMAIN K \subseteq Pages
      /\ DOMAIN K \subseteq Nat
  BY PoolInPages DEF Tree, Shape
<1>2. /\ new \in Pool \ DOMAIN K /\ new \in Nat /\ new \in Pages
      /\ \A q \in Pool \ DOMAIN K : new <= q
      /\ AllocPage(m).mem \in Memory /\ AllocPage(m).mem.ram = m.ram
      /\ AllocPage(m).mem.bits = DOMAIN K \cup {new} /\ AllocPage(m).mem.alive = m.alive
  BY <1>1, AllocFacts, PoolInPages
<1>3. /\ m2 \in Memory /\ m2.bits = DOMAIN K \cup {new} /\ m2.alive = m.alive
      /\ Word(m2, p, i) = UserPte(new)
      /\ \A x \in Pages, j \in Indexes :
           ~(x = p /\ j = i) => Word(m2, x, j) = Word(m, x, j)
      /\ \A x \in Pages \ {p} : m2.ram[x] = m.ram[x]
  <2> DEFINE a == AllocPage(m).mem
  <2>1. UserPte(new) \in Nat /\ p \in Pages
    BY <1>1, <1>2, Ptes
  <2>2. /\ \A x, j : Word(a, x, j) = Word(m, x, j)
        /\ a.ram = m.ram /\ a.bits = DOMAIN K \cup {new} /\ a.alive = m.alive
        /\ a \in Memory
    BY <1>2 DEF Word
  <2> HIDE DEF a
  <2>3. m2 = Put(a, p, i, UserPte(new))
    BY DEF a
  <2>4. /\ m2 \in Memory /\ m2.bits = a.bits /\ m2.alive = a.alive
        /\ Word(m2, p, i) = UserPte(new)
        /\ \A x \in Pages, j \in Indexes :
             ~(x = p /\ j = i) => Word(m2, x, j) = Word(a, x, j)
        /\ \A x \in Pages : x # p => m2.ram[x] = a.ram[x]
    BY <2>1, <2>2, <2>3, PutWords
  <2> QED
    BY <2>2, <2>4
<1>4. /\ DOMAIN K2 = DOMAIN K \cup {new} /\ K2[new] = k /\ par2[new] = <<p, i>>
      /\ \A q \in DOMAIN K : K2[q] = K[q] /\ par2[q] = par[q]
  BY <1>2 DEF Grown
<1>5. k \in Kinds \ {"pml4", "frame", "kpml2", "kpml1"}
  BY DEF Child, Upper, Kinds
<1> HIDE DEF k
<1>6. Tables(K2) = Tables(K) \cup {new} /\ p \in Tables(K) /\ Tables(K) \subseteq DOMAIN K
  BY <1>4, <1>5 DEF Tables, Upper
<1>7. Shape(m2, R, K2, loose)
  BY <1>2, <1>3, <1>4, <1>5 DEF Tree, Shape
<1>8. FreeLast(K2)
  BY <1>1, <1>2, <1>4, GrownFreeLast DEF Tree
<1>9. FreeZero(m2, K2)
  BY <1>1, <1>3, <1>4, PoolInPages DEF Tree, FreeZero
<1>10. \A j \in Indexes : Word(m2, new, j) = 0
  <2>1. \A j \in Indexes : Word(m, new, j) = 0
    BY <1>2 DEF Tree, FreeZero, Word, ZeroContent
  <2> QED
    BY <1>2, <1>3, <2>1
<1>11. \A x \in Tables(K), j \in Indexes :
         ~(x = p /\ j = i) => Word(m2, x, j) = Word(m, x, j)
  BY <1>1, <1>3, <1>6
<1>12. AllLegal(m2, K2)
  <2> SUFFICES ASSUME NEW x \in Tables(K2), NEW j \in Indexes
               PROVE  Legal(K2, K2[x], j, Word(m2, x, j))
    BY DEF AllLegal
  <2>1. CASE x = new
    BY <1>4, <1>5, <1>10, <2>1 DEF Legal
  <2>2. CASE x = p /\ j = i
    BY <1>3, <1>4, <1>6, <2>2 DEF Legal, Upper, k
  <2>3. CASE x \in Tables(K) /\ ~(x = p /\ j = i)
    <3>1. Legal(K, K[x], j, Word(m, x, j))
      BY <2>3 DEF Tree, AllLegal
    <3>2. Word(m2, x, j) = Word(m, x, j) /\ K2[x] = K[x]
      BY <1>4, <1>6, <1>11, <2>3
    <3> QED
      BY <1>4, <3>1, <3>2 DEF Legal
  <2> QED
    BY <1>6, <2>1, <2>2, <2>3
<1>13. OneParent(m2, R, K2, par2, loose)
  <2> SUFFICES ASSUME NEW x \in Tables(K2), NEW j \in Indexes,
                      Present(Word(m2, x, j)), PageOf(Word(m2, x, j)) \in Pool
               PROVE  /\ PageOf(Word(m2, x, j)) # loose /\ PageOf(Word(m2, x, j)) \notin R
                      /\ par2[PageOf(Word(m2, x, j))] = <<x, j>>
    BY DEF OneParent
  <2>1. CASE x = new
    BY <1>10, <2>1, Ptes
  <2>2. CASE x = p /\ j = i
    <3>1. PageOf(Word(m2, x, j)) = new
      BY <1>2, <1>3, <2>2, Ptes
    <3> QED
      BY <1>2, <1>4, <2>2, <3>1, PoolInPages DEF Tree, Shape
  <2>3. CASE x \in Tables(K) /\ ~(x = p /\ j = i)
    <3>1. Word(m2, x, j) = Word(m, x, j)
      BY <1>11, <2>3
    <3>2. PageOf(Word(m, x, j)) \in DOMAIN K
      BY <2>3, <3>1, TargetUsed
    <3> QED
      BY <1>4, <2>3, <3>1, <3>2 DEF Tree, OneParent
  <2> QED
    BY <1>6, <2>1, <2>2, <2>3
<1>14. EachHasParent(m2, R, K2, par2, loose)
  <2> SUFFICES ASSUME NEW q \in DOMAIN K2 \ (R \cup {loose})
               PROVE  \E x \in Tables(K2), j \in Indexes :
                        /\ par2[q] = <<x, j>> /\ Present(Word(m2, x, j))
                        /\ PageOf(Word(m2, x, j)) = q
    BY DEF EachHasParent
  <2>1. CASE q = new
    BY <1>2, <1>3, <1>4, <1>6, <2>1, Ptes
  <2>2. CASE q \in DOMAIN K
    <3>1. PICK x \in Tables(K), j \in Indexes :
            par[q] = <<x, j>> /\ Present(Word(m, x, j)) /\ PageOf(Word(m, x, j)) = q
      BY <2>2 DEF Tree, EachHasParent
    <3>2. ~(x = p /\ j = i)
      BY <3>1, Ptes
    <3> QED
      BY <1>4, <1>6, <1>11, <2>2, <3>1, <3>2
  <2> QED
    BY <1>4, <2>1, <2>2
<1> QED
  BY <1>2, <1>3, <1>4, <1>7, <1>8, <1>9, <1>12, <1>13, <1>14 DEF Tree

(* A table that has just been linked leads nowhere: no translation of a    *)
(* user's page changes.                                                    *)
LEMMA GrowPaths ==
  ASSUME NEW m, NEW R, NEW K, NEW par, NEW loose, Tree(m, R, K, par, loose),
         NEW p \in DOMAIN K, NEW i \in Indexes, Word(m, p, i) = 0, K[p] \in Upper,
         NEW new \in Pool \ DOMAIN K,
         NEW m2, NEW K2, NEW par2, Tree(m2, R, K2, par2, loose),
         DOMAIN K2 = DOMAIN K \cup {new}, \A q \in DOMAIN K : K2[q] = K[q],
         Word(m2, p, i) = UserPte(new),
         \A x \in Pages, j \in Indexes :
           ~(x = p /\ j = i) => Word(m2, x, j) = Word(m, x, j),
         NEW r \in R, NEW v \in User
  PROVE  Translate(m2, r, v) = Translate(m, r, v)
<1>1. /\ v[1] \in Indexes /\ v[2] \in Indexes /\ v[3] \in Indexes /\ v[4] \in Indexes
      /\ DOMAIN K \subseteq Pages /\ DOMAIN K \subseteq Nat /\ r \in DOMAIN K
      /\ new \in Nat /\ new \in Pages /\ new # p
      /\ DOMAIN K2 \subseteq Nat
  BY PoolInPages DEF User, Virtual, Tree, Shape
<1>2. \A j \in Indexes : Word(m2, new, j) = 0
  <2>1. \A j \in Indexes : Word(m, new, j) = 0
    BY DEF Tree, FreeZero, Word, ZeroContent
  <2> QED
    BY <1>1, <2>1
<1>3. CASE Translate(m, r, v) # NoPage
  <2>1. PICK t3, t2, t1 \in DOMAIN K, q \in Nat :
          Path(m, r, v, t3, t2, t1, q) /\ Translate(m, r, v) = q
    BY <1>3, WalkDown
  <2>2. Path(m2, r, v, t3, t2, t1, q)
    BY <1>1, <2>1, Ptes DEF Path
  <2> QED
    BY <1>1, <2>1, <2>2, PathTranslates
<1>4. CASE Translate(m2, r, v) # NoPage
  <2>1. PICK t3, t2, t1 \in DOMAIN K2, q \in Nat :
          /\ Path(m2, r, v, t3, t2, t1, q) /\ Translate(m2, r, v) = q
          /\ K2[t1] = "pml1"
    BY <1>4, WalkDown
  <2>2. t3 # new /\ t2 # new /\ t1 # new
    BY <1>1, <1>2, <2>1, Ptes DEF Path
  <2>3. t3 \in DOMAIN K /\ t2 \in DOMAIN K /\ t1 \in DOMAIN K /\ t1 # p
    BY <2>1, <2>2 DEF Upper
  <2>4. \A a, b \in Nat : UserPte(a) = UserPte(b) => a = b
    BY DEF UserPte, PAGE_SIZE
  <2>5. /\ Word(m, r, v[1]) = UserPte(t3) /\ Word(m, t3, v[2]) = UserPte(t2)
        /\ Word(m, t2, v[3]) = UserPte(t1) /\ Word(m, t1, v[4]) = UserPte(q)
    BY <1>1, <2>1, <2>2, <2>3, <2>4 DEF Path
  <2> QED
    BY <1>1, <2>1, <2>3, <2>5, PathTranslates DEF Path
<1> QED
  BY <1>3, <1>4
-------------------------------------------------------------------------------
(* Where the tree has nothing to say, the memory may change.               *)
LEMMA SameTree ==
  ASSUME NEW m, NEW R, NEW K, NEW par, NEW loose, Tree(m, R, K, par, loose),
         NEW m2 \in Memory,
         \A x \in Tables(K) \cup (Pool \ DOMAIN K) : m2.ram[x] = m.ram[x]
  PROVE  /\ Tree(m2, R, K, par, loose)
         /\ \A r \in R, v \in User : Translate(m2, r, v) = Translate(m, r, v)
<1>1. \A x \in Tables(K), j \in Indexes : Word(m2, x, j) = Word(m, x, j)
  BY DEF Word
<1>2. Tree(m2, R, K, par, loose)
  <2>1. Shape(m2, R, K, loose) /\ FreeLast(K) /\ FreeZero(m2, K)
    BY DEF Tree, Shape, FreeZero
  <2>2. AllLegal(m2, K)
    BY <1>1 DEF Tree, AllLegal
  <2>3. OneParent(m2, R, K, par, loose)
    BY <1>1 DEF Tree, OneParent
  <2>4. EachHasParent(m2, R, K, par, loose)
    BY <1>1 DEF Tree, EachHasParent
  <2> QED
    BY <2>1, <2>2, <2>3, <2>4 DEF Tree
<1>3. ASSUME NEW r \in R, NEW v \in User
      PROVE  Translate(m2, r, v) = Translate(m, r, v)
  <2>1. /\ v[1] \in Indexes /\ v[2] \in Indexes /\ v[3] \in Indexes /\ v[4] \in Indexes
        /\ DOMAIN K \subseteq Nat /\ r \in DOMAIN K /\ K[r] = "pml4"
    BY PoolInPages DEF User, Virtual, Tree, Shape
  <2>2. ASSUME NEW a, NEW b, Tree(a, R, K, par, loose), Translate(a, r, v) # NoPage,
               \A x \in Tables(K), j \in Indexes : Word(b, x, j) = Word(a, x, j)
        PROVE  Translate(b, r, v) = Translate(a, r, v)
    <3>1. PICK t3, t2, t1 \in DOMAIN K, q \in Nat :
            /\ Path(a, r, v, t3, t2, t1, q) /\ Translate(a, r, v) = q
            /\ K[t3] \in {"kpml3", "pml3"} /\ K[t2] = "pml2" /\ K[t1] = "pml1"
      BY <2>2, WalkDown
    <3>2. r \in Tables(K) /\ t3 \in Tables(K) /\ t2 \in Tables(K) /\ t1 \in Tables(K)
      BY <2>1, <3>1 DEF Tables
    <3>3. Path(b, r, v, t3, t2, t1, q)
      BY <2>1, <2>2, <3>1, <3>2 DEF Path
    <3> QED
      BY <2>1, <3>1, <3>3, PathTranslates
  <2> QED
    BY <1>1, <1>2, <2>2
<1> QED
  BY <1>2, <1>3

(* A frame that alloc_page gives and no entry refers to yet.               *)
LEMMA LooseTree ==
  ASSUME NEW m, NEW R, NEW K, NEW par, Tree(m, R, K, par, NoPage),
         m.bits = DOMAIN K, Free(m) # {},
         NEW a, a = AllocPage(m), NEW K2, K2 = Grown(K, DOMAIN K, a.page, "frame")
  PROVE  /\ a.page \in Pool \ DOMAIN K /\ a.mem.bits = DOMAIN K2
         /\ a.mem.ram = m.ram /\ a.mem.alive = m.alive
         /\ Tree(a.mem, R, K2, par, a.page)
         /\ Tables(K2) = Tables(K)
<1> DEFINE new == FirstFree(m)
<1>1. /\ m \in Memory /\ DOMAIN K \subseteq Pool
  BY DEF Tree, Shape
<1>2. /\ a.page \in Pool \ DOMAIN K /\ a.mem \in Memory /\ a.mem.ram = m.ram
      /\ a.mem.bits = DOMAIN K \cup {a.page} /\ a.mem.alive = m.alive
      /\ \A q \in Pool \ DOMAIN K : a.page <= q
  BY <1>1, AllocFacts
<1>3. /\ DOMAIN K2 = DOMAIN K \cup {a.page} /\ K2[a.page] = "frame"
      /\ \A q \in DOMAIN K : K2[q] = K[q]
  BY <1>2 DEF Grown
<1>4. Tables(K2) = Tables(K)
  BY <1>2, <1>3 DEF Tables
<1>5. \A x, j : Word(a.mem, x, j) = Word(m, x, j)
  BY <1>2 DEF Word
<1>6. Shape(a.mem, R, K2, a.page)
  <2>1. "frame" \in Kinds
    BY DEF Kinds
  <2> QED
    BY <1>2, <1>3, <2>1 DEF Tree, Shape
<1>7. FreeLast(K2)
  BY <1>1, <1>2, <1>3, GrownFreeLast DEF Tree
<1>8. FreeZero(a.mem, K2)
  BY <1>2, <1>3 DEF Tree, FreeZero
<1>9. AllLegal(a.mem, K2)
  <2> SUFFICES ASSUME NEW x \in Tables(K), NEW j \in Indexes
               PROVE  Legal(K2, K2[x], j, Word(a.mem, x, j))
    BY <1>4 DEF AllLegal
  <2>1. Legal(K, K[x], j, Word(m, x, j)) /\ K2[x] = K[x]
    BY <1>3 DEF Tree, AllLegal, Tables
  <2> QED
    BY <1>3, <1>5, <2>1 DEF Legal
<1>10. OneParent(a.mem, R, K2, par, a.page)
  <2> SUFFICES ASSUME NEW x \in Tables(K), NEW j \in Indexes,
                      Present(Word(m, x, j)), PageOf(Word(m, x, j)) \in Pool
               PROVE  /\ PageOf(Word(m, x, j)) # a.page /\ PageOf(Word(m, x, j)) \notin R
                      /\ par[PageOf(Word(m, x, j))] = <<x, j>>
    BY <1>4, <1>5 DEF OneParent
  <2>1. PageOf(Word(m, x, j)) \in DOMAIN K
    BY TargetUsed
  <2> QED
    BY <1>2, <2>1 DEF Tree, OneParent
<1>11. EachHasParent(a.mem, R, K2, par, a.page)
  <2>1. DOMAIN K2 \ (R \cup {a.page}) \subseteq DOMAIN K \ (R \cup {NoPage})
    BY <1>1, <1>3, PoolInPages
  <2> QED
    BY <1>4, <1>5, <2>1 DEF Tree, EachHasParent
<1> QED
  BY <1>2, <1>3, <1>4, <1>6, <1>7, <1>8, <1>9, <1>10, <1>11 DEF Tree
-------------------------------------------------------------------------------
(* The last entry of map_page (memory.c:136): a frame gets its parent, or  *)
(* a page outside the pool is mapped.                                      *)
LEMMA LeafTree ==
  ASSUME NEW m, NEW R, NEW K, NEW par, NEW loose, Tree(m, R, K, par, loose),
         NEW p \in DOMAIN K, K[p] = "pml1", NEW i \in Indexes, Word(m, p, i) = 0,
         NEW page \in Nat, page = loose \/ (loose = NoPage /\ page \notin Pool),
         NEW m2, m2 = Put(m, p, i, UserPte(page)),
         NEW par2, par2 = Grown(par, DOMAIN K, page, <<p, i>>)
  PROVE  /\ m2 \in Memory /\ m2.bits = m.bits /\ m2.alive = m.alive
         /\ Tree(m2, R, K, par2, NoPage)
         /\ Word(m2, p, i) = UserPte(page)
         /\ \A x \in Pages, j \in Indexes :
              ~(x = p /\ j = i) => Word(m2, x, j) = Word(m, x, j)
         /\ \A x \in Pages \ {p} : m2.ram[x] = m.ram[x]
<1>1. /\ m \in Memory /\ DOMAIN K \subseteq Pool /\ DOMAIN K \subseteq Pages
      /\ DOMAIN K \subseteq Nat /\ page # NoPage /\ p \in Tables(K)
      /\ Tables(K) \subseteq DOMAIN K
  <2>1. m \in Memory /\ DOMAIN K \subseteq Pool
    BY DEF Tree, Shape
  <2>2. page # NoPage
    BY DEF NoPage
  <2>3. p \in Tables(K) /\ Tables(K) \subseteq DOMAIN K
    BY DEF Tables
  <2> QED
    BY <2>1, <2>2, <2>3, PoolInPages
<1>2. /\ m2 \in Memory /\ m2.bits = m.bits /\ m2.alive = m.alive
      /\ Word(m2, p, i) = UserPte(page)
      /\ \A x \in Pages, j \in Indexes :
           ~(x = p /\ j = i) => Word(m2, x, j) = Word(m, x, j)
      /\ \A x \in Pages : x # p => m2.ram[x] = m.ram[x]
  <2>1. UserPte(page) \in Nat /\ p \in Pages
    BY <1>1, Ptes
  <2> DEFINE w == UserPte(page)
  <2>2. w \in Nat /\ m2 = Put(m, p, i, w) /\ m \in Memory /\ p \in Pages
    BY <1>1, <2>1
  <2> HIDE DEF w
  <2>3. /\ m2 \in Memory /\ m2.bits = m.bits /\ m2.alive = m.alive
        /\ Word(m2, p, i) = w
        /\ \A x \in Pages, j \in Indexes :
             ~(x = p /\ j = i) => Word(m2, x, j) = Word(m, x, j)
        /\ \A x \in Pages : x # p => m2.ram[x] = m.ram[x]
    BY <2>2, PutWords
  <2> QED
    BY <2>3 DEF w
<1>3. \A x \in Tables(K), j \in Indexes :
        ~(x = p /\ j = i) => Word(m2, x, j) = Word(m, x, j)
  BY <1>1, <1>2
<1>4. par2[page] = <<p, i>> /\ \A q \in DOMAIN K : q # page => par2[q] = par[q]
  BY DEF Grown
<1>5. Shape(m2, R, K, NoPage) /\ FreeLast(K) /\ FreeZero(m2, K)
  BY <1>1, <1>2, PoolInPages DEF Tree, Shape, FreeZero
<1>6. AllLegal(m2, K)
  <2> SUFFICES ASSUME NEW x \in Tables(K), NEW j \in Indexes
               PROVE  Legal(K, K[x], j, Word(m2, x, j))
    BY DEF AllLegal
  <2>1. CASE x = p /\ j = i
    <3>1. page \in Pool => page \in DOMAIN K /\ K[page] = "frame"
      BY <1>1 DEF Tree, Shape
    <3> QED
      BY <1>2, <2>1, <3>1 DEF Legal, Upper
  <2>2. CASE ~(x = p /\ j = i)
    BY <1>3, <2>2 DEF Tree, AllLegal
  <2> QED
    BY <2>1, <2>2
<1>7. OneParent(m2, R, K, par2, NoPage)
  <2> SUFFICES ASSUME NEW x \in Tables(K), NEW j \in Indexes,
                      Present(Word(m2, x, j)), PageOf(Word(m2, x, j)) \in Pool
               PROVE  /\ PageOf(Word(m2, x, j)) \notin R
                      /\ par2[PageOf(Word(m2, x, j))] = <<x, j>>
    BY PoolInPages DEF OneParent
  <2>1. CASE x = p /\ j = i
    <3>1. PageOf(Word(m2, x, j)) = page
      BY <1>2, <2>1, Ptes
    <3> QED
      BY <1>1, <1>4, <2>1, <3>1 DEF Tree, Shape
  <2>2. CASE ~(x = p /\ j = i)
    <3>1. Word(m2, x, j) = Word(m, x, j)
      BY <1>3, <2>2
    <3>2. PageOf(Word(m, x, j)) \in DOMAIN K
      BY <3>1, TargetUsed
    <3>3. /\ PageOf(Word(m, x, j)) # loose /\ PageOf(Word(m, x, j)) \notin R
          /\ par[PageOf(Word(m, x, j))] = <<x, j>>
      BY <3>1 DEF Tree, OneParent
    <3>4. PageOf(Word(m, x, j)) # page
      BY <1>1, <3>2, <3>3
    <3> QED
      BY <1>4, <3>1, <3>2, <3>3, <3>4
  <2> QED
    BY <2>1, <2>2
<1>8. EachHasParent(m2, R, K, par2, NoPage)
  <2> SUFFICES ASSUME NEW q \in DOMAIN K \ (R \cup {NoPage})
               PROVE  \E x \in Tables(K), j \in Indexes :
                        /\ par2[q] = <<x, j>> /\ Present(Word(m2, x, j))
                        /\ PageOf(Word(m2, x, j)) = q
    BY DEF EachHasParent
  <2>1. CASE q = page
    BY <1>1, <1>2, <1>4, <2>1, Ptes
  <2>2. CASE q # page
    <3>1. q # loose
      BY <1>1, <2>2
    <3>2. PICK x \in Tables(K), j \in Indexes :
            par[q] = <<x, j>> /\ Present(Word(m, x, j)) /\ PageOf(Word(m, x, j)) = q
      BY <3>1 DEF Tree, EachHasParent
    <3>3. ~(x = p /\ j = i)
      BY <3>2, Ptes
    <3> QED
      BY <1>3, <1>4, <2>2, <3>2, <3>3
  <2> QED
    BY <2>1, <2>2
<1> QED
  BY <1>2, <1>5, <1>6, <1>7, <1>8 DEF Tree

(* The virtual pages of the user are equal when their four indexes are.    *)
LEMMA SameIndexes ==
  ASSUME NEW u \in User, NEW v \in User,
         u[1] = v[1], u[2] = v[2], u[3] = v[3], u[4] = v[4]
  PROVE  u = v
BY DEF User, Virtual

(* Only the page of the new entry is translated otherwise than before.     *)
LEMMA LeafPaths ==
  ASSUME NEW m, NEW R, NEW K, NEW par, NEW loose, Tree(m, R, K, par, loose),
         NEW r0 \in R, NEW v0 \in User,
         NEW t3 \in DOMAIN K, NEW t2 \in DOMAIN K, NEW p \in DOMAIN K,
         Word(m, r0, v0[1]) = UserPte(t3), Word(m, t3, v0[2]) = UserPte(t2),
         Word(m, t2, v0[3]) = UserPte(p), K[p] = "pml1",
         K[t3] # "frame", K[t2] # "frame",
         Word(m, p, v0[4]) = 0,
         NEW page \in Nat, NEW par2, NEW m2, Tree(m2, R, K, par2, NoPage),
         Word(m2, p, v0[4]) = UserPte(page),
         \A x \in Pages, j \in Indexes :
           ~(x = p /\ j = v0[4]) => Word(m2, x, j) = Word(m, x, j)
  PROVE  /\ Translate(m2, r0, v0) = page
         /\ \A r \in R, v \in User :
              ~(r = r0 /\ v = v0) => Translate(m2, r, v) = Translate(m, r, v)
<1>1. /\ DOMAIN K \subseteq Pages /\ DOMAIN K \subseteq Nat /\ DOMAIN K \subseteq Pool
      /\ \A r \in R : r \in DOMAIN K /\ K[r] = "pml4"
      /\ \A v \in User : /\ v[1] \in Indexes /\ v[2] \in Indexes
                         /\ v[3] \in Indexes /\ v[4] \in Indexes
  BY PoolInPages DEF User, Virtual, Tree, Shape
<1>2. \A a, b \in Nat : UserPte(a) = UserPte(b) => a = b
  BY DEF UserPte, PAGE_SIZE
(* Two entries of the tree that lead to one table are one entry. *)
<1>3. ASSUME NEW x \in Tables(K), NEW y \in Tables(K), NEW a \in Indexes, NEW b \in Indexes,
             NEW t \in DOMAIN K, Word(m, x, a) = UserPte(t), Word(m, y, b) = UserPte(t)
      PROVE  x = y /\ a = b
  <2>1. par[t] = <<x, a>> /\ par[t] = <<y, b>>
    BY <1>1, <1>3, Ptes DEF Tree, OneParent
  <2> QED
    BY <2>1
<1>4. /\ r0 \in Tables(K) /\ t3 \in Tables(K) /\ t2 \in Tables(K) /\ p \in Tables(K)
      /\ r0 # p /\ t3 # p /\ t2 # p
  <2>1. r0 \in Tables(K) /\ t3 \in Tables(K) /\ t2 \in Tables(K) /\ p \in Tables(K)
    BY <1>1 DEF Tables
  <2>2. \A x \in Tables(K), j \in Indexes, q \in DOMAIN K :
          Word(m, x, j) = UserPte(q) /\ K[q] # "frame" => K[x] # "pml1"
    <3> SUFFICES ASSUME NEW x \in Tables(K), NEW j \in Indexes, NEW q \in DOMAIN K,
                        Word(m, x, j) = UserPte(q), K[q] # "frame", K[x] = "pml1"
                 PROVE  FALSE
      OBVIOUS
    <3>1. Legal(K, "pml1", j, UserPte(q))
      BY DEF Tree, AllLegal
    <3> QED
      BY <1>1, <1>2, <3>1, Ptes DEF Legal
  <2> QED
    BY <1>1, <2>1, <2>2
<1>5. Translate(m2, r0, v0) = page
  <2>1. Path(m2, r0, v0, t3, t2, p, page)
    BY <1>1, <1>4 DEF Path
  <2> QED
    BY <1>1, <2>1, PathTranslates
<1>6. ASSUME NEW r \in R, NEW v \in User, ~(r = r0 /\ v = v0)
      PROVE  Translate(m2, r, v) = Translate(m, r, v)
  <2>1. CASE Translate(m, r, v) # NoPage
    <3>1. PICK s3, s2, s1 \in DOMAIN K, q \in Nat :
            Path(m, r, v, s3, s2, s1, q) /\ Translate(m, r, v) = q
      BY <2>1, WalkDown
    <3>2. Path(m2, r, v, s3, s2, s1, q)
      BY <1>1, <3>1, Ptes DEF Path
    <3> QED
      BY <1>1, <3>1, <3>2, PathTranslates
  <2>2. CASE Translate(m2, r, v) # NoPage
    <3>1. PICK s3, s2, s1 \in DOMAIN K, q \in Nat :
            /\ Path(m2, r, v, s3, s2, s1, q) /\ Translate(m2, r, v) = q
            /\ K[s3] \in {"kpml3", "pml3"} /\ K[s2] = "pml2" /\ K[s1] = "pml1"
      BY <2>2, WalkDown
    <3>2. /\ Word(m, r, v[1]) = UserPte(s3) /\ Word(m, s3, v[2]) = UserPte(s2)
          /\ Word(m, s2, v[3]) = UserPte(s1)
      BY <1>1, <3>1 DEF Path
    <3>3. ~(s1 = p /\ v[4] = v0[4])
      <4> SUFFICES ASSUME s1 = p, v[4] = v0[4] PROVE FALSE
        OBVIOUS
      <4>1. r \in Tables(K) /\ s3 \in Tables(K) /\ s2 \in Tables(K)
        BY <1>1, <3>1 DEF Tables
      <4>2. s2 = t2 /\ v[3] = v0[3]
        BY <1>1, <1>3, <1>4, <3>2, <4>1
      <4>3. s3 = t3 /\ v[2] = v0[2]
        BY <1>1, <1>3, <1>4, <3>2, <4>1, <4>2
      <4>4. r = r0 /\ v[1] = v0[1]
        BY <1>1, <1>3, <1>4, <3>2, <4>1, <4>3
      <4> QED
        BY <1>6, <4>2, <4>3, <4>4, SameIndexes
    <3>4. Path(m, r, v, s3, s2, s1, q)
      BY <1>1, <3>1, <3>2, <3>3 DEF Path
    <3> QED
      BY <1>1, <3>1, <3>4, PathTranslates
  <2> QED
    BY <2>1, <2>2
<1> QED
  BY <1>5, <1>6
-------------------------------------------------------------------------------
(* What an operation on a tree leaves alone: the kinds, the entries in use,*)
(* the content of the frames and of the pages outside the pool but page 0. *)
Extends(m, K, m2, K2) ==
  /\ m2.bits = DOMAIN K2 /\ m2.alive = m.alive
  /\ DOMAIN K \subseteq DOMAIN K2 /\ \A q \in DOMAIN K : K2[q] = K[q]
  /\ \A x \in Tables(K), j \in Indexes :
       Word(m, x, j) # 0 => Word(m2, x, j) = Word(m, x, j)
  /\ \A x \in Pages \ {0} :
       x \notin Pool \/ (x \in DOMAIN K /\ K[x] = "frame") => m2.ram[x] = m.ram[x]

SameTranslations(m, m2, R) ==
  \A r \in R, v \in User : Translate(m2, r, v) = Translate(m, r, v)

(* Operations that leave the used pages alone compose.                     *)
LEMMA ExtendsTrans ==
  ASSUME NEW m, NEW K, NEW m2, NEW K2, NEW m3, NEW K3,
         Extends(m, K, m2, K2), Extends(m2, K2, m3, K3)
  PROVE  Extends(m, K, m3, K3)
<1>1. \A x \in Tables(K) : x \in Tables(K2)
  BY DEF Extends, Tables
<1>2. \A x \in Tables(K), j \in Indexes :
        Word(m, x, j) # 0 => Word(m3, x, j) = Word(m, x, j)
  BY <1>1 DEF Extends
<1>3. \A x \in Pages \ {0} :
        x \notin Pool \/ (x \in DOMAIN K /\ K[x] = "frame") => m3.ram[x] = m.ram[x]
  BY DEF Extends
<1> QED
  BY <1>2, <1>3 DEF Extends

(* Whatever the tables hold, the walk only sets bits of the pool. *)
LEMMA DescendBits ==
  ASSUME NEW m \in Memory, NEW p, NEW v \in User, NEW lvl \in {4, 3, 2},
         NEW s, s = Descend([mem |-> m, page |-> p], v, lvl)
  PROVE  s.mem \in Memory /\ m.bits \subseteq s.mem.bits
<1> DEFINE i == Index(v, lvl)
           a == AllocPage(m)
<1>1. i \in Indexes
  BY DEF User, Virtual, Index
<1>2. a.mem \in Memory /\ a.page \in Nat /\ m.bits \subseteq a.mem.bits
  <2>1. CASE Free(m) = {}
    BY <2>1 DEF AllocPage
  <2>2. CASE Free(m) # {}
    <3>1. a.page = FirstFree(m) /\ FirstFree(m) \in Pool
      BY <2>2, AllocFacts
    <3>2. a.mem \in Memory /\ a.mem.bits = m.bits \cup {FirstFree(m)}
      BY <2>2, AllocFacts
    <3> QED
      BY <3>1, <3>2, PoolInPages
  <2> QED
    BY <2>1, <2>2
<1>3. CASE Present(Word(m, p, i))
  BY <1>3 DEF Descend
<1>4. CASE ~Present(Word(m, p, i))
  <2>1. s.mem = Put(a.mem, p, i, UserPte(a.page))
    BY <1>4 DEF Descend
  <2> HIDE DEF a, i
  <2>2. CASE p \in Pages
    <3>1. PICK w \in Nat : w = UserPte(a.page)
      BY <1>2, Ptes
    <3>2. s.mem \in Memory /\ s.mem.bits = a.mem.bits
      BY <1>1, <1>2, <2>1, <2>2, <3>1, PutWords
    <3> QED
      BY <1>2, <3>2
  <2>3. CASE p \notin Pages
    BY <1>2, <2>1, <2>3 DEF Put, Memory
  <2> QED
    BY <2>2, <2>3
<1> QED
  BY <1>3, <1>4

(* The kind of table map_page walks from at each level.                    *)
WalkKind(k, v, lvl) ==
  CASE lvl = 4 -> k = "pml4"
    [] lvl = 3 -> k = "pml3" \/ (k = "kpml3" /\ v[2] # 0)
    [] lvl = 2 -> k = "pml2"
    [] OTHER -> k = "pml1"

(* One level of the walk of map_page (memory.c:117-131).                   *)
LEMMA DescendTree ==
  ASSUME NEW m, NEW R, NEW K, NEW par, NEW loose, Tree(m, R, K, par, loose),
         m.bits = DOMAIN K,
         NEW v \in User, NEW lvl \in {4, 3, 2}, NEW p \in DOMAIN K, WalkKind(K[p], v, lvl),
         NEW s, s = Descend([mem |-> m, page |-> p], v, lvl), Free(s.mem) # {}
  PROVE  \E K2, par2 :
           /\ Tree(s.mem, R, K2, par2, loose) /\ Extends(m, K, s.mem, K2)
           /\ SameTranslations(m, s.mem, R)
           /\ s.page \in DOMAIN K2 /\ WalkKind(K2[s.page], v, lvl - 1)
           /\ Word(s.mem, p, Index(v, lvl)) = UserPte(s.page)
<1> PICK i \in Indexes : i = Index(v, lvl)
  BY DEF User, Virtual, Index
<1>1. /\ m \in Memory /\ DOMAIN K \subseteq Pool /\ DOMAIN K \subseteq Pages
      /\ DOMAIN K \subseteq Nat
  BY PoolInPages DEF Tree, Shape
<1>2. /\ K[p] \in Upper /\ ~(K[p] = "kpml3" /\ i = 0) /\ p \in Tables(K)
      /\ WalkKind(Child(K[p], i), v, lvl - 1)
      /\ Child(K[p], i) \in Kinds \ {"pml4", "frame", "kpml2", "kpml1"}
  <2>1. v[1] = 0 => v[2] # 0
    BY DEF User, Virtual, Indexes
  <2>2. CASE lvl = 4
    BY <2>1, <2>2 DEF WalkKind, Upper, Child, Index, Tables, Kinds
  <2>3. CASE lvl = 3
    BY <2>1, <2>3 DEF WalkKind, Upper, Child, Index, Tables, Kinds
  <2>4. CASE lvl = 2
    BY <2>1, <2>4 DEF WalkKind, Upper, Child, Index, Tables, Kinds
  <2> QED
    BY <2>2, <2>3, <2>4
<1>3. Legal(K, K[p], i, Word(m, p, i))
  BY <1>2 DEF Tree, AllLegal
<1>4. CASE Word(m, p, i) # 0
  <2>1. PICK q \in DOMAIN K : Word(m, p, i) = UserPte(q) /\ K[q] = Child(K[p], i)
    BY <1>2, <1>3, <1>4 DEF Legal
  <2>2. s.mem = m /\ s.page = q
    BY <1>1, <2>1, Ptes DEF Descend
  <2>3. Extends(m, K, m, K) /\ SameTranslations(m, m, R)
    BY DEF Extends, SameTranslations
  <2> QED
    BY <1>2, <2>1, <2>2, <2>3
<1>5. CASE Word(m, p, i) = 0
  <2> DEFINE new == FirstFree(m)
             a == AllocPage(m)
             k == Child(K[p], i)
             K2 == Grown(K, DOMAIN K, new, k)
             par2 == Grown(par, DOMAIN K, new, <<p, i>>)
  <2>1. s.mem = Put(a.mem, p, i, UserPte(a.page)) /\ s.page = a.page
    <3>1. ~Present(Word(m, p, i))
      BY <1>5, Ptes
    <3> QED
      BY <3>1 DEF Descend
  <2>2. Free(m) # {}
    <3> SUFFICES ASSUME Free(m) = {} PROVE FALSE
      OBVIOUS
    <3>1. m.bits \subseteq s.mem.bits
      BY <1>1, DescendBits
    <3> QED
      BY <3>1 DEF Free
  <2>3. a.page = new
    BY <1>1, <2>2, AllocFacts
  <2> HIDE DEF a, k, new
  <2>4. /\ new \in Pool \ DOMAIN K /\ s.mem.bits = DOMAIN K2 /\ s.mem.alive = m.alive
        /\ Tree(s.mem, R, K2, par2, loose)
        /\ Word(s.mem, p, i) = UserPte(new)
        /\ \A x \in Pages, j \in Indexes :
             ~(x = p /\ j = i) => Word(s.mem, x, j) = Word(m, x, j)
        /\ \A x \in Pages \ {p} : s.mem.ram[x] = m.ram[x]
    <3>1. s.mem = Put(AllocPage(m).mem, p, i, UserPte(new)) /\ new = FirstFree(m)
      BY <2>1, <2>3 DEF a, new
    <3>2. K2 = Grown(K, DOMAIN K, new, Child(K[p], i))
      BY DEF k
    <3> HIDE DEF K2, par2
    <3>3. par2 = Grown(par, DOMAIN K, new, <<p, i>>)
      BY DEF par2
    <3> QED
      BY <1>2, <1>5, <2>2, <3>1, <3>2, <3>3, GrowTree
  <2>5. /\ DOMAIN K2 = DOMAIN K \cup {new} /\ \A q \in DOMAIN K : K2[q] = K[q]
        /\ K2[new] = k
    BY <2>4 DEF Grown
  <2> HIDE DEF K2, par2
  <2>6. Extends(m, K, s.mem, K2)
    <3>1. \A x \in Tables(K), j \in Indexes :
            Word(m, x, j) # 0 => Word(s.mem, x, j) = Word(m, x, j)
      BY <1>1, <1>5, <2>4 DEF Tables
    <3>2. \A x \in Pages \ {0} :
            x \notin Pool \/ (x \in DOMAIN K /\ K[x] = "frame") => x # p
      BY <1>1, <1>2 DEF Upper
    <3> QED
      BY <2>4, <2>5, <3>1, <3>2 DEF Extends
  <2>7. SameTranslations(m, s.mem, R)
    BY <1>2, <1>5, <2>4, <2>5, GrowPaths DEF SameTranslations
  <2>8. WalkKind(K2[new], v, lvl - 1) /\ new \in DOMAIN K2
    BY <1>2, <2>5 DEF k
  <2> QED
    BY <2>1, <2>3, <2>4, <2>6, <2>7, <2>8
<1> QED
  BY <1>4, <1>5

(* map_page only sets bits of the pool, whatever the tables hold. *)
LEMMA PutBits ==
  ASSUME NEW m \in Memory, NEW page, NEW i \in Indexes, NEW w \in Nat
  PROVE  /\ Put(m, page, i, w) \in Memory /\ Put(m, page, i, w).bits = m.bits
         /\ Zero(m, page) \in Memory /\ Zero(m, page).bits = m.bits
<1>1. CASE page \in Pages
  <2>1. Put(m, page, i, w) \in Memory /\ Put(m, page, i, w).bits = m.bits
    BY <1>1, PutWords
  <2>2. Zero(m, page) \in Memory /\ Zero(m, page).bits = m.bits
    BY <1>1, ZeroWords
  <2> QED
    BY <2>1, <2>2
<1>2. CASE page \notin Pages
  BY <1>2 DEF Put, Zero, Memory
<1> QED
  BY <1>1, <1>2

(* The three levels of the walk, by name. *)
Walk1(m, r, v) == Descend([mem |-> m, page |-> r], v, 4)
Walk2(m, r, v) == Descend([mem |-> Walk1(m, r, v).mem, page |-> Walk1(m, r, v).page], v, 3)
Walk3(m, r, v) == Descend([mem |-> Walk2(m, r, v).mem, page |-> Walk2(m, r, v).page], v, 2)

(* map_page is a walk of three levels and the store of the last entry.     *)
LEMMA MapPageWalks ==
  ASSUME NEW m, NEW r, NEW v, NEW page
  PROVE  LET s == Walk3(m, r, v)
             entry == Word(s.mem, s.page, v[4])
             zeroed == IF Present(entry) THEN s.mem ELSE Zero(s.mem, PageOf(entry))
         IN MapPage(m, r, v, page) = Put(zeroed, s.page, v[4], UserPte(page))
<1> DEFINE w1 == Descend([mem |-> m, page |-> r], v, 4)
           w2 == Descend(w1, v, 3)
           w3 == Descend(w2, v, 2)
<1>1. w1 = Walk1(m, r, v)
  BY DEF Walk1
<1>2. w2 = Walk2(m, r, v)
  BY <1>1 DEF Walk2, Descend
<1>3. w3 = Walk3(m, r, v)
  BY <1>2 DEF Walk3, Descend
<1>4. MapPage(m, r, v, page) =
        LET entry == Word(w3.mem, w3.page, v[4])
            zeroed == IF Present(entry) THEN w3.mem ELSE Zero(w3.mem, PageOf(entry))
        IN Put(zeroed, w3.page, v[4], UserPte(page))
  BY DEF MapPage, Index
<1> HIDE DEF w3
<1> QED
  BY <1>3, <1>4

(* map_page only takes pages from the pool.                                *)
LEMMA MapPageBits ==
  ASSUME NEW m \in Memory, NEW r, NEW v \in User, NEW page \in Nat
  PROVE  /\ MapPage(m, r, v, page) \in Memory
         /\ MapPage(m, r, v, page).bits = Walk3(m, r, v).mem.bits
         /\ Walk1(m, r, v).mem \in Memory /\ Walk2(m, r, v).mem \in Memory
         /\ Walk3(m, r, v).mem \in Memory
         /\ m.bits \subseteq Walk1(m, r, v).mem.bits
         /\ Walk1(m, r, v).mem.bits \subseteq Walk2(m, r, v).mem.bits
         /\ Walk2(m, r, v).mem.bits \subseteq Walk3(m, r, v).mem.bits
<1>1. Walk1(m, r, v).mem \in Memory /\ m.bits \subseteq Walk1(m, r, v).mem.bits
  BY DescendBits DEF Walk1
<1>2. /\ Walk2(m, r, v).mem \in Memory
      /\ Walk1(m, r, v).mem.bits \subseteq Walk2(m, r, v).mem.bits
  BY <1>1, DescendBits DEF Walk2
<1>3. /\ Walk3(m, r, v).mem \in Memory
      /\ Walk2(m, r, v).mem.bits \subseteq Walk3(m, r, v).mem.bits
  BY <1>2, DescendBits DEF Walk3
<1>4. /\ MapPage(m, r, v, page) \in Memory
      /\ MapPage(m, r, v, page).bits = Walk3(m, r, v).mem.bits
  <2> DEFINE s == Walk3(m, r, v)
             entry == Word(s.mem, s.page, v[4])
             zeroed == IF Present(entry) THEN s.mem ELSE Zero(s.mem, PageOf(entry))
  <2>1. s.mem \in Memory
    BY <1>3
  <2> HIDE DEF s
  <2>2. v[4] \in Indexes /\ UserPte(page) \in Nat
    BY Ptes DEF User, Virtual
  <2>3. zeroed \in Memory /\ zeroed.bits = s.mem.bits
    BY <2>1, <2>2, PutBits
  <2>4. MapPage(m, r, v, page) = Put(zeroed, s.page, v[4], UserPte(page))
    BY MapPageWalks DEF s
  <2> HIDE DEF zeroed
  <2>5. PICK w \in Nat : w = UserPte(page)
    BY <2>2
  <2>6. Put(zeroed, s.page, v[4], w) \in Memory /\ Put(zeroed, s.page, v[4], w).bits = zeroed.bits
    BY <2>2, <2>3, PutBits
  <2> QED
    BY <2>3, <2>4, <2>5, <2>6 DEF s
<1> QED
  BY <1>1, <1>2, <1>3, <1>4

(* The tables that map_page's walk reaches, those it makes included.       *)
LEMMA WalkTree ==
  ASSUME NEW m, NEW R, NEW K, NEW par, NEW loose, Tree(m, R, K, par, loose),
         m.bits = DOMAIN K, NEW r \in R, NEW v \in User,
         NEW s, s = Walk3(m, r, v), Free(s.mem) # {}
  PROVE  \E K2, par2 :
           /\ Tree(s.mem, R, K2, par2, loose) /\ Extends(m, K, s.mem, K2)
           /\ SameTranslations(m, s.mem, R)
           /\ \E t3, t2 \in DOMAIN K2 :
                /\ Word(s.mem, r, v[1]) = UserPte(t3) /\ Word(s.mem, t3, v[2]) = UserPte(t2)
                /\ Word(s.mem, t2, v[3]) = UserPte(s.page)
                /\ K2[t3] # "frame" /\ K2[t2] # "frame"
                /\ s.page \in DOMAIN K2 /\ K2[s.page] = "pml1"
<1> DEFINE s1 == Walk1(m, r, v)
           s2 == Walk2(m, r, v)
<1>1. /\ Free(s1.mem) # {} /\ Free(s2.mem) # {}
      /\ m \in Memory /\ r \in DOMAIN K /\ K[r] = "pml4"
  <2>1. m \in Memory /\ r \in DOMAIN K /\ K[r] = "pml4"
    BY DEF Tree, Shape
  <2>2. s1.mem.bits \subseteq s2.mem.bits /\ s2.mem.bits \subseteq s.mem.bits
    BY <2>1, MapPageBits
  <2> QED
    BY <2>1, <2>2 DEF Free
<1>2. PICK K1, par1 :
        /\ Tree(s1.mem, R, K1, par1, loose) /\ Extends(m, K, s1.mem, K1)
        /\ SameTranslations(m, s1.mem, R)
        /\ s1.page \in DOMAIN K1 /\ WalkKind(K1[s1.page], v, 3)
        /\ Word(s1.mem, r, v[1]) = UserPte(s1.page)
  <2>1. WalkKind(K[r], v, 4)
    BY <1>1 DEF WalkKind
  <2>2. s1 = Descend([mem |-> m, page |-> r], v, 4)
    BY DEF Walk1
  <2>3. Index(v, 4) = v[1]
    BY DEF Index
  <2> HIDE DEF s1
  <2> QED
    BY <1>1, <2>1, <2>2, <2>3, DescendTree
<1>3. PICK K2, par2 :
        /\ Tree(s2.mem, R, K2, par2, loose) /\ Extends(s1.mem, K1, s2.mem, K2)
        /\ SameTranslations(s1.mem, s2.mem, R)
        /\ s2.page \in DOMAIN K2 /\ WalkKind(K2[s2.page], v, 2)
        /\ Word(s2.mem, s1.page, v[2]) = UserPte(s2.page)
  <2>1. s2 = Descend([mem |-> s1.mem, page |-> s1.page], v, 3)
    BY DEF Walk2
  <2>2. Index(v, 3) = v[2] /\ s1.mem.bits = DOMAIN K1
    BY <1>2 DEF Index, Extends
  <2> HIDE DEF s1, s2
  <2> QED
    BY <1>1, <1>2, <2>1, <2>2, DescendTree
<1>4. PICK K3, par3 :
        /\ Tree(s.mem, R, K3, par3, loose) /\ Extends(s2.mem, K2, s.mem, K3)
        /\ SameTranslations(s2.mem, s.mem, R)
        /\ s.page \in DOMAIN K3 /\ WalkKind(K3[s.page], v, 1)
        /\ Word(s.mem, s2.page, v[3]) = UserPte(s.page)
  <2>1. s = Descend([mem |-> s2.mem, page |-> s2.page], v, 2)
    BY DEF Walk3
  <2>2. Index(v, 2) = v[3] /\ s2.mem.bits = DOMAIN K2
    BY <1>3 DEF Index, Extends
  <2> HIDE DEF s2
  <2> QED
    BY <1>1, <1>3, <2>1, <2>2, DescendTree
<1> HIDE DEF s1, s2
<1>5. /\ Extends(s1.mem, K1, s.mem, K3) /\ Extends(m, K, s.mem, K3)
      /\ SameTranslations(m, s.mem, R)
  <2>1. Extends(s1.mem, K1, s.mem, K3)
    BY <1>3, <1>4, ExtendsTrans
  <2>2. Extends(m, K, s.mem, K3)
    BY <1>2, <2>1, ExtendsTrans
  <2> QED
    BY <1>2, <1>3, <1>4, <2>1, <2>2 DEF SameTranslations
<1>6. /\ K1[r] = "pml4" /\ K1[s1.page] \in {"pml3", "kpml3"} /\ K2[s2.page] = "pml2"
      /\ K2[s1.page] = K1[s1.page] /\ s1.page \in DOMAIN K2 /\ r \in DOMAIN K1
      /\ K3[s.page] = "pml1" /\ K3[s1.page] = K1[s1.page] /\ K3[s2.page] = "pml2"
      /\ s1.page \in DOMAIN K3 /\ s2.page \in DOMAIN K3
  BY <1>1, <1>2, <1>3, <1>4, <1>5 DEF Extends, WalkKind
<1>7. r \in Tables(K1) /\ s1.page \in Tables(K2)
  BY <1>6 DEF Tables
<1>8. v[1] \in Indexes /\ v[2] \in Indexes /\ DOMAIN K1 \subseteq Nat /\ DOMAIN K2 \subseteq Nat
  BY <1>2, <1>3, PoolInPages DEF User, Virtual, Tree, Shape
<1>9. Word(s.mem, r, v[1]) = UserPte(s1.page) /\ Word(s.mem, s1.page, v[2]) = UserPte(s2.page)
  <2>1. Word(s1.mem, r, v[1]) # 0 /\ Word(s2.mem, s1.page, v[2]) # 0
    BY <1>2, <1>3, <1>8, Ptes
  <2> QED
    BY <1>2, <1>3, <1>4, <1>5, <1>7, <1>8, <2>1 DEF Extends
<1> QED
  BY <1>4, <1>5, <1>6, <1>9

(* map_page of a page that is not mapped (memory.c:107-137): it alone is   *)
(* translated otherwise than before, and the tree is kept.                 *)
OnlyMaps(m, m2, R, r, v, page) ==
  /\ Translate(m2, r, v) = page
  /\ \A t \in R, u \in User :
       ~(t = r /\ u = v) => Translate(m2, t, u) = Translate(m, t, u)

(* map_page of a page not yet mapped (memory.c:107-140): the tables it     *)
(* adds and the entry it stores keep the tree, and map that page only.     *)
LEMMA MapPageTree ==
  ASSUME NEW m, NEW R, NEW K, NEW par, NEW loose, Tree(m, R, K, par, loose),
         m.bits = DOMAIN K, NEW r \in R, NEW v \in User, Translate(m, r, v) = NoPage,
         NEW page \in Nat, page = loose \/ (loose = NoPage /\ page \notin Pool),
         NEW m2, m2 = MapPage(m, r, v, page), Free(m2) # {}
  PROVE  \E K2, par2 :
           /\ Tree(m2, R, K2, par2, NoPage) /\ Extends(m, K, m2, K2)
           /\ OnlyMaps(m, m2, R, r, v, page)
<1> PICK s : s = Walk3(m, r, v)
  OBVIOUS
<1> PICK i \in Indexes : i = v[4]
  BY DEF User, Virtual
<1>1. m \in Memory /\ Free(s.mem) # {} /\ s.mem \in Memory
  <2>1. m \in Memory
    BY DEF Tree, Shape
  <2>2. m2.bits = s.mem.bits /\ s.mem \in Memory
    BY <2>1, MapPageBits
  <2> QED
    BY <2>1, <2>2 DEF Free
<1>2. PICK K2, par2, t3, t2 :
        /\ Tree(s.mem, R, K2, par2, loose) /\ Extends(m, K, s.mem, K2)
        /\ SameTranslations(m, s.mem, R)
        /\ t3 \in DOMAIN K2 /\ t2 \in DOMAIN K2
        /\ Word(s.mem, r, v[1]) = UserPte(t3) /\ Word(s.mem, t3, v[2]) = UserPte(t2)
        /\ Word(s.mem, t2, v[3]) = UserPte(s.page)
        /\ K2[t3] # "frame" /\ K2[t2] # "frame"
        /\ s.page \in DOMAIN K2 /\ K2[s.page] = "pml1"
  BY <1>1, WalkTree
<1> PICK p \in DOMAIN K2 : p = s.page
  BY <1>2
<1>3. /\ DOMAIN K2 \subseteq Pool /\ DOMAIN K2 \subseteq Nat /\ DOMAIN K2 \subseteq Pages \ {0}
      /\ p \in Tables(K2) /\ r \in Tables(K2) /\ t3 \in Tables(K2) /\ t2 \in Tables(K2)
      /\ v[1] \in Indexes /\ v[2] \in Indexes /\ v[3] \in Indexes
  BY <1>2, PoolInPages DEF Tree, Shape, Tables, User, Virtual
<1>4. Word(s.mem, p, i) = 0
  <2> SUFFICES ASSUME Word(s.mem, p, i) # 0 PROVE FALSE
    OBVIOUS
  <2>1. Legal(K2, K2[p], i, Word(s.mem, p, i))
    BY <1>2, <1>3 DEF Tree, AllLegal
  <2>2. PICK q \in Nat : Word(s.mem, p, i) = UserPte(q)
    BY <1>2, <2>1 DEF Legal
  <2>3. Translate(s.mem, r, v) = q
    <3>1. Path(s.mem, r, v, t3, t2, p, q)
      BY <1>2, <2>2 DEF Path
    <3> QED
      BY <1>2, <1>3, <3>1, PathTranslates
  <2> QED
    BY <1>2, <2>3 DEF SameTranslations, NoPage
<1> PICK z : z = Zero(s.mem, 0)
  OBVIOUS
<1>5. m2 = Put(z, p, i, UserPte(page))
  <2>1. ~Present(Word(s.mem, s.page, v[4])) /\ PageOf(Word(s.mem, s.page, v[4])) = 0
    BY <1>4, Ptes
  <2> QED
    BY <2>1, MapPageWalks
<1>6. /\ z \in Memory /\ z.bits = s.mem.bits /\ z.alive = s.mem.alive
      /\ \A x \in Pages : x # 0 => z.ram[x] = s.mem.ram[x]
  BY <1>1, PoolInPages, ZeroWords
<1>7. \A x \in Pages : \A j : x # 0 => Word(z, x, j) = Word(s.mem, x, j)
  BY <1>6 DEF Word
<1>8. Tree(z, R, K2, par2, loose) /\ SameTranslations(s.mem, z, R)
  <2>1. \A x \in Tables(K2) \cup (Pool \ DOMAIN K2) : z.ram[x] = s.mem.ram[x]
    BY <1>3, <1>6, PoolInPages DEF Tables
  <2> QED
    BY <1>2, <1>6, <2>1, SameTree DEF SameTranslations
<1> PICK par3 : par3 = Grown(par2, DOMAIN K2, page, <<p, i>>)
  OBVIOUS
<1>9. /\ m2.bits = z.bits /\ m2.alive = z.alive
      /\ Tree(m2, R, K2, par3, NoPage)
      /\ Word(m2, p, i) = UserPte(page)
      /\ \A x \in Pages, j \in Indexes :
           ~(x = p /\ j = i) => Word(m2, x, j) = Word(z, x, j)
      /\ \A x \in Pages \ {p} : m2.ram[x] = z.ram[x]
  <2>1. Word(z, p, i) = 0 /\ K2[p] = "pml1"
    BY <1>2, <1>3, <1>4, <1>7
  <2> QED
    BY <1>5, <1>8, <2>1, LeafTree
<1>10. OnlyMaps(z, m2, R, r, v, page)
  <2>1. /\ Word(z, r, v[1]) = UserPte(t3) /\ Word(z, t3, v[2]) = UserPte(t2)
        /\ Word(z, t2, v[3]) = UserPte(p) /\ Word(z, p, v[4]) = 0
    BY <1>2, <1>3, <1>4, <1>7 DEF Tables
  <2> QED
    BY <1>2, <1>8, <1>9, <2>1, LeafPaths DEF OnlyMaps
<1>11. Extends(s.mem, K2, z, K2)
  BY <1>2, <1>3, <1>6, <1>7 DEF Extends, Tables
<1>12. Extends(z, K2, m2, K2)
  <2>1. \A x \in Tables(K2), j \in Indexes :
          Word(z, x, j) # 0 => Word(m2, x, j) = Word(z, x, j)
    BY <1>3, <1>4, <1>7, <1>9 DEF Tables
  <2>2. \A x \in Pages \ {0} :
          x \notin Pool \/ (x \in DOMAIN K2 /\ K2[x] = "frame") => m2.ram[x] = z.ram[x]
    BY <1>2, <1>3, <1>9
  <2> QED
    BY <1>2, <1>6, <1>9, <2>1, <2>2 DEF Extends
<1>13. Extends(m, K, m2, K2)
  BY <1>2, <1>11, <1>12, ExtendsTrans
<1>14. OnlyMaps(m, m2, R, r, v, page)
  BY <1>2, <1>8, <1>10 DEF OnlyMaps, SameTranslations
<1> QED
  BY <1>9, <1>13, <1>14

(* map_page of a page that is mapped on the same page changes nothing.     *)
LEMMA RemapTree ==
  ASSUME NEW m, NEW R, NEW K, NEW par, Tree(m, R, K, par, NoPage),
         NEW r \in R, NEW v \in User, NEW page \in Nat, Translate(m, r, v) = page,
         NEW m2, m2 = MapPage(m, r, v, page)
  PROVE  /\ m2 \in Memory /\ m2.bits = m.bits /\ m2.alive = m.alive
         /\ \A x \in Pages : m2.ram[x] = m.ram[x]
<1>1. /\ m \in Memory /\ DOMAIN K \subseteq Nat /\ DOMAIN K \subseteq Pages
      /\ \A j \in {1, 2, 3, 4} : v[j] \in Indexes
  BY PoolInPages DEF Tree, Shape, User, Virtual
<1>2. PICK t3, t2, t1 \in DOMAIN K : Path(m, r, v, t3, t2, t1, page)
  <2>1. Translate(m, r, v) # NoPage
    BY DEF NoPage
  <2> QED
    BY <2>1, WalkDown
<1>3. Walk1(m, r, v).mem = m /\ Walk1(m, r, v).page = t3
  BY <1>1, <1>2, Ptes DEF Walk1, Descend, Path, Index
<1>4. Walk2(m, r, v).mem = m /\ Walk2(m, r, v).page = t2
  BY <1>1, <1>2, <1>3, Ptes DEF Walk2, Descend, Path, Index
<1>5. Walk3(m, r, v).mem = m /\ Walk3(m, r, v).page = t1
  BY <1>1, <1>2, <1>4, Ptes DEF Walk3, Descend, Path, Index
<1>6. Word(m, t1, v[4]) = UserPte(page) /\ Present(UserPte(page))
  BY <1>2, Ptes DEF Path
<1>7. m2 = Put(m, t1, v[4], UserPte(page))
  BY <1>5, <1>6, MapPageWalks
<1> PICK w \in Nat : w = UserPte(page)
  BY Ptes
<1> PICK p \in Pages : p = t1
  BY <1>1
<1> PICK i \in Indexes : i = v[4]
  BY <1>1
<1>8. /\ m2 \in Memory /\ m2.bits = m.bits /\ m2.alive = m.alive
      /\ Word(m2, p, i) = w
      /\ \A x \in Pages : x # p => m2.ram[x] = m.ram[x]
      /\ \A j \in Indexes : j # i => Word(m2, p, j) = Word(m, p, j)
  <2>1. m2 = Put(m, p, i, w) /\ m \in Memory
    BY <1>1, <1>7
  <2>2. /\ m2 \in Memory /\ m2.bits = m.bits /\ m2.alive = m.alive
        /\ Word(m2, p, i) = w
        /\ \A x \in Pages, j \in Indexes :
             ~(x = p /\ j = i) => Word(m2, x, j) = Word(m, x, j)
        /\ \A x \in Pages : x # p => m2.ram[x] = m.ram[x]
    BY <2>1, PutWords
  <2> QED
    BY <2>2
<1>9. m2.ram[p] = m.ram[p]
  <2>1. \A j \in Indexes : Word(m2, p, j) = Word(m, p, j)
    BY <1>6, <1>8
  <2>2. m2.ram[p] \in [Indexes -> Nat] /\ m.ram[p] \in [Indexes -> Nat]
    BY <1>1, <1>8 DEF Memory
  <2> QED
    BY <2>1, <2>2 DEF Word
<1> QED
  BY <1>8, <1>9
-------------------------------------------------------------------------------
(* *cadre and the clearing of a frame touch no table. *)
LEMMA KeepZero ==
  ASSUME NEW m \in Memory, NEW page \in Pages, NEW m2, m2 = Zero(Keep(m, page), page)
  PROVE  /\ m2 \in Memory /\ m2.bits = m.bits /\ m2.alive = m.alive
         /\ m2.ram[page] = ZeroContent
         /\ \A x \in Pages : x # 0 /\ x # page => m2.ram[x] = m.ram[x]
<1>1. PICK w \in Nat : w = page * PAGE_SIZE
  BY DEF Pages, PAGE_SIZE
<1>2. 0 \in Indexes /\ 0 \in Pages
  BY KernelMemoryAssumption, PoolInPages DEF Indexes
<1> PICK k : k = Keep(m, page)
  OBVIOUS
<1>3. k = Put(m, 0, 0, w)
  BY <1>1 DEF Keep
<1>4. /\ k \in Memory /\ k.bits = m.bits /\ k.alive = m.alive
      /\ \A x \in Pages : x # 0 => k.ram[x] = m.ram[x]
  BY <1>2, <1>3, PutWords
<1>5. /\ m2 \in Memory /\ m2.bits = k.bits /\ m2.alive = k.alive
      /\ m2.ram[page] = ZeroContent
      /\ \A x \in Pages : x # page => m2.ram[x] = k.ram[x]
  BY <1>4, ZeroWords
<1> QED
  BY <1>4, <1>5

(* A page that is not mapped is mapped on a page just allocated, which     *)
(* holds zeros: no other page is disturbed.                                *)
FreshlyMapped(m, m2, R, K, r, v) ==
  \E K2, par2, f :
    /\ Tree(m2, R, K2, par2, NoPage) /\ Extends(m, K, m2, K2)
    /\ OnlyMaps(m, m2, R, r, v, f)
    /\ f \in DOMAIN K2 \ DOMAIN K /\ K2[f] = "frame"
    /\ m2.ram[f] = ZeroContent

(* map_page of the frame alloc_page has just given, once it is zeroed.     *)
LEMMA MapFresh ==
  ASSUME NEW m, NEW R, NEW K, NEW par, Tree(m, R, K, par, NoPage),
         m.bits = DOMAIN K, Free(m) # {},
         NEW r \in R, NEW v \in User, Translate(m, r, v) = NoPage,
         NEW a, a = AllocPage(m),
         NEW z \in Memory, z.bits = a.mem.bits, z.alive = m.alive,
         z.ram[a.page] = ZeroContent,
         \A x \in Pages : x # 0 /\ x # a.page => z.ram[x] = m.ram[x],
         NEW m2, m2 = MapPage(z, r, v, a.page), Free(m2) # {}
  PROVE  FreshlyMapped(m, m2, R, K, r, v)
<1>1. m \in Memory /\ DOMAIN K \subseteq Pool
  BY DEF Tree, Shape
<1>f. PICK f : f = a.page
  OBVIOUS
<1> PICK K1 : K1 = Grown(K, DOMAIN K, f, "frame")
  OBVIOUS
<1>2. /\ f \in Pool \ DOMAIN K /\ a.mem.bits = DOMAIN K1
      /\ a.mem.ram = m.ram /\ a.mem.alive = m.alive
      /\ Tree(a.mem, R, K1, par, f)
      /\ Tables(K1) = Tables(K)
  BY <1>f, LooseTree
<1>3. /\ DOMAIN K1 = DOMAIN K \cup {f} /\ K1[f] = "frame"
      /\ \A q \in DOMAIN K : K1[q] = K[q]
  BY <1>2 DEF Grown
<1>4. f \in Pages /\ f \in Nat /\ f # 0 /\ a.mem \in Memory
  BY <1>2, PoolInPages DEF Tree, Shape
<1>5. \A x \in Pages : x # 0 /\ x # f => z.ram[x] = m.ram[x]
  BY <1>f
<1>6. Tree(z, R, K1, par, f) /\ SameTranslations(a.mem, z, R)
  <2>1. \A x \in Tables(K1) \cup (Pool \ DOMAIN K1) : z.ram[x] = a.mem.ram[x]
    BY <1>1, <1>2, <1>3, <1>5, PoolInPages DEF Tables
  <2> QED
    BY <1>2, <2>1, SameTree DEF SameTranslations
<1>7. \A t, u : Translate(a.mem, t, u) = Translate(m, t, u)
  <2>1. \A x, j : Word(a.mem, x, j) = Word(m, x, j)
    BY <1>2 DEF Word
  <2> SUFFICES ASSUME NEW t, NEW u
               PROVE  Translate(a.mem, t, u) = Translate(m, t, u)
    OBVIOUS
  <2>2. Entry4(a.mem, t, u) = Entry4(m, t, u)
    BY <2>1 DEF Entry4
  <2>3. Entry3(a.mem, t, u) = Entry3(m, t, u)
    BY <2>1, <2>2 DEF Entry3
  <2>4. Entry2(a.mem, t, u) = Entry2(m, t, u)
    BY <2>1, <2>3 DEF Entry2
  <2>5. Entry1(a.mem, t, u) = Entry1(m, t, u)
    BY <2>1, <2>4 DEF Entry1
  <2> QED
    BY <2>2, <2>3, <2>4, <2>5 DEF Translate
<1>8. Translate(z, r, v) = NoPage
  BY <1>6, <1>7 DEF SameTranslations
<1>9. PICK K2, par2 :
        /\ Tree(m2, R, K2, par2, NoPage) /\ Extends(z, K1, m2, K2)
        /\ OnlyMaps(z, m2, R, r, v, f)
  <2>1. z.bits = DOMAIN K1 /\ m2 = MapPage(z, r, v, f)
    BY <1>2, <1>f
  <2> QED
    BY <1>4, <1>6, <1>8, <2>1, MapPageTree
<1>10. Extends(m, K, z, K1)
  <2>1. \A x \in Tables(K), j \in Indexes : Word(z, x, j) = Word(m, x, j)
    <3>1. \A x \in Tables(K) : x \in Pages /\ x # 0 /\ x # f
      BY <1>1, <1>2, PoolInPages DEF Tables
    <3>2. \A x \in Tables(K) : z.ram[x] = m.ram[x]
      BY <1>5, <3>1
    <3> QED
      BY <3>2 DEF Word
  <2>2. \A x \in Pages \ {0} : x \notin Pool \/ x \in DOMAIN K => z.ram[x] = m.ram[x]
    BY <1>2, <1>5
  <2> QED
    BY <1>2, <1>3, <2>1, <2>2 DEF Extends
<1>11. Extends(m, K, m2, K2)
  BY <1>9, <1>10, ExtendsTrans
<1>12. OnlyMaps(m, m2, R, r, v, f)
  BY <1>6, <1>7, <1>9 DEF OnlyMaps, SameTranslations
<1>13. f \in DOMAIN K2 /\ K2[f] = "frame" /\ m2.ram[f] = ZeroContent
  BY <1>3, <1>4, <1>9, <1>f DEF Extends
<1> QED
  BY <1>2, <1>9, <1>11, <1>12, <1>13 DEF FreshlyMapped

(* Theorem: mmap of a page that is not mapped (memory.c:216-230) maps it   *)
(* on a zeroed frame of its own, and adds the tables the walk needs: no    *)
(* other translation and no page in use changes, but page 0.               *)
THEOREM MmapTree ==
  ASSUME NEW m, NEW R, NEW K, NEW par, Tree(m, R, K, par, NoPage),
         m.bits = DOMAIN K, NEW r \in R, NEW v \in User, Translate(m, r, v) = NoPage,
         NEW m2, m2 = Mmap(m, r, v), Free(m2) # {}
  PROVE  FreshlyMapped(m, m2, R, K, r, v)
<1>a. PICK a : a = AllocPage(m)
  OBVIOUS
<1>z. PICK z : z = Zero(Keep(a.mem, a.page), a.page)
  OBVIOUS
<1>1. m2 = MapPage(z, r, v, a.page)
  BY <1>a, <1>z DEF Mmap
<1>2. m \in Memory
  BY DEF Tree, Shape
<1>3. Free(m) # {}
  <2> SUFFICES ASSUME Free(m) = {} PROVE FALSE
    OBVIOUS
  <2>1. a.mem = m /\ a.page = 0 /\ 0 \in Pages /\ 0 \in Nat
    BY <1>a, PoolInPages DEF AllocPage
  <2>2. z \in Memory /\ z.bits = m.bits
    BY <1>2, <1>z, <2>1, KeepZero
  <2>3. /\ MapPage(z, r, v, 0).bits = Walk3(z, r, v).mem.bits
        /\ z.bits \subseteq Walk1(z, r, v).mem.bits
        /\ Walk1(z, r, v).mem.bits \subseteq Walk2(z, r, v).mem.bits
        /\ Walk2(z, r, v).mem.bits \subseteq Walk3(z, r, v).mem.bits
    BY <2>1, <2>2, MapPageBits
  <2> QED
    BY <1>1, <2>1, <2>2, <2>3 DEF Free
<1>4. /\ a.mem \in Memory /\ a.mem.ram = m.ram /\ a.mem.alive = m.alive
      /\ a.page \in Pages
  BY <1>2, <1>3, <1>a, AllocNew, PoolInPages
<1>5. /\ z \in Memory /\ z.bits = a.mem.bits /\ z.alive = a.mem.alive
      /\ z.ram[a.page] = ZeroContent
      /\ \A x \in Pages : x # 0 /\ x # a.page => z.ram[x] = a.mem.ram[x]
  BY <1>4, <1>z, KeepZero
<1> QED
  BY <1>1, <1>3, <1>4, <1>5, <1>a, MapFresh

(* mmap of the page whose frame munmap has just freed: alloc_page returns  *)
(* that frame, and the page is mapped on it again.                         *)
LEMMA MmapAgain ==
  ASSUME NEW m, NEW R, NEW K, NEW par, Tree(m, R, K, par, NoPage),
         NEW r \in R, NEW v \in User, NEW f \in DOMAIN K, K[f] = "frame",
         m.bits = DOMAIN K \ {f}, Translate(m, r, v) = f,
         NEW m2, m2 = Mmap(m, r, v)
  PROVE  /\ Tree(m2, R, K, par, NoPage) /\ SameTranslations(m, m2, R)
         /\ m2.bits = DOMAIN K /\ m2.alive = m.alive
         /\ m2.ram[f] = ZeroContent
         /\ \A x \in Pages : x # 0 /\ x # f => m2.ram[x] = m.ram[x]
<1> PICK a : a = AllocPage(m)
  OBVIOUS
<1> PICK z : z = Zero(Keep(a.mem, a.page), a.page)
  OBVIOUS
<1>1. m2 = MapPage(z, r, v, a.page)
  BY DEF Mmap
<1>2. /\ m \in Memory /\ DOMAIN K \subseteq Pool /\ f \in Nat /\ f \in Pages /\ f # 0
      /\ DOMAIN K \subseteq Pages
  BY PoolInPages DEF Tree, Shape
<1>3. a.page = f
  <2>1. f \in Free(m) /\ Free(m) # {}
    BY <1>2 DEF Free
  <2>2. FirstFree(m) \in Free(m) /\ FirstFree(m) <= f
    BY <2>1, FirstFreeIsLowest
  <2> PICK n \in Pool : n = FirstFree(m) /\ n \notin m.bits
    BY <2>2 DEF Free
  <2>3. n \in Nat /\ (n = f \/ n < f)
    BY <1>2, <2>2, PoolInPages
  <2>4. ~(n < f)
    BY <1>2, <2>3 DEF Tree, FreeLast
  <2> QED
    BY <2>1, <2>3, <2>4 DEF AllocPage
<1>4. /\ a.mem \in Memory /\ a.mem.ram = m.ram /\ a.mem.alive = m.alive
      /\ a.mem.bits = DOMAIN K
  <2>1. f \in Free(m) /\ Free(m) # {}
    BY <1>2 DEF Free
  <2>2. a.page = FirstFree(m)
    BY <2>1 DEF AllocPage
  <2>3. /\ a.mem \in Memory /\ a.mem.ram = m.ram /\ a.mem.alive = m.alive
        /\ a.mem.bits = m.bits \cup {FirstFree(m)}
    BY <1>2, <2>1, AllocFacts
  <2> QED
    BY <1>3, <2>2, <2>3
<1>5. /\ z \in Memory /\ z.bits = DOMAIN K /\ z.alive = m.alive
      /\ z.ram[f] = ZeroContent
      /\ \A x \in Pages : x # 0 /\ x # f => z.ram[x] = m.ram[x]
  BY <1>2, <1>3, <1>4, KeepZero
<1>6. Tree(z, R, K, par, NoPage) /\ SameTranslations(m, z, R)
  <2>1. \A x \in Tables(K) \cup (Pool \ DOMAIN K) : z.ram[x] = m.ram[x]
    BY <1>2, <1>5, PoolInPages DEF Tables
  <2> QED
    BY <1>5, <2>1, SameTree DEF SameTranslations
<1>7. Translate(z, r, v) = f
  BY <1>6 DEF SameTranslations
<1>8. /\ m2 \in Memory /\ m2.bits = z.bits /\ m2.alive = z.alive
      /\ \A x \in Pages : m2.ram[x] = z.ram[x]
  BY <1>1, <1>2, <1>3, <1>6, <1>7, RemapTree
<1>9. Tree(m2, R, K, par, NoPage) /\ SameTranslations(z, m2, R)
  <2>1. \A x \in Tables(K) \cup (Pool \ DOMAIN K) : m2.ram[x] = z.ram[x]
    BY <1>2, <1>8, PoolInPages DEF Tables
  <2> QED
    BY <1>6, <1>8, <2>1, SameTree DEF SameTranslations
<1> QED
  BY <1>2, <1>5, <1>6, <1>8, <1>9 DEF SameTranslations
-------------------------------------------------------------------------------
(* b is a with the word w in entry i of page p. *)
Stored(a, b, p, i, w) ==
  /\ b \in Memory /\ b.bits = a.bits /\ b.alive = a.alive
  /\ Word(b, p, i) = w
  /\ \A x \in Pages, j \in Indexes :
       ~(x = p /\ j = i) => Word(b, x, j) = Word(a, x, j)
  /\ \A x \in Pages : x # p => b.ram[x] = a.ram[x]

(* A store in a page of the machine, as one predicate.                     *)
LEMMA PutStored ==
  ASSUME NEW a \in Memory, NEW p \in Pages, NEW i \in Indexes, NEW w \in Nat,
         NEW b, b = Put(a, p, i, w)
  PROVE  Stored(a, b, p, i, w)
BY PutWords DEF Stored

(* The five stores of load_task in its first tables. *)
FiveStored(m, m5, p4, p3, p2, p1, w4, w3, w2, w1, w0) ==
  /\ m5 \in Memory /\ m5.bits = m.bits /\ m5.alive = m.alive
  /\ Word(m5, p4, 0) = w4 /\ Word(m5, p3, 0) = w3
  /\ Word(m5, p2, 0) = w2 /\ Word(m5, p2, 1) = w1 /\ Word(m5, p1, 0) = w0
  /\ \A x \in {p4, p3, p1}, j \in Indexes : j # 0 => Word(m5, x, j) = Word(m, x, j)
  /\ \A j \in Indexes : j # 0 /\ j # 1 => Word(m5, p2, j) = Word(m, p2, j)
  /\ \A x \in Pages \ {p4, p3, p2, p1} : m5.ram[x] = m.ram[x]

(* The five entries that load_task stores, each in a page of its own.      *)
LEMMA FiveStores ==
  ASSUME NEW m \in Memory,
         NEW p4 \in Pages, NEW p3 \in Pages, NEW p2 \in Pages, NEW p1 \in Pages,
         p4 # p3, p4 # p2, p4 # p1, p3 # p2, p3 # p1, p2 # p1,
         NEW w4 \in Nat, NEW w3 \in Nat, NEW w2 \in Nat, NEW w1 \in Nat, NEW w0 \in Nat,
         NEW m1, m1 = Put(m, p4, 0, w4), NEW m2, m2 = Put(m1, p3, 0, w3),
         NEW m3, m3 = Put(m2, p2, 0, w2), NEW m4, m4 = Put(m3, p2, 1, w1),
         NEW m5, m5 = Put(m4, p1, 0, w0)
  PROVE  FiveStored(m, m5, p4, p3, p2, p1, w4, w3, w2, w1, w0)
<1>1. 0 \in Indexes /\ 1 \in Indexes
  BY KernelMemoryAssumption DEF Indexes
<1>2. ASSUME NEW a \in Memory, NEW p \in Pages, NEW i \in Indexes, NEW w \in Nat,
             NEW b, b = Put(a, p, i, w)
      PROVE  Stored(a, b, p, i, w)
  BY <1>2, PutStored
<1>3. ASSUME NEW a, NEW b, NEW p, NEW i, NEW w, Stored(a, b, p, i, w)
      PROVE  b \in Memory
  BY <1>3 DEF Stored
<1>4. Stored(m, m1, p4, 0, w4)
  BY <1>1, <1>2
<1>5. Stored(m1, m2, p3, 0, w3)
  BY <1>1, <1>2, <1>3, <1>4
<1>6. Stored(m2, m3, p2, 0, w2)
  BY <1>1, <1>2, <1>3, <1>5
<1>7. Stored(m3, m4, p2, 1, w1)
  BY <1>1, <1>2, <1>3, <1>6
<1>8. Stored(m4, m5, p1, 0, w0)
  BY <1>1, <1>2, <1>3, <1>7
<1>9. m5 \in Memory /\ m5.bits = m.bits /\ m5.alive = m.alive
  BY <1>4, <1>5, <1>6, <1>7, <1>8 DEF Stored
<1>10. \A x \in Pages \ {p4, p3, p2, p1} : m5.ram[x] = m.ram[x]
  BY <1>4, <1>5, <1>6, <1>7, <1>8 DEF Stored
<1>11. Word(m5, p4, 0) = w4 /\ Word(m5, p3, 0) = w3
  BY <1>1, <1>4, <1>5, <1>6, <1>7, <1>8 DEF Stored
<1>12. Word(m5, p2, 0) = w2 /\ Word(m5, p2, 1) = w1 /\ Word(m5, p1, 0) = w0
  BY <1>1, <1>6, <1>7, <1>8 DEF Stored
<1>13. \A x \in {p4, p3, p1}, j \in Indexes : j # 0 => Word(m5, x, j) = Word(m, x, j)
  <2> SUFFICES ASSUME NEW x \in Pages, x # p2, NEW j \in Indexes, j # 0
               PROVE  Word(m5, x, j) = Word(m, x, j)
    OBVIOUS
  <2>1. Word(m5, x, j) = Word(m4, x, j)
    BY <1>8 DEF Stored
  <2>2. Word(m4, x, j) = Word(m3, x, j)
    BY <1>7 DEF Stored
  <2>3. Word(m3, x, j) = Word(m2, x, j)
    BY <1>6 DEF Stored
  <2>4. Word(m2, x, j) = Word(m1, x, j)
    BY <1>5 DEF Stored
  <2>5. Word(m1, x, j) = Word(m, x, j)
    BY <1>4 DEF Stored
  <2> QED
    BY <2>1, <2>2, <2>3, <2>4, <2>5
<1>14. \A j \in Indexes : j # 0 /\ j # 1 => Word(m5, p2, j) = Word(m, p2, j)
  <2> SUFFICES ASSUME NEW j \in Indexes, j # 0, j # 1
               PROVE  Word(m5, p2, j) = Word(m, p2, j)
    OBVIOUS
  <2>1. Word(m5, p2, j) = Word(m4, p2, j)
    BY <1>8 DEF Stored
  <2>2. Word(m4, p2, j) = Word(m3, p2, j)
    BY <1>7 DEF Stored
  <2>3. Word(m3, p2, j) = Word(m2, p2, j)
    BY <1>6 DEF Stored
  <2>4. Word(m2, p2, j) = Word(m1, p2, j)
    BY <1>5 DEF Stored
  <2>5. Word(m1, p2, j) = Word(m, p2, j)
    BY <1>4 DEF Stored
  <2> QED
    BY <2>1, <2>2, <2>3, <2>4, <2>5
<1> QED
  BY <1>9, <1>10, <1>11, <1>12, <1>13, <1>14 DEF FiveStored

(* Four pages taken in turn. *)
FourTaken(bits, p4, p3, p2, p1) ==
  /\ p4 \in Pool \ bits /\ \A q \in Pool \ bits : p4 <= q
  /\ p3 \in Pool \ (bits \cup {p4}) /\ \A q \in Pool \ (bits \cup {p4}) : p3 <= q
  /\ p2 \in Pool \ (bits \cup {p4, p3})
  /\ \A q \in Pool \ (bits \cup {p4, p3}) : p2 <= q
  /\ p1 \in Pool \ (bits \cup {p4, p3, p2})
  /\ \A q \in Pool \ (bits \cup {p4, p3, p2}) : p1 <= q

FourAllocated(m, a, p4, p3, p2, p1) ==
  /\ a \in Memory /\ a.ram = m.ram /\ a.alive = m.alive
  /\ a.bits = m.bits \cup {p4, p3, p2, p1}
  /\ FourTaken(m.bits, p4, p3, p2, p1)

(* Four calls of alloc_page in a row give four different pages.            *)
LEMMA FourAllocs ==
  ASSUME NEW m \in Memory, NEW a4, a4 = AllocPage(m), NEW a3, a3 = AllocPage(a4.mem),
         NEW a2, a2 = AllocPage(a3.mem), NEW a1, a1 = AllocPage(a2.mem),
         Free(a1.mem) # {}
  PROVE  FourAllocated(m, a1.mem, a4.page, a3.page, a2.page, a1.page)
<1> DEFINE p4 == a4.page
           p3 == a3.page
           p2 == a2.page
           p1 == a1.page
<1> DEFINE Taken(a, b) ==
             /\ b.mem \in Memory /\ b.mem.ram = a.ram /\ b.mem.alive = a.alive
             /\ b.mem.bits = a.bits \cup {b.page}
             /\ b.page \in Pool \ a.bits /\ \A q \in Pool \ a.bits : b.page <= q
<1>1. ASSUME NEW a \in Memory, Free(a) # {}, NEW b, b = AllocPage(a)
      PROVE  Taken(a, b)
  BY <1>1, AllocNew
<1> HIDE DEF Taken
<1>2. a4.mem \in Memory /\ m.bits \subseteq a4.mem.bits
  BY AllocBits
<1>3. a3.mem \in Memory /\ a4.mem.bits \subseteq a3.mem.bits
  BY <1>2, AllocBits
<1>4. a2.mem \in Memory /\ a3.mem.bits \subseteq a2.mem.bits
  BY <1>3, AllocBits
<1>5. a2.mem.bits \subseteq a1.mem.bits
  BY <1>4, AllocBits
<1>6. Free(m) # {} /\ Free(a4.mem) # {} /\ Free(a3.mem) # {} /\ Free(a2.mem) # {}
  BY <1>2, <1>3, <1>4, <1>5 DEF Free
<1>7. Taken(m, a4)
  BY <1>1, <1>6
<1>8. Taken(a4.mem, a3)
  BY <1>1, <1>2, <1>6
<1>9. Taken(a3.mem, a2)
  BY <1>1, <1>3, <1>6
<1>10. Taken(a2.mem, a1)
  BY <1>1, <1>4, <1>6
<1>11. /\ a4.mem.bits = m.bits \cup {p4}
       /\ a3.mem.bits = m.bits \cup {p4, p3}
       /\ a2.mem.bits = m.bits \cup {p4, p3, p2}
       /\ a1.mem.bits = m.bits \cup {p4, p3, p2, p1}
  <2>1. a4.mem.bits = m.bits \cup {p4}
    BY <1>7 DEF Taken
  <2>2. a3.mem.bits = a4.mem.bits \cup {p3}
    BY <1>8 DEF Taken
  <2>3. a2.mem.bits = a3.mem.bits \cup {p2}
    BY <1>9 DEF Taken
  <2>4. a1.mem.bits = a2.mem.bits \cup {p1}
    BY <1>10 DEF Taken
  <2> QED
    BY <2>1, <2>2, <2>3, <2>4
<1>12. p4 \in Pool \ m.bits /\ \A q \in Pool \ m.bits : p4 <= q
  BY <1>7 DEF Taken
<1>13. p3 \in Pool \ a4.mem.bits /\ \A q \in Pool \ a4.mem.bits : p3 <= q
  BY <1>8 DEF Taken
<1>14. p2 \in Pool \ a3.mem.bits /\ \A q \in Pool \ a3.mem.bits : p2 <= q
  BY <1>9 DEF Taken
<1>15. p1 \in Pool \ a2.mem.bits /\ \A q \in Pool \ a2.mem.bits : p1 <= q
  BY <1>10 DEF Taken
<1>16. a1.mem \in Memory /\ a1.mem.ram = m.ram /\ a1.mem.alive = m.alive
  BY <1>7, <1>8, <1>9, <1>10 DEF Taken
<1> QED
  BY <1>11, <1>12, <1>13, <1>14, <1>15, <1>16 DEF FourTaken, FourAllocated

(* The pages the four first tables of load_task take, and what is written  *)
(* in them (memory.c:150-166).                                             *)
KernelWords(m, m2, p4, p3, p2, p1) ==
  /\ m2 \in Memory /\ m2.alive = m.alive
  /\ m2.bits = m.bits \cup {p4, p3, p2, p1}
  /\ FourTaken(m.bits, p4, p3, p2, p1)
  /\ Word(m2, p4, 0) = UserPte(p3) /\ Word(m2, p3, 0) = UserPte(p2)
  /\ Word(m2, p2, 0) = KernelPte(0) /\ Word(m2, p2, 1) = KernelPte(p1)
  /\ Word(m2, p1, 0) = KernelPte(ApicPage)
  /\ \A x \in {p4, p3, p1}, j \in Indexes : j # 0 => Word(m2, x, j) = Word(m, x, j)
  /\ \A j \in Indexes : j # 0 /\ j # 1 => Word(m2, p2, j) = Word(m, p2, j)
  /\ \A x \in Pages \ {p4, p3, p2, p1} : m2.ram[x] = m.ram[x]

(* A store takes no page from the pool.                                    *)
LEMMA StoreBits ==
  ASSUME NEW a \in Memory, NEW p, NEW i \in {0, 1}, NEW w \in Nat,
         NEW b, b = Put(a, p, i, w)
  PROVE  b \in Memory /\ b.bits = a.bits
<1>1. i \in Indexes
  BY KernelMemoryAssumption DEF Indexes
<1> QED
  BY <1>1, PutBits

(* The kernel's tables leave the memory a memory, even with an empty pool. *)
LEMMA KernelTablesMemory ==
  ASSUME NEW m \in Memory, NEW k, k = KernelTables(m)
  PROVE  k.mem \in Memory
<1>a4. PICK a4 : a4 = AllocPage(m)
  OBVIOUS
<1>a3. PICK a3 : a3 = AllocPage(a4.mem)
  OBVIOUS
<1>a2. PICK a2 : a2 = AllocPage(a3.mem)
  OBVIOUS
<1>a1. PICK a1 : a1 = AllocPage(a2.mem)
  OBVIOUS
<1>1. a4.mem \in Memory /\ a4.page \in Nat
  BY <1>a4, AllocBits
<1>2. a3.mem \in Memory /\ a3.page \in Nat
  BY <1>a3, <1>1, AllocBits
<1>3. a2.mem \in Memory /\ a2.page \in Nat
  BY <1>a2, <1>2, AllocBits
<1>4. a1.mem \in Memory /\ a1.page \in Nat
  BY <1>a1, <1>3, AllocBits
<1>w. PICK w4, w3, w2, w1, w0 \in Nat :
        /\ w4 = UserPte(a3.page) /\ w3 = UserPte(a2.page) /\ w2 = KernelPte(0)
        /\ w1 = KernelPte(a1.page) /\ w0 = KernelPte(ApicPage)
  BY <1>2, <1>3, <1>4, PoolInPages, Ptes
<1>m1. PICK m1 : m1 = Put(a1.mem, a4.page, 0, w4)
  OBVIOUS
<1>m2. PICK m2 : m2 = Put(m1, a3.page, 0, w3)
  OBVIOUS
<1>m3. PICK m3 : m3 = Put(m2, a2.page, 0, w2)
  OBVIOUS
<1>m4. PICK m4 : m4 = Put(m3, a2.page, 1, w1)
  OBVIOUS
<1>5. m1 \in Memory
  BY <1>4, <1>m1, StoreBits
<1>6. m2 \in Memory
  BY <1>5, <1>m2, StoreBits
<1>7. m3 \in Memory
  BY <1>6, <1>m3, StoreBits
<1>8. m4 \in Memory
  BY <1>7, <1>m4, StoreBits
<1>9. k.mem = Put(m4, a1.page, 0, w0)
  BY <1>a4, <1>a3, <1>a2, <1>a1, <1>w, <1>m1, <1>m2, <1>m3, <1>m4 DEF KernelTables
<1> QED
  BY <1>8, <1>9, StoreBits

(* The words of the four tables that load_task builds first.               *)
LEMMA KernelTablesWords ==
  ASSUME NEW m \in Memory, NEW k, k = KernelTables(m), Free(k.mem) # {}
  PROVE  \E p3, p2, p1 : KernelWords(m, k.mem, k.page, p3, p2, p1)
<1>a4. PICK a4 : a4 = AllocPage(m)
  OBVIOUS
<1>a3. PICK a3 : a3 = AllocPage(a4.mem)
  OBVIOUS
<1>a2. PICK a2 : a2 = AllocPage(a3.mem)
  OBVIOUS
<1>a1. PICK a1 : a1 = AllocPage(a2.mem)
  OBVIOUS
<1>1. /\ a1.mem \in Memory
      /\ a4.page \in Nat /\ a3.page \in Nat /\ a2.page \in Nat /\ a1.page \in Nat
  <2>1. a4.mem \in Memory /\ a4.page \in Nat
    BY <1>a4, AllocBits
  <2>2. a3.mem \in Memory /\ a3.page \in Nat
    BY <1>a3, <2>1, AllocBits
  <2>3. a2.mem \in Memory /\ a2.page \in Nat
    BY <1>a2, <2>2, AllocBits
  <2>4. a1.mem \in Memory /\ a1.page \in Nat
    BY <1>a1, <2>3, AllocBits
  <2> QED
    BY <2>1, <2>2, <2>3, <2>4
<1>p. PICK p4, p3, p2, p1 \in Nat :
        p4 = a4.page /\ p3 = a3.page /\ p2 = a2.page /\ p1 = a1.page
  BY <1>1
<1>w. PICK w4, w3, w2, w1, w0 \in Nat :
        /\ w4 = UserPte(p3) /\ w3 = UserPte(p2) /\ w2 = KernelPte(0)
        /\ w1 = KernelPte(p1) /\ w0 = KernelPte(ApicPage)
  BY PoolInPages, Ptes
<1>a. PICK a : a = a1.mem
  OBVIOUS
<1>m1. PICK m1 : m1 = Put(a, p4, 0, w4)
  OBVIOUS
<1>m2. PICK m2 : m2 = Put(m1, p3, 0, w3)
  OBVIOUS
<1>m3. PICK m3 : m3 = Put(m2, p2, 0, w2)
  OBVIOUS
<1>m4. PICK m4 : m4 = Put(m3, p2, 1, w1)
  OBVIOUS
<1>m5. PICK m5 : m5 = Put(m4, p1, 0, w0)
  OBVIOUS
<1>2. k.mem = m5 /\ k.page = p4
  BY <1>a4, <1>a3, <1>a2, <1>a1, <1>p, <1>w, <1>a, <1>m1, <1>m2, <1>m3, <1>m4, <1>m5
     DEF KernelTables
<1>3. Free(a) # {}
  <2>1. a \in Memory
    BY <1>1, <1>a
  <2>2. m1 \in Memory /\ m1.bits = a.bits
    BY <1>m1, <2>1, StoreBits
  <2>3. m2 \in Memory /\ m2.bits = m1.bits
    BY <1>m2, <2>2, StoreBits
  <2>4. m3 \in Memory /\ m3.bits = m2.bits
    BY <1>m3, <2>3, StoreBits
  <2>5. m4 \in Memory /\ m4.bits = m3.bits
    BY <1>m4, <2>4, StoreBits
  <2>6. m5.bits = m4.bits
    BY <1>m5, <2>5, StoreBits
  <2> QED
    BY <1>2, <2>2, <2>3, <2>4, <2>5, <2>6 DEF Free
<1>4. /\ a \in Memory /\ a.ram = m.ram /\ a.alive = m.alive
      /\ a.bits = m.bits \cup {p4, p3, p2, p1}
      /\ FourTaken(m.bits, p4, p3, p2, p1)
  <2>1. Free(a1.mem) # {}
    BY <1>3, <1>a
  <2>2. FourAllocated(m, a1.mem, a4.page, a3.page, a2.page, a1.page)
    BY <1>a4, <1>a3, <1>a2, <1>a1, <2>1, FourAllocs
  <2> QED
    BY <1>a, <1>p, <2>2 DEF FourAllocated
<1>5. /\ p4 \in Pages /\ p3 \in Pages /\ p2 \in Pages /\ p1 \in Pages
      /\ p4 # p3 /\ p4 # p2 /\ p4 # p1 /\ p3 # p2 /\ p3 # p1 /\ p2 # p1
  BY <1>4, PoolInPages DEF FourTaken
<1>6. FiveStored(a, m5, p4, p3, p2, p1, w4, w3, w2, w1, w0)
  BY <1>m1, <1>m2, <1>m3, <1>m4, <1>m5, <1>4, <1>5, FiveStores
<1>7. \A x, j : Word(a, x, j) = Word(m, x, j)
  BY <1>4 DEF Word
<1>8. KernelWords(m, m5, p4, p3, p2, p1)
  BY <1>4, <1>6, <1>7, <1>w DEF KernelWords, FiveStored
<1> QED
  BY <1>2, <1>8

(* Operations that leave the words of a tree's tables alone leave its      *)
(* translations alone.                                                     *)
LEMMA KeptPaths ==
  ASSUME NEW m, NEW R, NEW K, NEW par, NEW loose, Tree(m, R, K, par, loose),
         NEW m2, NEW R2, NEW K2, NEW par2, NEW loose2, Tree(m2, R2, K2, par2, loose2),
         R \subseteq R2,
         \A x \in Tables(K), j \in Indexes : Word(m2, x, j) = Word(m, x, j),
         NEW r \in R, NEW v \in User
  PROVE  Translate(m2, r, v) = Translate(m, r, v)
<1>1. /\ v[1] \in Indexes /\ v[2] \in Indexes /\ v[3] \in Indexes /\ v[4] \in Indexes
      /\ r \in Tables(K) /\ K[r] = "pml4" /\ DOMAIN K \subseteq Nat /\ DOMAIN K2 \subseteq Nat
  BY PoolInPages DEF Tree, Shape, Tables, User, Virtual
<1>2. CASE Translate(m, r, v) # NoPage
  <2>1. PICK t3, t2, t1 \in DOMAIN K, q \in Nat :
          /\ Path(m, r, v, t3, t2, t1, q) /\ Translate(m, r, v) = q
          /\ K[t3] \in {"kpml3", "pml3"} /\ K[t2] = "pml2" /\ K[t1] = "pml1"
    BY <1>2, WalkDown
  <2>2. t3 \in Tables(K) /\ t2 \in Tables(K) /\ t1 \in Tables(K)
    BY <2>1 DEF Tables
  <2>3. Path(m2, r, v, t3, t2, t1, q)
    BY <1>1, <2>1, <2>2 DEF Path
  <2> QED
    BY <1>1, <2>1, <2>3, PathTranslates
<1>3. CASE Translate(m2, r, v) # NoPage
  <2>1. PICK t3, t2, t1 \in DOMAIN K2, q \in Nat :
          Path(m2, r, v, t3, t2, t1, q) /\ Translate(m2, r, v) = q
    BY <1>3, WalkDown
  <2>2. t3 \in Nat /\ t2 \in Nat /\ t1 \in Nat
    BY <1>1, <2>1
  <2>3. \A x \in Tables(K), j \in Indexes : Legal(K, K[x], j, Word(m, x, j))
    BY DEF Tree, AllLegal
  <2>4. Word(m, r, v[1]) = UserPte(t3) /\ t3 \in DOMAIN K /\ K[t3] = Child("pml4", v[1])
    <3>1. Word(m, r, v[1]) = UserPte(t3)
      BY <1>1, <2>1 DEF Path
    <3> QED
      BY <1>1, <2>2, <2>3, <3>1, Ptes DEF Legal, Upper
  <2>5. t3 \in Tables(K) /\ K[t3] \in Upper /\ (K[t3] = "kpml3" => v[2] # 0)
    BY <1>1, <2>4 DEF Child, Tables, Upper, User, Virtual, Indexes
  <2>6. Word(m, t3, v[2]) = UserPte(t2) /\ t2 \in DOMAIN K /\ K[t2] = "pml2"
    <3>1. Word(m, t3, v[2]) = UserPte(t2)
      BY <1>1, <2>1, <2>5 DEF Path
    <3>2. K[t3] \in {"kpml3", "pml3"}
      BY <2>4 DEF Child
    <3>3. Child(K[t3], v[2]) = "pml2"
      BY <2>5, <3>2 DEF Child
    <3> QED
      BY <1>1, <2>2, <2>3, <2>5, <3>1, <3>3, Ptes DEF Legal
  <2>7. Word(m, t2, v[3]) = UserPte(t1) /\ t1 \in DOMAIN K /\ K[t1] = "pml1"
    <3>1. t2 \in Tables(K) /\ K[t2] \in Upper /\ Child(K[t2], v[3]) = "pml1"
      BY <2>6 DEF Child, Tables, Upper
    <3>2. Word(m, t2, v[3]) = UserPte(t1)
      BY <1>1, <2>1, <3>1 DEF Path
    <3> QED
      BY <1>1, <2>2, <2>3, <3>1, <3>2, Ptes DEF Legal
  <2>8. Word(m, t1, v[4]) = UserPte(q)
    BY <1>1, <2>1, <2>7 DEF Path, Tables
  <2>9. Path(m, r, v, t3, t2, t1, q)
    BY <2>4, <2>6, <2>7, <2>8 DEF Path
  <2> QED
    BY <2>1, <2>2, <2>9, PathTranslates
<1> QED
  BY <1>2, <1>3

(* What an entry of a growing tree may hold, it may hold later. *)
LEMMA LegalGrows ==
  ASSUME NEW K, NEW K2, DOMAIN K \subseteq DOMAIN K2, \A q \in DOMAIN K : K2[q] = K[q],
         \A q \in DOMAIN K2 \ DOMAIN K : K2[q] # "frame",
         NEW k, NEW i \in Indexes, NEW w, Legal(K, k, i, w)
  PROVE  Legal(K2, k, i, w)
BY DEF Legal

(* The four first tables of load_task (memory.c:150-166) make a new root   *)
(* that leads a user nowhere, and leave the other roots alone.             *)
LEMMA KernelTree ==
  ASSUME NEW m, NEW R, NEW K, NEW par, Tree(m, R, K, par, NoPage), m.bits = DOMAIN K,
         NEW m2, NEW p4, NEW p3, NEW p2, NEW p1, KernelWords(m, m2, p4, p3, p2, p1)
  PROVE  \E K2, par2 :
           /\ Tree(m2, R \cup {p4}, K2, par2, NoPage) /\ Extends(m, K, m2, K2)
           /\ SameTranslations(m, m2, R)
           /\ p4 \in DOMAIN K2 \ DOMAIN K
           /\ \A v \in User : Translate(m2, p4, v) = NoPage
<1> DEFINE New == {p4, p3, p2, p1}
           R2 == R \cup {p4}
<1>1. /\ m \in Memory /\ DOMAIN K \subseteq Pool /\ R \subseteq DOMAIN K
      /\ \A q \in DOMAIN K : K[q] \in Kinds /\ (K[q] = "pml4" <=> q \in R)
  BY DEF Tree, Shape
<1>2. FourTaken(DOMAIN K, p4, p3, p2, p1)
  BY DEF KernelWords
<1>3. /\ p4 \in Pool \ DOMAIN K /\ p3 \in Pool \ DOMAIN K /\ p2 \in Pool \ DOMAIN K
      /\ p1 \in Pool \ DOMAIN K
      /\ p4 # p3 /\ p4 # p2 /\ p4 # p1 /\ p3 # p2 /\ p3 # p1 /\ p2 # p1
  BY <1>2 DEF FourTaken
<1>4. 0 \in Indexes /\ 1 \in Indexes
  BY KernelMemoryAssumption DEF Indexes
<1>5. PICK K2 : /\ DOMAIN K2 = DOMAIN K \cup New
                /\ \A q \in DOMAIN K : K2[q] = K[q]
                /\ K2[p4] = "pml4" /\ K2[p3] = "kpml3" /\ K2[p2] = "kpml2" /\ K2[p1] = "kpml1"
  <2> DEFINE f == [q \in DOMAIN K \cup New |->
                     IF q = p4 THEN "pml4" ELSE IF q = p3 THEN "kpml3"
                     ELSE IF q = p2 THEN "kpml2" ELSE IF q = p1 THEN "kpml1" ELSE K[q]]
  <2>1. DOMAIN f = DOMAIN K \cup New
    OBVIOUS
  <2>2. \A q \in DOMAIN K : f[q] = K[q]
    BY <1>3
  <2>3. f[p4] = "pml4" /\ f[p3] = "kpml3" /\ f[p2] = "kpml2" /\ f[p1] = "kpml1"
    BY <1>3
  <2> QED
    BY <2>1, <2>2, <2>3
<1>6. PICK par2 : /\ \A q \in DOMAIN K : par2[q] = par[q]
                  /\ par2[p3] = <<p4, 0>> /\ par2[p2] = <<p3, 0>> /\ par2[p1] = <<p2, 1>>
  <2> DEFINE f == [q \in DOMAIN K \cup New |->
                     IF q = p3 THEN <<p4, 0>> ELSE IF q = p2 THEN <<p3, 0>>
                     ELSE IF q = p1 THEN <<p2, 1>> ELSE par[q]]
  <2>1. \A q \in DOMAIN K : f[q] = par[q]
    BY <1>3
  <2>2. f[p3] = <<p4, 0>> /\ f[p2] = <<p3, 0>> /\ f[p1] = <<p2, 1>>
    BY <1>3
  <2> QED
    BY <2>1, <2>2
<1>7. /\ Tables(K2) = Tables(K) \cup New /\ Tables(K) \subseteq DOMAIN K
      /\ New \subseteq Pool \ DOMAIN K
  BY <1>3, <1>5 DEF Tables
<1>8. \A x \in DOMAIN K : \A j : Word(m2, x, j) = Word(m, x, j)
  <2>1. \A x \in DOMAIN K : x \in Pages /\ x \notin New
    BY <1>1, <1>7, PoolInPages
  <2> QED
    BY <2>1 DEF KernelWords, Word
<1>9. \A x \in New, j \in Indexes : Word(m, x, j) = 0
  <2>1. \A x \in New : m.ram[x] = ZeroContent
    BY <1>7 DEF Tree, FreeZero
  <2> QED
    BY <2>1 DEF Word, ZeroContent
<1>10. /\ Word(m2, p4, 0) = UserPte(p3) /\ Word(m2, p3, 0) = UserPte(p2)
       /\ Word(m2, p2, 0) = KernelPte(0) /\ Word(m2, p2, 1) = KernelPte(p1)
       /\ Word(m2, p1, 0) = KernelPte(ApicPage)
       /\ \A x \in {p4, p3, p1}, j \in Indexes : j # 0 => Word(m2, x, j) = 0
       /\ \A j \in Indexes : j # 0 /\ j # 1 => Word(m2, p2, j) = 0
  BY <1>9 DEF KernelWords
<1>11. m2 \in Memory /\ m2.alive = m.alive /\ m2.bits = DOMAIN K \cup New
  BY DEF KernelWords
<1> HIDE DEF New
<1>12. Shape(m2, R2, K2, NoPage)
  <2>1. \A q \in DOMAIN K2 : q \in DOMAIN K \/ q = p4 \/ q = p3 \/ q = p2 \/ q = p1
    BY <1>5 DEF New
  <2>2. DOMAIN K2 \subseteq Pool /\ R2 \subseteq DOMAIN K2
    BY <1>1, <1>3, <1>5, <2>1 DEF New
  <2>3. \A q \in DOMAIN K2 : K2[q] \in Kinds
    BY <1>1, <1>5, <2>1 DEF Kinds
  <2>4. \A q \in DOMAIN K2 : K2[q] = "pml4" <=> q \in R2
    BY <1>1, <1>3, <1>5, <2>1
  <2> QED
    BY <1>11, <2>2, <2>3, <2>4 DEF Shape
<1>13. FreeLast(K2)
  <2> DEFINE D(S) == [q \in DOMAIN K \cup S |-> "frame"]
  <2>1. /\ DOMAIN D({p4}) = DOMAIN K \cup {p4}
        /\ DOMAIN D({p4, p3}) = (DOMAIN K \cup {p4}) \cup {p3}
        /\ DOMAIN D({p4, p3, p2}) = (DOMAIN K \cup {p4, p3}) \cup {p2}
        /\ DOMAIN D({p4, p3}) = DOMAIN K \cup {p4, p3}
        /\ DOMAIN D({p4, p3, p2}) = DOMAIN K \cup {p4, p3, p2}
        /\ DOMAIN K2 = (DOMAIN K \cup {p4, p3, p2}) \cup {p1}
    BY <1>5 DEF New
  <2> HIDE DEF D
  <2>2. FreeLast(K)
    BY DEF Tree
  <2>3. FreeLast(D({p4}))
    BY <1>1, <1>2, <2>1, <2>2, GrownFreeLast DEF FourTaken
  <2>4. FreeLast(D({p4, p3}))
    <3> PICK A : A = D({p4})
      OBVIOUS
    <3>1. /\ DOMAIN A = DOMAIN K \cup {p4} /\ FreeLast(A) /\ DOMAIN A \subseteq Pool
          /\ p3 \in Pool \ DOMAIN A /\ \A q \in Pool \ DOMAIN A : p3 <= q
          /\ DOMAIN D({p4, p3}) = DOMAIN A \cup {p3}
      BY <1>1, <1>2, <2>1, <2>3 DEF FourTaken
    <3> QED
      BY <3>1, GrownFreeLast
  <2>5. FreeLast(D({p4, p3, p2}))
    <3> PICK A : A = D({p4, p3})
      OBVIOUS
    <3>1. /\ DOMAIN A = DOMAIN K \cup {p4, p3} /\ FreeLast(A) /\ DOMAIN A \subseteq Pool
          /\ p2 \in Pool \ DOMAIN A /\ \A q \in Pool \ DOMAIN A : p2 <= q
          /\ DOMAIN D({p4, p3, p2}) = DOMAIN A \cup {p2}
      BY <1>1, <1>2, <2>1, <2>4 DEF FourTaken
    <3> QED
      BY <3>1, GrownFreeLast
  <2> PICK A : A = D({p4, p3, p2})
    OBVIOUS
  <2>6. /\ DOMAIN A = DOMAIN K \cup {p4, p3, p2} /\ FreeLast(A) /\ DOMAIN A \subseteq Pool
        /\ p1 \in Pool \ DOMAIN A /\ \A q \in Pool \ DOMAIN A : p1 <= q
        /\ DOMAIN K2 = DOMAIN A \cup {p1}
    BY <1>1, <1>2, <2>1, <2>5 DEF FourTaken
  <2> QED
    BY <2>6, GrownFreeLast
<1>14. FreeZero(m2, K2)
  <2>1. \A x \in Pool \ DOMAIN K2 : x \in Pool \ DOMAIN K /\ x \in Pages \ New
    BY <1>5, PoolInPages
  <2> QED
    BY <2>1 DEF Tree, FreeZero, KernelWords, New
<1>15. AllLegal(m2, K2)
  <2> SUFFICES ASSUME NEW x \in Tables(K2), NEW j \in Indexes
               PROVE  Legal(K2, K2[x], j, Word(m2, x, j))
    BY DEF AllLegal
  <2>1. CASE x \in Tables(K)
    <3>1. Legal(K, K[x], j, Word(m, x, j)) /\ x \in DOMAIN K
      BY <1>7, <2>1 DEF Tree, AllLegal
    <3>2. \A q \in DOMAIN K2 \ DOMAIN K : K2[q] # "frame"
      BY <1>5 DEF New
    <3>3. Legal(K2, K[x], j, Word(m, x, j))
      BY <1>5, <3>1, <3>2, LegalGrows
    <3> QED
      BY <1>5, <1>8, <3>1, <3>3
  <2>2. CASE x = p4
    BY <1>5, <1>10, <2>2 DEF Legal, Upper, Child, New
  <2>3. CASE x = p3
    BY <1>5, <1>10, <2>3 DEF Legal, Upper, Child, New
  <2>4. CASE x = p2
    BY <1>5, <1>10, <2>4 DEF Legal, Upper, New
  <2>5. CASE x = p1
    BY <1>5, <1>10, <2>5 DEF Legal, Upper, New
  <2> QED
    BY <1>7, <2>1, <2>2, <2>3, <2>4, <2>5 DEF New
<1>16. \A x \in New, j \in Indexes :
         Present(Word(m2, x, j)) /\ PageOf(Word(m2, x, j)) \in Pool =>
           \/ x = p4 /\ j = 0 /\ PageOf(Word(m2, x, j)) = p3
           \/ x = p3 /\ j = 0 /\ PageOf(Word(m2, x, j)) = p2
           \/ x = p2 /\ j = 1 /\ PageOf(Word(m2, x, j)) = p1
  <2> SUFFICES ASSUME NEW x \in New, NEW j \in Indexes,
                      Present(Word(m2, x, j)), PageOf(Word(m2, x, j)) \in Pool
               PROVE  \/ x = p4 /\ j = 0 /\ PageOf(Word(m2, x, j)) = p3
                      \/ x = p3 /\ j = 0 /\ PageOf(Word(m2, x, j)) = p2
                      \/ x = p2 /\ j = 1 /\ PageOf(Word(m2, x, j)) = p1
    OBVIOUS
  <2>1. ~Present(0) /\ PageOf(KernelPte(0)) = 0 /\ 0 \notin Pool
    BY Ptes, PoolInPages
  <2>2. PageOf(KernelPte(ApicPage)) = ApicPage /\ ApicPage \notin Pool
    BY Ptes, PoolInPages
  <2>3. PageOf(UserPte(p3)) = p3 /\ PageOf(UserPte(p2)) = p2 /\ PageOf(KernelPte(p1)) = p1
    BY <1>3, Ptes, PoolInPages
  <2>4. x = p4 \/ x = p3 \/ x = p2 \/ x = p1
    BY DEF New
  <2> QED
    BY <1>10, <2>1, <2>2, <2>3, <2>4
<1>17. OneParent(m2, R2, K2, par2, NoPage)
  <2> SUFFICES ASSUME NEW x \in Tables(K2), NEW j \in Indexes,
                      Present(Word(m2, x, j)), PageOf(Word(m2, x, j)) \in Pool
               PROVE  /\ PageOf(Word(m2, x, j)) # NoPage /\ PageOf(Word(m2, x, j)) \notin R2
                      /\ par2[PageOf(Word(m2, x, j))] = <<x, j>>
    BY DEF OneParent
  <2>1. CASE x \in Tables(K)
    <3>1. Word(m2, x, j) = Word(m, x, j)
      BY <1>7, <1>8, <2>1
    <3>2. PageOf(Word(m, x, j)) \in DOMAIN K
      BY <2>1, <3>1, TargetUsed
    <3>3. /\ PageOf(Word(m, x, j)) # NoPage /\ PageOf(Word(m, x, j)) \notin R
          /\ par[PageOf(Word(m, x, j))] = <<x, j>>
      BY <2>1, <3>1 DEF Tree, OneParent
    <3> QED
      BY <1>3, <1>6, <3>1, <3>2, <3>3
  <2>2. CASE x \in New
    <3>1. p3 \notin R2 /\ p2 \notin R2 /\ p1 \notin R2
      BY <1>1, <1>3
    <3>2. p3 # NoPage /\ p2 # NoPage /\ p1 # NoPage
      BY <1>3, PoolInPages
    <3> QED
      BY <1>6, <1>16, <2>2, <3>1, <3>2
  <2> QED
    BY <1>7, <2>1, <2>2
<1>18. EachHasParent(m2, R2, K2, par2, NoPage)
  <2> SUFFICES ASSUME NEW q \in DOMAIN K2 \ (R2 \cup {NoPage})
               PROVE  \E x \in Tables(K2), j \in Indexes :
                        /\ par2[q] = <<x, j>> /\ Present(Word(m2, x, j))
                        /\ PageOf(Word(m2, x, j)) = q
    BY DEF EachHasParent
  <2>1. CASE q \in DOMAIN K
    <3>1. PICK x \in Tables(K), j \in Indexes :
            par[q] = <<x, j>> /\ Present(Word(m, x, j)) /\ PageOf(Word(m, x, j)) = q
      BY <2>1 DEF Tree, EachHasParent
    <3> QED
      BY <1>6, <1>7, <1>8, <2>1, <3>1
  <2>2. p4 \in Tables(K2) /\ p3 \in Tables(K2) /\ p2 \in Tables(K2)
    BY <1>7 DEF New
  <2>3. CASE q = p3
    <3>1. Present(UserPte(p3)) /\ PageOf(UserPte(p3)) = p3
      BY <1>3, Ptes, PoolInPages
    <3> QED
      BY <1>4, <1>6, <1>10, <2>2, <2>3, <3>1
  <2>4. CASE q = p2
    <3>1. Present(UserPte(p2)) /\ PageOf(UserPte(p2)) = p2
      BY <1>3, Ptes, PoolInPages
    <3> QED
      BY <1>4, <1>6, <1>10, <2>2, <2>4, <3>1
  <2>5. CASE q = p1
    <3>1. Present(KernelPte(p1)) /\ PageOf(KernelPte(p1)) = p1
      BY <1>3, Ptes, PoolInPages
    <3> QED
      BY <1>4, <1>6, <1>10, <2>2, <2>5, <3>1
  <2> QED
    BY <1>5, <2>1, <2>3, <2>4, <2>5 DEF New
<1>19. Tree(m2, R2, K2, par2, NoPage)
  BY <1>12, <1>13, <1>14, <1>15, <1>17, <1>18 DEF Tree
<1>20. Extends(m, K, m2, K2)
  <2>1. \A x \in Pages \ {0} :
          x \notin Pool \/ (x \in DOMAIN K /\ K[x] = "frame") => m2.ram[x] = m.ram[x]
    BY <1>7 DEF KernelWords, New
  <2> QED
    BY <1>5, <1>7, <1>8, <1>11, <2>1 DEF Extends
<1>21. SameTranslations(m, m2, R)
  <2>1. \A x \in Tables(K), j \in Indexes : Word(m2, x, j) = Word(m, x, j)
    BY <1>7, <1>8
  <2> QED
    BY <1>19, <2>1, KeptPaths DEF SameTranslations
<1>22. \A v \in User : Translate(m2, p4, v) = NoPage
  <2> SUFFICES ASSUME NEW v \in User, Translate(m2, p4, v) # NoPage PROVE FALSE
    OBVIOUS
  <2>1. PICK t3, t2, t1 \in DOMAIN K2, q \in Nat : Path(m2, p4, v, t3, t2, t1, q)
    BY <1>19, WalkDown
  <2>2. v[1] \in Indexes /\ v[2] \in Indexes /\ (v[1] = 0 => v[2] # 0)
    BY DEF User, Virtual, Indexes
  <2>3. DOMAIN K2 \subseteq Nat /\ p3 \in Nat
    BY <1>3, <1>12, PoolInPages DEF Shape
  <2>4. UserPte(t3) # 0 /\ UserPte(t2) # 0 /\ PageOf(UserPte(t3)) = t3 /\ PageOf(UserPte(p3)) = p3
    BY <2>1, <2>3, Ptes
  <2>5. v[1] = 0 /\ t3 = p3
    BY <1>10, <2>1, <2>2, <2>4 DEF Path
  <2>6. Word(m2, p3, v[2]) = 0
    BY <1>10, <2>2, <2>5
  <2> QED
    BY <2>1, <2>4, <2>5, <2>6 DEF Path
<1> QED
  BY <1>3, <1>5, <1>19, <1>20, <1>21, <1>22 DEF New
-------------------------------------------------------------------------------
(* The payload loop of load_task, step by step: f[k] is the memory after k *)
(* pages.                                                                  *)
Copied(m, pgt, image, n, f) ==
  f = [k \in 0 .. n |->
         IF k = 0 THEN m ELSE MapPage(f[k - 1], pgt, Text(k - 1), image.page + k - 1)]

(* The loop of load_task has a result for every length of the payload.     *)
LEMMA CopiedExists ==
  ASSUME NEW m, NEW pgt, NEW image, NEW n \in Nat
  PROVE  \E f : Copied(m, pgt, image, n, f)
<1> DEFINE S == {j \in Nat : ~ \E f : Copied(m, pgt, image, j, f)}
<1>1. CASE S = {}
  BY <1>1
<1>2. CASE S # {}
  <2>1. PICK p \in S : \A q \in S : p <= q
    <3>1. S \in SUBSET Nat
      OBVIOUS
    <3> HIDE DEF S
    <3> QED
      BY <1>2, <3>1, LeastNat
  <2>2. p # 0
    <3> SUFFICES ASSUME p = 0 PROVE FALSE
      OBVIOUS
    <3>1. [k \in 0 .. 0 |-> m] =
            [k \in 0 .. 0 |-> IF k = 0 THEN m
                              ELSE MapPage([j \in 0 .. 0 |-> m][k - 1], pgt, Text(k - 1),
                                           image.page + k - 1)]
      OBVIOUS
    <3>2. Copied(m, pgt, image, 0, [k \in 0 .. 0 |-> m])
      BY <3>1 DEF Copied
    <3> QED
      BY <3>2
  <2>3. PICK g : Copied(m, pgt, image, p - 1, g)
    <3>1. p - 1 \in Nat /\ ~(p <= p - 1)
      BY <2>2
    <3> QED
      BY <2>1, <3>1
  <2> DEFINE f == [k \in 0 .. p |->
                     IF k = p THEN MapPage(g[p - 1], pgt, Text(p - 1), image.page + p - 1)
                              ELSE g[k]]
  <2>4. /\ DOMAIN g = 0 .. p - 1
        /\ \A k \in 0 .. p - 1 : k = 0 => g[k] = m
        /\ \A k \in 0 .. p - 1 :
             k # 0 => g[k] = MapPage(g[k - 1], pgt, Text(k - 1), image.page + k - 1)
    <3>1. g = [k \in 0 .. p - 1 |->
                 IF k = 0 THEN m
                 ELSE MapPage(g[k - 1], pgt, Text(k - 1), image.page + k - 1)]
      BY <2>3 DEF Copied
    <3> DEFINE e(k) == IF k = 0 THEN m
                       ELSE MapPage(g[k - 1], pgt, Text(k - 1), image.page + k - 1)
    <3>2. DOMAIN g = 0 .. p - 1 /\ \A k \in 0 .. p - 1 : g[k] = e(k)
      <4>1. g = [k \in 0 .. p - 1 |-> e(k)]
        BY <3>1
      <4> HIDE DEF e
      <4> QED
        BY <4>1
    <3> QED
      BY <3>2
  <2>5. \A k \in 0 .. p :
          f[k] = IF k = 0 THEN m
                 ELSE MapPage(f[k - 1], pgt, Text(k - 1), image.page + k - 1)
    <3> SUFFICES ASSUME NEW k \in 0 .. p
                 PROVE  f[k] = IF k = 0 THEN m
                               ELSE MapPage(f[k - 1], pgt, Text(k - 1), image.page + k - 1)
      OBVIOUS
    <3>1. CASE k = 0
      <4>1. f[0] = g[0] /\ 0 \in 0 .. p - 1
        BY <2>2
      <4> QED
        BY <2>4, <3>1, <4>1
    <3>2. CASE k # 0
      <4>1. k - 1 \in 0 .. p - 1 /\ f[k - 1] = g[k - 1]
        BY <2>2, <3>2
      <4>2. k = p => f[k] = MapPage(g[k - 1], pgt, Text(k - 1), image.page + k - 1)
        OBVIOUS
      <4>3. k # p => f[k] = g[k] /\ k \in 0 .. p - 1
        OBVIOUS
      <4> QED
        BY <2>4, <3>2, <4>1, <4>2, <4>3
    <3> QED
      BY <3>1, <3>2
  <2>6. Copied(m, pgt, image, p, f)
    <3>1. f = [k \in 0 .. p |-> f[k]]
      OBVIOUS
    <3> HIDE DEF f
    <3> QED
      BY <2>5, <3>1 DEF Copied
  <2> QED
    BY <2>6
<1> QED
  BY <1>1, <1>2

(* The payload loop, one map_page after another (memory.c:176-182).        *)
LEMMA MapPayloadSteps ==
  ASSUME NEW m, NEW pgt, NEW image, image.payload \in Nat
  PROVE  \E f : /\ f[0] = m /\ MapPayload(m, pgt, image) = f[image.payload]
                /\ \A k \in 1 .. image.payload :
                     f[k] = MapPage(f[k - 1], pgt, Text(k - 1), image.page + k - 1)
<1> DEFINE f == CHOOSE g : Copied(m, pgt, image, image.payload, g)
<1>1. Copied(m, pgt, image, image.payload, f)
  BY CopiedExists
<1>2. MapPayload(m, pgt, image) = f[image.payload]
  BY DEF MapPayload, Copied
<1> HIDE DEF f
<1>3. f[0] = m
  BY <1>1 DEF Copied
<1>4. ASSUME NEW k \in 1 .. image.payload
      PROVE  f[k] = MapPage(f[k - 1], pgt, Text(k - 1), image.page + k - 1)
  <2>1. k \in 0 .. image.payload /\ k # 0
    OBVIOUS
  <2> QED
    BY <1>1, <2>1 DEF Copied
<1> QED
  BY <1>2, <1>3, <1>4

(* An image that lies past the pool and whose pages are user's pages.      *)
ImageOK(image) ==
  /\ image.page \in Nat /\ image.page > FirstPool + PHYSICAL_POOL_PAGES - 1
  /\ image.payload \in Nat /\ image.bss \in Nat
  /\ \A k \in 0 .. image.payload + image.bss - 1 : Text(k) \in User

(* The first n pages of the payload are mapped where the loader put them.  *)
PayloadMapped(m, m2, R, K, r, image, n) ==
  \E K2, par2 :
    /\ Tree(m2, R, K2, par2, NoPage) /\ Extends(m, K, m2, K2)
    /\ \A j \in 0 .. n - 1 : Translate(m2, r, Text(j)) = image.page + j
    /\ \A t \in R, u \in User :
         ~(t = r /\ \E j \in 0 .. n - 1 : u = Text(j)) =>
           Translate(m2, t, u) = Translate(m, t, u)

(* Two pages of an image have different addresses.                         *)
LEMMA TextDiffers ==
  ASSUME NEW i, NEW j, Text(i) = Text(j)
  PROVE  i = j
<1>1. Text(i)[4] = i /\ Text(j)[4] = j
  BY DEF Text
<1> QED
  BY <1>1

(* map_page of one more page of the payload. *)
LEMMA PayloadStep ==
  ASSUME NEW m, NEW R, NEW K, NEW r \in R, NEW image, ImageOK(image),
         \A v \in User : Translate(m, r, v) = NoPage,
         NEW n \in Nat, n < image.payload,
         NEW m2, PayloadMapped(m, m2, R, K, r, image, n),
         NEW m3, m3 = MapPage(m2, r, Text(n), image.page + n), Free(m3) # {}
  PROVE  PayloadMapped(m, m3, R, K, r, image, n + 1)
<1>1. PICK K2, par2 :
        /\ Tree(m2, R, K2, par2, NoPage) /\ Extends(m, K, m2, K2)
        /\ \A j \in 0 .. n - 1 : Translate(m2, r, Text(j)) = image.page + j
        /\ \A t \in R, u \in User :
             ~(t = r /\ \E j \in 0 .. n - 1 : u = Text(j)) =>
               Translate(m2, t, u) = Translate(m, t, u)
  BY DEF PayloadMapped
<1>2. PICK v \in User : v = Text(n)
  BY DEF ImageOK
<1>3. PICK page \in Nat : page = image.page + n /\ page \notin Pool
  BY KernelMemoryAssumption DEF ImageOK, Pool
<1>4. Translate(m2, r, v) = NoPage
  <2>1. ~ \E j \in 0 .. n - 1 : v = Text(j)
    BY <1>2, TextDiffers
  <2> QED
    BY <1>1, <2>1
<1>5. PICK K3, par3 :
        /\ Tree(m3, R, K3, par3, NoPage) /\ Extends(m2, K2, m3, K3)
        /\ OnlyMaps(m2, m3, R, r, v, page)
  <2>1. m2.bits = DOMAIN K2 /\ m3 = MapPage(m2, r, v, page)
    BY <1>1, <1>2, <1>3 DEF Extends
  <2> QED
    BY <1>1, <1>3, <1>4, <2>1, MapPageTree
<1>6. Extends(m, K, m3, K3)
  BY <1>1, <1>5, ExtendsTrans
<1>7. \A j \in 0 .. n : Translate(m3, r, Text(j)) = image.page + j
  <2> SUFFICES ASSUME NEW j \in 0 .. n PROVE Translate(m3, r, Text(j)) = image.page + j
    OBVIOUS
  <2>1. CASE j = n
    BY <1>2, <1>3, <1>5, <2>1 DEF OnlyMaps
  <2>2. CASE j # n
    <3>1. j \in 0 .. n - 1 /\ Text(j) # v
      BY <1>2, <2>2, TextDiffers
    <3>2. Text(j) \in User
      BY DEF ImageOK
    <3> QED
      BY <1>1, <1>5, <3>1, <3>2 DEF OnlyMaps
  <2> QED
    BY <2>1, <2>2
<1>8. \A t \in R, u \in User :
        ~(t = r /\ \E j \in 0 .. n : u = Text(j)) => Translate(m3, t, u) = Translate(m, t, u)
  <2> SUFFICES ASSUME NEW t \in R, NEW u \in User, ~(t = r /\ \E j \in 0 .. n : u = Text(j))
               PROVE  Translate(m3, t, u) = Translate(m, t, u)
    OBVIOUS
  <2>1. ~(t = r /\ u = v) /\ ~(t = r /\ \E j \in 0 .. n - 1 : u = Text(j))
    <3>1. n \in 0 .. n /\ \A j \in 0 .. n - 1 : j \in 0 .. n
      OBVIOUS
    <3> QED
      BY <1>2, <3>1
  <2> QED
    BY <1>1, <1>5, <2>1 DEF OnlyMaps
<1> PICK l \in Nat : l = n + 1
  OBVIOUS
<1>9. 0 .. n = 0 .. l - 1
  OBVIOUS
<1> QED
  BY <1>5, <1>6, <1>7, <1>8, <1>9 DEF PayloadMapped

(* The payload loop (memory.c:169-184): the pages of the payload are       *)
(* mapped on the pages of the image, and nothing else changes.             *)
LEMMA PayloadTree ==
  ASSUME NEW m, NEW R, NEW K, NEW par, Tree(m, R, K, par, NoPage), m.bits = DOMAIN K,
         NEW r \in R, NEW image, ImageOK(image),
         \A v \in User : Translate(m, r, v) = NoPage,
         NEW m2, m2 = MapPayload(m, r, image)
  PROVE  /\ m2 \in Memory
         /\ Free(m2) # {} => PayloadMapped(m, m2, R, K, r, image, image.payload)
<1> PICK n \in Nat : n = image.payload
  BY DEF ImageOK
<1>1. PICK f : /\ f[0] = m /\ m2 = f[n]
               /\ \A k \in 1 .. n : f[k] = MapPage(f[k - 1], r, Text(k - 1), image.page + k - 1)
  BY MapPayloadSteps
<1> DEFINE Good(k) == /\ f[k] \in Memory
                      /\ Free(f[k]) # {} => PayloadMapped(m, f[k], R, K, r, image, k)
           S == {k \in 0 .. n : ~Good(k)}
<1>2. Good(0)
  <2>1. Extends(m, K, m, K) /\ m \in Memory
    BY DEF Extends, Tree, Shape
  <2>2. \A j \in 0 .. 0 - 1 : FALSE
    OBVIOUS
  <2>3. PayloadMapped(m, m, R, K, r, image, 0)
    BY <2>1, <2>2 DEF PayloadMapped
  <2> QED
    BY <1>1, <2>1, <2>3
<1>3. ASSUME NEW k \in 0 .. n - 1, Good(k) PROVE Good(k + 1)
  <2>1. /\ k + 1 \in 1 .. n /\ (k + 1) - 1 = k /\ k \in Nat /\ image.page \in Nat
        /\ image.page + (k + 1) - 1 = image.page + k
    BY DEF ImageOK
  <2>2. f[k + 1] = MapPage(f[k], r, Text(k), image.page + k)
    <3> PICK l \in 1 .. n : l = k + 1
      BY <2>1
    <3>1. f[l] = MapPage(f[l - 1], r, Text(l - 1), image.page + l - 1)
      BY <1>1
    <3> QED
      BY <2>1, <3>1
  <2> PICK g : g = f[k + 1]
    OBVIOUS
  <2> PICK page \in Nat : page = image.page + k
    BY <2>1
  <2> PICK v \in User : v = Text(k)
    BY DEF ImageOK
  <2>3. /\ g \in Memory /\ g.bits = Walk3(f[k], r, v).mem.bits
        /\ f[k].bits \subseteq Walk1(f[k], r, v).mem.bits
        /\ Walk1(f[k], r, v).mem.bits \subseteq Walk2(f[k], r, v).mem.bits
        /\ Walk2(f[k], r, v).mem.bits \subseteq Walk3(f[k], r, v).mem.bits
    BY <1>3, <2>2, MapPageBits
  <2>4. Free(g) # {} => PayloadMapped(m, g, R, K, r, image, k + 1)
    <3> SUFFICES ASSUME Free(g) # {} PROVE PayloadMapped(m, g, R, K, r, image, k + 1)
      OBVIOUS
    <3>1. Free(f[k]) # {}
      BY <2>3 DEF Free
    <3>2. PayloadMapped(m, f[k], R, K, r, image, k) /\ k < image.payload
      BY <1>3, <3>1
    <3> QED
      BY <2>1, <2>2, <3>2, PayloadStep
  <2> QED
    BY <2>3, <2>4
<1> HIDE DEF Good
<1>4. S = {}
  <2> SUFFICES ASSUME S # {} PROVE FALSE
    OBVIOUS
  <2>1. S \in SUBSET Nat
    OBVIOUS
  <2>2. PICK p \in S : \A q \in S : p <= q
    <3> HIDE DEF S
    <3> QED
      BY <2>1, LeastNat
  <2>3. p # 0 /\ p \in 0 .. n /\ ~Good(p)
    BY <1>2
  <2> PICK k \in 0 .. n - 1 : p = k + 1
    <3>1. p - 1 \in 0 .. n - 1 /\ p = (p - 1) + 1
      BY <2>3
    <3> QED
      BY <3>1
  <2>4. k \in 0 .. n /\ ~(p <= k)
    OBVIOUS
  <2>5. Good(k)
    BY <2>2, <2>4
  <2> QED
    BY <1>3, <2>3, <2>5
<1>5. Good(n)
  BY <1>4
<1> QED
  BY <1>1, <1>5 DEF Good

(* The bss loop of load_task, for no page or one: it takes two steps to    *)
(* reach the frame after the one that was allocated.                       *)
LEMMA MapBssSteps ==
  ASSUME NEW m, NEW r, NEW image
  PROVE  /\ image.bss = 0 => MapBss(m, r, image) = m
         /\ image.bss = 1 =>
              MapBss(m, r, image) = LET a == AllocPage(m)
                                    IN MapPage(Keep(a.mem, a.page), r, Text(image.payload + 1 - 1),
                                               a.page + 1 - 1)
<1> DEFINE step(x, k) == LET a == AllocPage(x)
                         IN MapPage(Keep(a.mem, a.page), r, Text(image.payload + k - 1),
                                    a.page + k - 1)
           Loop(n, f) == f = [k \in 0 .. n |-> IF k = 0 THEN m ELSE step(f[k - 1], k)]
           f0 == CHOOSE f : Loop(image.bss, f)
<1>1. MapBss(m, r, image) = f0[image.bss]
  BY DEF MapBss
<1> HIDE DEF step
<1>2. ASSUME image.bss = 0 PROVE f0[0] = m
  <2>1. [k \in 0 .. 0 |-> m] =
          [k \in 0 .. 0 |-> IF k = 0 THEN m ELSE step([j \in 0 .. 0 |-> m][k - 1], k)]
    OBVIOUS
  <2>2. Loop(0, [k \in 0 .. 0 |-> m])
    BY <2>1
  <2>3. Loop(0, f0)
    BY <1>2, <2>2
  <2> HIDE DEF f0
  <2> QED
    BY <2>3
<1>3. ASSUME image.bss = 1 PROVE f0[1] = step(m, 1)
  <2> DEFINE g == [k \in 0 .. 1 |-> IF k = 0 THEN m ELSE step(m, 1)]
  <2>1. g[0] = m /\ g[1] = step(m, 1)
    OBVIOUS
  <2>2. \A k \in 0 .. 1 : g[k] = IF k = 0 THEN m ELSE step(g[k - 1], k)
    <3>1. \A k \in 0 .. 1 : k = 0 \/ k = 1
      OBVIOUS
    <3>2. g[1] = step(g[1 - 1], 1)
      BY <2>1
    <3> HIDE DEF g
    <3> QED
      BY <2>1, <3>1, <3>2
  <2>3. g = [k \in 0 .. 1 |-> g[k]]
    OBVIOUS
  <2> HIDE DEF g
  <2>4. Loop(1, g)
    BY <2>2, <2>3
  <2>5. Loop(1, f0)
    BY <1>3, <2>4
  <2> HIDE DEF f0
  <2>6. /\ \A k \in 0 .. 1 : f0[k] = IF k = 0 THEN m ELSE step(f0[k - 1], k)
    BY <2>5
  <2>7. f0[0] = m /\ f0[1] = step(f0[1 - 1], 1)
    BY <2>6
  <2> QED
    BY <2>7
<1> HIDE DEF f0
<1> QED
  BY <1>1, <1>2, <1>3 DEF step

(* A bss of no page or one (memory.c:186-198): the page is mapped on a     *)
(* frame of the pool that was free, which nothing clears but which holds   *)
(* zeros.                                                                  *)
LEMMA BssTree ==
  ASSUME NEW m, NEW R, NEW K, NEW par, Tree(m, R, K, par, NoPage), m.bits = DOMAIN K,
         NEW r \in R, NEW image, ImageOK(image), image.bss = 1,
         NEW v \in User, v = Text(image.payload), Translate(m, r, v) = NoPage,
         NEW m2, m2 = MapBss(m, r, image), Free(m2) # {}
  PROVE  FreshlyMapped(m, m2, R, K, r, v)
<1>a. PICK a : a = AllocPage(m)
  OBVIOUS
<1>z. PICK z : z = Keep(a.mem, a.page)
  OBVIOUS
<1>1. m \in Memory /\ image.payload \in Nat /\ image.payload + 1 - 1 = image.payload
  BY DEF Tree, Shape, ImageOK
<1>2. a.mem \in Memory /\ a.page \in Nat
  BY <1>1, <1>a, AllocBits
<1>3. m2 = MapPage(z, r, v, a.page)
  <2>1. a.page + 1 - 1 = a.page
    BY <1>2
  <2> QED
    BY <1>1, <1>a, <1>z, <2>1, MapBssSteps
<1>4. /\ z \in Memory /\ z.bits = a.mem.bits /\ z.alive = a.mem.alive
      /\ \A x \in Pages : x # 0 => z.ram[x] = a.mem.ram[x]
  <2>1. PICK w \in Nat : w = a.page * PAGE_SIZE
    BY <1>2 DEF PAGE_SIZE
  <2>2. 0 \in Indexes /\ 0 \in Pages
    BY KernelMemoryAssumption, PoolInPages DEF Indexes
  <2>3. z = Put(a.mem, 0, 0, w)
    BY <1>z, <2>1 DEF Keep
  <2> QED
    BY <1>2, <2>2, <2>3, PutWords
<1>5. Free(m) # {}
  <2> SUFFICES ASSUME Free(m) = {} PROVE FALSE
    OBVIOUS
  <2>1. a.mem = m
    BY <1>a DEF AllocPage
  <2>2. /\ m2.bits = Walk3(z, r, v).mem.bits
        /\ z.bits \subseteq Walk1(z, r, v).mem.bits
        /\ Walk1(z, r, v).mem.bits \subseteq Walk2(z, r, v).mem.bits
        /\ Walk2(z, r, v).mem.bits \subseteq Walk3(z, r, v).mem.bits
    BY <1>2, <1>3, <1>4, MapPageBits
  <2> QED
    BY <1>4, <2>1, <2>2 DEF Free
<1>6. /\ a.mem.ram = m.ram /\ a.mem.alive = m.alive
      /\ a.page \in Pool \ DOMAIN K /\ a.page \in Pages /\ a.page # 0
  <2>1. /\ a.mem.ram = m.ram /\ a.mem.alive = m.alive
        /\ a.page \in Pool \ m.bits
    BY <1>1, <1>5, <1>a, AllocNew
  <2> QED
    BY <2>1, PoolInPages
<1>7. z.ram[a.page] = ZeroContent
  BY <1>4, <1>6 DEF Tree, FreeZero
<1>8. /\ z \in Memory /\ z.bits = a.mem.bits /\ z.alive = m.alive
      /\ \A x \in Pages : x # 0 /\ x # a.page => z.ram[x] = m.ram[x]
  BY <1>4, <1>6
<1> QED
  BY <1>3, <1>5, <1>7, <1>8, <1>a, MapFresh

(* load_task (memory.c:143-207) for an image with at most one page of bss: *)
(* a new root that translates the pages of the payload to those of the     *)
(* image, the page of bss to a frame of its own full of zeros, and nothing *)
(* else; the other roots translate what they did.                          *)
ImageLoaded(m, m2, R, K, r, image) ==
  \E K2, par2 :
    /\ Tree(m2, R \cup {r}, K2, par2, NoPage) /\ Extends(m, K, m2, K2)
    /\ SameTranslations(m, m2, R)
    /\ r \in DOMAIN K2 \ DOMAIN K
    /\ \A j \in 0 .. image.payload - 1 : Translate(m2, r, Text(j)) = image.page + j
    /\ \A j \in image.payload .. image.payload + image.bss - 1 :
         \E f \in DOMAIN K2 \ DOMAIN K :
           Translate(m2, r, Text(j)) = f /\ K2[f] = "frame" /\ m2.ram[f] = ZeroContent
    /\ \A v \in User :
         ~(\E j \in 0 .. image.payload + image.bss - 1 : v = Text(j)) =>
           Translate(m2, r, v) = NoPage

(* The bss loop only takes pages from the pool.                            *)
LEMMA BssBits ==
  ASSUME NEW m \in Memory, NEW r, NEW image, ImageOK(image), image.bss \in {0, 1},
         NEW m2, m2 = MapBss(m, r, image)
  PROVE  m.bits \subseteq m2.bits
<1>1. CASE image.bss = 0
  BY <1>1, MapBssSteps
<1>2. CASE image.bss = 1
  <2>a. PICK a : a = AllocPage(m)
    OBVIOUS
  <2>z. PICK z : z = Keep(a.mem, a.page)
    OBVIOUS
  <2>1. a.mem \in Memory /\ m.bits \subseteq a.mem.bits /\ a.page \in Nat
    BY <2>a, AllocBits
  <2>2. PICK w \in Nat : w = a.page * PAGE_SIZE
    BY <2>1 DEF PAGE_SIZE
  <2>3. z \in Memory /\ z.bits = a.mem.bits
    <3>1. z = Put(a.mem, 0, 0, w)
      BY <2>z, <2>2 DEF Keep
    <3> QED
      BY <2>1, <3>1, StoreBits
  <2>4. PICK v \in User : v = Text(image.payload)
    BY <1>2 DEF ImageOK
  <2>5. image.payload + 1 - 1 = image.payload /\ a.page + 1 - 1 = a.page
    BY <2>1 DEF ImageOK
  <2>6. m2 = MapPage(z, r, v, a.page)
    BY <1>2, <2>a, <2>z, <2>4, <2>5, MapBssSteps
  <2>7. /\ m2.bits = Walk3(z, r, v).mem.bits
        /\ z.bits \subseteq Walk1(z, r, v).mem.bits
        /\ Walk1(z, r, v).mem.bits \subseteq Walk2(z, r, v).mem.bits
        /\ Walk2(z, r, v).mem.bits \subseteq Walk3(z, r, v).mem.bits
    BY <2>1, <2>3, <2>6, MapPageBits
  <2> QED
    BY <2>1, <2>3, <2>7
<1> QED
  BY <1>1, <1>2

(* The payload loop only sets bits of the pool, from any memory. *)
LEMMA PayloadBits ==
  ASSUME NEW m \in Memory, NEW r, NEW image, ImageOK(image),
         NEW m2, m2 = MapPayload(m, r, image)
  PROVE  m2 \in Memory /\ m.bits \subseteq m2.bits
<1> PICK n \in Nat : n = image.payload
  BY DEF ImageOK
<1>1. PICK f : /\ f[0] = m /\ m2 = f[n]
               /\ \A k \in 1 .. n : f[k] = MapPage(f[k - 1], r, Text(k - 1), image.page + k - 1)
  BY MapPayloadSteps
<1> DEFINE Good(k) == f[k] \in Memory /\ m.bits \subseteq f[k].bits
           S == {k \in 0 .. n : ~Good(k)}
<1>2. Good(0)
  BY <1>1
<1>3. ASSUME NEW k \in 0 .. n - 1, Good(k) PROVE Good(k + 1)
  <2>1. /\ k + 1 \in 1 .. n /\ (k + 1) - 1 = k /\ image.page + k \in Nat
        /\ image.page + (k + 1) - 1 = image.page + k
    BY DEF ImageOK
  <2>2. f[k + 1] = MapPage(f[k], r, Text(k), image.page + k)
    <3> PICK l \in 1 .. n : l = k + 1
      BY <2>1
    <3>1. f[l] = MapPage(f[l - 1], r, Text(l - 1), image.page + l - 1)
      BY <1>1
    <3> QED
      BY <2>1, <3>1
  <2> PICK v \in User : v = Text(k)
    BY DEF ImageOK
  <2>3. /\ f[k + 1] \in Memory /\ f[k + 1].bits = Walk3(f[k], r, v).mem.bits
        /\ f[k].bits \subseteq Walk1(f[k], r, v).mem.bits
        /\ Walk1(f[k], r, v).mem.bits \subseteq Walk2(f[k], r, v).mem.bits
        /\ Walk2(f[k], r, v).mem.bits \subseteq Walk3(f[k], r, v).mem.bits
    BY <1>3, <2>1, <2>2, MapPageBits
  <2> QED
    BY <1>3, <2>3
<1> HIDE DEF Good
<1>4. S = {}
  <2> SUFFICES ASSUME S # {} PROVE FALSE
    OBVIOUS
  <2>1. S \in SUBSET Nat
    OBVIOUS
  <2>2. PICK p \in S : \A q \in S : p <= q
    <3> HIDE DEF S
    <3> QED
      BY <2>1, LeastNat
  <2>3. p # 0 /\ p \in 0 .. n /\ ~Good(p)
    BY <1>2
  <2> PICK k \in 0 .. n - 1 : p = k + 1
    <3>1. p - 1 \in 0 .. n - 1 /\ p = (p - 1) + 1
      BY <2>3
    <3> QED
      BY <3>1
  <2>4. k \in 0 .. n /\ ~(p <= k)
    OBVIOUS
  <2>5. Good(k)
    BY <2>2, <2>4
  <2> QED
    BY <1>3, <2>3, <2>5
<1>5. Good(n)
  BY <1>4
<1> QED
  BY <1>1, <1>5 DEF Good

(* Theorem: load_task (memory.c:142-214) builds a root that maps the       *)
(* payload where the loader put it and the page of bss on a cleared frame, *)
(* and leaves the tree of the other roots as it was.                       *)
THEOREM LoadTree ==
  ASSUME NEW m, NEW R, NEW K, NEW par, Tree(m, R, K, par, NoPage), m.bits = DOMAIN K,
         NEW image, ImageOK(image), image.bss \in {0, 1},
         NEW l, l = LoadTask(m, image), Free(l.mem) # {}
  PROVE  ImageLoaded(m, l.mem, R, K, l.page, image)
<1>k. PICK k : k = KernelTables(m)
  OBVIOUS
<1> PICK r : r = k.page
  OBVIOUS
<1>c. PICK mc : mc = MapPayload(k.mem, r, image)
  OBVIOUS
<1>1. l.page = r /\ l.mem = MapBss(mc, r, image)
  BY <1>k, <1>c DEF LoadTask
<1> PICK ml : ml = l.mem
  OBVIOUS
<1>2. Free(k.mem) # {} /\ Free(mc) # {}
  <2>1. m \in Memory
    BY DEF Tree, Shape
  <2>2. k.mem \in Memory
    BY <1>k, <2>1, KernelTablesMemory
  <2>3. mc \in Memory /\ k.mem.bits \subseteq mc.bits
    BY <1>c, <2>2, PayloadBits
  <2>4. mc.bits \subseteq ml.bits
    BY <1>1, <2>3, BssBits
  <2> QED
    BY <2>3, <2>4 DEF Free
<1>3. PICK p3, p2, p1 : KernelWords(m, k.mem, r, p3, p2, p1)
  BY <1>2, <1>k, KernelTablesWords DEF Tree, Shape
<1> DEFINE R2 == R \cup {r}
<1>4. PICK K1, par1 :
        /\ Tree(k.mem, R2, K1, par1, NoPage) /\ Extends(m, K, k.mem, K1)
        /\ SameTranslations(m, k.mem, R)
        /\ r \in DOMAIN K1 \ DOMAIN K
        /\ \A v \in User : Translate(k.mem, r, v) = NoPage
  BY <1>3, KernelTree
<1> HIDE DEF R2
<1>5. r \in R2 /\ R \subseteq R2
  BY DEF R2
<1>6. r \notin R
  BY <1>4 DEF Tree, Shape
<1>7. PayloadMapped(k.mem, mc, R2, K1, r, image, image.payload)
  <2>1. k.mem.bits = DOMAIN K1
    BY <1>4 DEF Extends
  <2> QED
    BY <1>2, <1>4, <1>5, <1>c, <2>1, PayloadTree
<1>8. PICK K2, par2 :
        /\ Tree(mc, R2, K2, par2, NoPage) /\ Extends(k.mem, K1, mc, K2)
        /\ \A j \in 0 .. image.payload - 1 : Translate(mc, r, Text(j)) = image.page + j
        /\ \A t \in R2, u \in User :
             ~(t = r /\ \E j \in 0 .. image.payload - 1 : u = Text(j)) =>
               Translate(mc, t, u) = Translate(k.mem, t, u)
  BY <1>7 DEF PayloadMapped
<1>9. Extends(m, K, mc, K2)
  BY <1>4, <1>8, ExtendsTrans
<1>10. SameTranslations(m, mc, R)
  BY <1>4, <1>5, <1>6, <1>8 DEF SameTranslations
<1>11. \A v \in User : ~(\E j \in 0 .. image.payload - 1 : v = Text(j)) =>
         Translate(mc, r, v) = NoPage
  BY <1>4, <1>5, <1>8
<1>12. r \in DOMAIN K2 \ DOMAIN K
  BY <1>4, <1>8 DEF Extends
<1>13. CASE image.bss = 0
  <2>1. ml = mc
    BY <1>1, <1>13, MapBssSteps
  <2>2. image.payload + image.bss - 1 = image.payload - 1
    BY <1>13 DEF ImageOK
  <2>3. \A j \in image.payload .. image.payload - 1 : FALSE
    BY DEF ImageOK
  <2> QED
    BY <1>1, <1>8, <1>9, <1>10, <1>11, <1>12, <2>1, <2>2, <2>3 DEF ImageLoaded, R2
<1>14. CASE image.bss = 1
  <2> PICK n \in Nat : n = image.payload
    BY DEF ImageOK
  <2>0. n + image.bss - 1 = n /\ n \in 0 .. n /\ \A j \in 0 .. n : j = n \/ j \in 0 .. n - 1
    BY <1>14
  <2>1. PICK v \in User : v = Text(n)
    BY <2>0 DEF ImageOK
  <2>2. ~ \E j \in 0 .. n - 1 : v = Text(j)
    BY <2>1, TextDiffers
  <2>3. FreshlyMapped(mc, ml, R2, K2, r, v)
    <3>1. Translate(mc, r, v) = NoPage
      BY <1>11, <2>2
    <3>2. mc.bits = DOMAIN K2
      BY <1>9 DEF Extends
    <3>3. ml = MapBss(mc, r, image)
      BY <1>1
    <3> QED
      BY <1>5, <1>8, <1>14, <2>1, <3>1, <3>2, <3>3, BssTree
  <2>4. PICK K3, par3, f :
          /\ Tree(ml, R2, K3, par3, NoPage) /\ Extends(mc, K2, ml, K3)
          /\ OnlyMaps(mc, ml, R2, r, v, f)
          /\ f \in DOMAIN K3 \ DOMAIN K2 /\ K3[f] = "frame"
          /\ ml.ram[f] = ZeroContent
    BY <2>3 DEF FreshlyMapped
  <2>5. Extends(m, K, ml, K3)
    BY <1>9, <2>4, ExtendsTrans
  <2>6. SameTranslations(m, ml, R)
    BY <1>5, <1>6, <1>10, <2>4 DEF SameTranslations, OnlyMaps
  <2>7. f \in DOMAIN K3 \ DOMAIN K /\ r \in DOMAIN K3 \ DOMAIN K
    BY <1>9, <1>12, <2>4 DEF Extends
  <2>8. \A j \in 0 .. n - 1 : Translate(ml, r, Text(j)) = image.page + j
    <3> SUFFICES ASSUME NEW j \in 0 .. n - 1 PROVE Translate(ml, r, Text(j)) = image.page + j
      OBVIOUS
    <3>1. Text(j) \in User /\ Text(j) # v
      BY <2>0, <2>1, TextDiffers DEF ImageOK
    <3> QED
      BY <1>5, <1>8, <2>4, <3>1 DEF OnlyMaps
  <2>9. \A j \in n .. n + image.bss - 1 : Translate(ml, r, Text(j)) = f
    <3>1. \A j \in n .. n + image.bss - 1 : j = n
      BY <2>0
    <3> QED
      BY <2>1, <2>4, <3>1 DEF OnlyMaps
  <2>10. \A u \in User : ~(\E j \in 0 .. n + image.bss - 1 : u = Text(j)) =>
           Translate(ml, r, u) = NoPage
    <3> SUFFICES ASSUME NEW u \in User, ~(\E j \in 0 .. n : u = Text(j))
                 PROVE  Translate(ml, r, u) = NoPage
      BY <2>0
    <3>1. u # v /\ ~(\E j \in 0 .. n - 1 : u = Text(j))
      BY <2>0, <2>1
    <3> QED
      BY <1>5, <1>11, <2>4, <3>1 DEF OnlyMaps
  <2>11. ImageLoaded(m, ml, R, K, r, image)
    BY <2>4, <2>5, <2>6, <2>7, <2>8, <2>9, <2>10 DEF ImageLoaded, R2
  <2> QED
    BY <1>1, <2>11
<1> QED
  BY <1>13, <1>14
===============================================================================
